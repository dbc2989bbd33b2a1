------------------------------ MODULE ZhvmImage -----------------------------
(***************************************************************************)
(* A machine (class memory) as an object, and the stream that Dump writes  *)
(* and Load reads.  A stream is a sequence of cells; a header word, a byte *)
(* of a segment, a register, the set flag and the hash are a cell each.    *)
(***************************************************************************)
EXTENDS Integers, SequencesExt

CONSTANTS
  Cell,        \* the values of a cell of the body
  HashMod,     \* the number of values of the hash (2^32)
  NRegs,       \* registers saved: all but $z
  HeaderExtra, \* cells of memory_file_header behind its four words
  Magic,       \* ZHVM_MEMORY_FILE_MAGIC
  Version,     \* ZHVM_VM_VERSION
  Slots        \* indices of the callback array

ASSUME CellAssumption ==
  /\ Cell \subseteq Nat
  /\ 0 \in Cell
  /\ HashMod \in Nat \ {0}
  /\ NRegs \in Nat
  /\ HeaderExtra \in Nat
  /\ Magic \in Nat
  /\ Version \in Nat

(* Four and two bytes, taken modulo 2^32, by an odd factor: what is hashed *)
(* is below the modulus, and the factor has an inverse.                    *)
ASSUME HashAssumption ==
  /\ Cell \subseteq 0 .. HashMod - 1
  /\ \E v \in 0 .. HashMod - 1 : (65599 * v) % HashMod = 1 % HashMod

Callback == {"none", "put", "get", "putc", "getc"}

Cells(n) == [1 .. n -> Cell]

(* The machines with segments of c and d bytes.                            *)
Machine(c, d) ==
  [csize : {c}, dsize : {d}, cdata : Cells(c), ddata : Cells(d),
   regs : Cells(NRegs), sflag : Cell, funcs : [Slots -> Callback]]

NoFuncs == [k \in Slots |-> "none"]

(* The contents of new segments are whatever the allocator left there.     *)
NewMachine(c, d) ==
  {[csize |-> c, dsize |-> d, cdata |-> code, ddata |-> data,
    regs |-> [i \in 1 .. NRegs |-> 0], sflag |-> 0, funcs |-> NoFuncs] :
      code \in Cells(c), data \in Cells(d)}

-----------------------------------------------------------------------------
(***************************************************************************)
(* The hash: hash = c + (hash << 6) + (hash << 16) - hash.                 *)
(***************************************************************************)
(* fault: the last term is missing *)
Hashed_Even(h, c) == (c + 65600 * h) % HashMod

Hashed(h, c) == (c + 65599 * h) % HashMod

Sdbm(s) ==
  LET hash[i \in 0 .. Len(s)] == IF i = 0 THEN 0 ELSE Hashed(hash[i - 1], s[i])
  IN hash[Len(s)]

(* Dump fills four words of the header; the rest of the structure is       *)
(* written, and hashed, as the stack left it: junk.                        *)
Header(m, junk) == << Magic, Version, m.csize, m.dsize >> \o junk

(* fault: the set flag is hashed and written before the registers *)
Body_FlagFirst(m) == m.cdata \o m.ddata \o << m.sflag >> \o m.regs

Body(m) == m.cdata \o m.ddata \o m.regs \o << m.sflag >>

(* fault: the header is not hashed *)
Dumped_BodyHash(m, junk) == Header(m, junk) \o Append(Body(m), Sdbm(Body(m)))

Dumped(m, junk) ==
  LET s == Header(m, junk) \o Body(m) IN Append(s, Sdbm(s))

-----------------------------------------------------------------------------
(***************************************************************************)
(* Load.  Every read asks for a fixed number of cells and throws when it   *)
(* gets fewer; what follows the hash is not looked at.                     *)
(***************************************************************************)
HeaderLen == 4 + HeaderExtra

(* Where the hash stands, by the sizes of the header.                      *)
HashAt(f) == HeaderLen + f[3] + f[4] + NRegs + 2

Loadable(f) ==
  /\ Len(f) >= HeaderLen
  /\ f[1] = Magic
  /\ f[2] = Version
  /\ Len(f) >= HashAt(f)
  /\ f[HashAt(f)] = Sdbm(SubSeq(f, 1, HashAt(f) - 1))

(* n cells of f from behind the first k.                                   *)
Part(f, k, n) == SubSeq(f, k + 1, k + n)

(* The machine Load moves into place; its callbacks are those of a new one.*)
Loaded(f) ==
  LET c == f[3]
      d == f[4]
  IN [csize |-> c, dsize |-> d,
      cdata |-> Part(f, HeaderLen, c),
      ddata |-> Part(f, HeaderLen + c, d),
      regs  |-> Part(f, HeaderLen + c + d, NRegs),
      sflag |-> f[HeaderLen + c + d + NRegs + 1],
      funcs |-> NoFuncs]
=============================================================================
