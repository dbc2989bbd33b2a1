# ZHVM verification project

TLA+ modules, TLC configurations and TLAPS proofs for the virtual machine ZHVM:
its interpreters, its assembler with the scanner in front of it, its image files,
its read-eval-print loop, and the two compilers that feed it.

## The system

| Part | Source | State it keeps | Operations | Talks to |
|------|--------|----------------|------------|----------|
| machine | `include/zhvm/memory.class.h`, `src/zhvm/memory.class.cpp` | 16 registers of 64 bits, the set flag, a code and a data segment, 16 callback slots | `Get`, `Set`, `SetByte`..`SetQuad`, `GetByte`..`GetQuad`, `GetCode`, `SetCode`, `Copy`, `Compare`, `SetFuncs`, `Call`, `TestSetRP`, `NewImage`, `Dump`, `Load` | a stream; callbacks |
| interpreter | `src/zhvm/interpreter.cpp` | none of its own | `Step`, `Execute` | machine, callbacks |
| prefetching interpreter | the same | a cache of decoded commands and the place in it | `ExecutePrefetch` (`FillCache`, `BurstStep`) | machine |
| scanner | `src/zhvm/cmplv2.lex`, `src/zhvm/win32/cmplv2.gen.cpp` | tables; buffers, the start condition and its stack; the include stack, which belongs to the process | `yylex`, one scan after another | files; the assembler, which takes its tokens |
| assembler | `src/zhvm/cmplv2.class.cpp`, `assembler.cpp` | token, state stack, label table, fix list, two write offsets | `Assemble` | scanner; machine (writes code, data, `$p`, `$d`) |
| compiler `zlg` | `src/zlg`, `include/zlg` | syntax tree; allocator: reference counts, free queue, variable and constant tables | `Scan`, `Generate` | emits assembler text |
| compiler `bfc` | `src/bfc` | the count of commands printed, a stack of open loops | a case per token | emits assembler text |
| REPL | `src/repl/main.cpp` | one machine, the file `dump.bin` | a command per line | all of the above |
| command lines | `src/exec`, `src/cmplv2`, `src/zlgc` | none | load and run, assemble, compile | the above |

The parts run in one thread and call each other.  What makes them hard is not
concurrency but stale state and edges: commands decoded before their
predecessors ran, a set flag that decides whether the program counter advances,
signed values compared as `size_t`, exceptions out of the middle of an
instruction, a file that is written in place and read back after a crash,
registers whose cached meaning may be out of date, lexemes cut in two by the end
of a buffer, and a stack of includes that outlives the scan it was made for.  The list, each at its line,
is `hazards` in `PROJECT.json`.

What makes each part correct:

* machine: `$z` is 0 whatever is written to it; loads give back what stores
  wrote; no accepted access leaves its segment; a refused one changes nothing.
* interpreter: an instruction changes what it names and nothing else, and
  advances the program counter unless it wrote it; calls come back to their
  caller.
* prefetching interpreter: does what the plain one does.
* image: `Load` undoes `Dump`, and accepts nothing else.
* REPL: whatever happens around `~dump`, `~load` brings the whole machine that
  was last saved, or refuses.
* scanner: its tables and buffers do what the rules of the lexer file say, wherever
  a buffer ends; each included file is read once, in its place.
* assembler: what it accepts is what its language means, with every label's
  value in every command that named it; what it does not accept is reported.
* compiler `zlg`: a register is free exactly when nobody needs it, and holds what
  the tables say.
* compiler `bfc`: the code does what the brainfuck program does.

## Modules

| Module | Models | EXTENDS |
|--------|--------|---------|
| `ZhvmWord` | 2's complement words, cells of 1, 2, 4 and 8 bytes, the arithmetic of the opcodes | |
| `ZhvmInterpreter` | the machine and every opcode, as disjuncts of `Interpret(cmd)` | `ZhvmWord` |
| `ZhvmExec` | `Step` and `Execute` | `ZhvmInterpreter` |
| `ZhvmBurst` | `ExecutePrefetch`; refines `ZhvmExec` | `ZhvmExec` |
| `ZhvmCalls` | `zcl` and `ret` as a stack of calls, with a history of the frames and of whether the program keeps to the discipline | `ZhvmExec` |
| `ZhvmImage` | a machine as an object, and the stream of `Dump` and `Load` | |
| `ZhvmRepl` | the prompt, `dump.bin`, the process | `ZhvmImage` |
| `ZhvmLexRules` | the rules of `cmplv2.lex`: patterns, which one wins, tokens, start conditions | |
| `ZhvmLexer` | what a scan is, over the texts that are open | `ZhvmLexRules` |
| `ZhvmScanner` | the scanner that flex made of the rules; refines `ZhvmLexer` | `ZhvmLexRules` |
| `ZhvmAssembly` | what an assembly text means: a two-pass assembler over statements | `ZhvmWord` |
| `ZhvmCmplv2` | the assembler: `command()`, `macro()`, fixes | `ZhvmAssembly` |
| `ZlgContext` | the compiler's register allocator, its methods as operators | |
| `ZlgCodegen` | the compiler: every node's `prepare_node` and `produce_node`, and a machine that runs the code | `ZlgContext`, `ZhvmWord` |
| `ZlgMeaning` | what a program of the language means: an evaluator of trees | `ZlgCodegen` |
| `Brainfuck` | what a brainfuck program means | |
| `Bfc` | `bfc`, and its text assembled (`ZhvmAssembly`) and run (`ZhvmExec`); refines `Brainfuck` | `ZhvmExec` |
| `ZhvmWordProofs` | lemmas on words, cells and addresses | `ZhvmWord` |
| `ZhvmExecProofs`, `ZhvmCallsProofs`, `ZhvmCmplv2Proofs`, `ZhvmReplProofs`, `ZhvmScannerProofs`, `ZlgCodegenProofs`, `BfcProofs` | theorems about the module of that name; `ZhvmExecProofs` also about `ZhvmBurst`, `ZhvmReplProofs` about `ZhvmImage` | |
| `MC...` | instances for TLC | |

### The machine and the interpreters

The variables are the class's members: `regs`, `sflag` (the set of registers
written since it was last cleared), `code`, `ddata`, `funcs`; `status`, which is
the result of the loop (`run`, `halt`, `reserved` for an opcode that is none), an
exception (`codefault`, `datafault`), a signal (`killed`) or `wild` for an access
outside of every object of the model; and `console`, what the last instruction
printed.  The program counter is the register `RP`, as in the code.

`Interpret(cmd)` is `InterpretCommand`: one operator per case or group of equal
cases, each with its guards.  `Ran` is what `Step` does after a command that
returned `IR_RUN`: it tests and clears the bit of `RP` in the set flag and
advances the program counter by a command, or leaves it where the command put it.

Choices that follow the build (`-m32`, no sanitizer):

* An address is the low half of a register (`AddrHalf`), because `off_t` and
  `size_t` have 32 bits; the comparison `offset + sizeof < dsize` wraps there.
* Signed overflow wraps.  `INT64_MIN / -1` wraps or traps: both are tried.
* `wild` ends the run.  Everything an access may touch without leaving the
  model's objects is in the model: the front slack of the segments, of any
  content, which small negative offsets reach through the wrapping check.
* A misaligned code offset holds an arbitrary command; code is never written by
  the machine, which has no instruction for it.
* `Compare` gives any number of the sign `memcmp` would give.
* `get` and `getc` read any word of `Inputs`.

`ZhvmCalls` puts two histories beside the machine and changes nothing in it:
`frames`, the places callers expect to be returned to, and `disciplined`, which
becomes `FALSE` at the first step that is not the discipline's (`Stray`): a `ret`
without a call, another use of `$s`, a store below the top of the stack.  Any
program may run; what is said of calls is said as long as it is disciplined.

### The assembler

A text is a sequence of lines, a line its tokens and, for the specification
only, its meaning.  The queue of two tokens is `pos`, the front token, and
whether there is one behind it (`HasNext`), which is what `nextToken` returns.
`stack` is the stack of states as it is, with `MACRO` for a `macro()` that has
been called; a macro is one action, from its first token to its return, since
nothing else can run.  Each case of `command()` is one action of the same name;
`Expected` holds the labels of the inner switches and `Unexpected` is their
defaults.  `Shift`, `Become`, `Enter` and `Reject` are what the cases share: a
new state with the next token, with the same token, below the old one, and
`BAD_END`.

* Where a sign was read, `NUMBER` does not look at the token's type: of a token
  that is no number, `num` holds any word of `Garbage`.
* `MacroFails` is the code's overwritten `BAD_END`: the stack goes on with
  `START` on top and the token that was not liked in front.
* The fixes are taken in any order (the map is unordered); an exception
  (`FinishThrows`, `MacroThrows`) leaves everything written so far in place.
* `uses` (labels named, with the offset of the command) and `said` (an error
  message was printed) are history.

The specification, `ZhvmAssembly`, has no parser, no stack and no fixes: the
place of a line is the sum of the lines before it, a label is the place of the
line that defines it, and code, data and registers follow.  It says nothing of
lines that are not statements: `AgreesWithTwoPass` is about texts without any,
and the other properties about all.  What it is for a line to be written as it is
meant is said once, by `SaysCommand` and `SaysMacro`, which read the forms of the
language off its tokens (an operand that is left out is zero, a sign may stand in
front of a number, `@` in front of a label, and the number of a cell means what is
left of it in so many bytes); `SaysAssumption` asks it of every statement among
`Lines`.  It is about the words and not about the assembler, which has no part in it.

### The scanner

`cmplv2.lex` is turned into C++ by flex in most builds; for Windows
(`src/zhvm/CMakeLists.txt:13-21`) the result is checked in, and that file is what
`ZhvmScanner` models: the arrays of the automaton entry by entry, the match and
its way back to the last accepting state (`Along`), the two buffers' kinds (a
file, refilled by `Refill`; a string, which is not), growth, and the include
stack.  A buffer is a record; `pos` separates the characters taken from those
`Pending`, and `unread` is what its file still has.  An action is what `yylex`
does between two matches, so a lexeme may take several: refills first, then the
rule.

* A character is its own class representative; NUL has the special treatment
  of the code (`Class`).
* A terminal gives at most a line at a time, a file what fits.
* Buffers are numbered like the addresses of an allocator that prefers old ones;
  using a number that is not alive, an index below the stack or a null file is
  `wild`.
* A scan may be dropped between any two tokens, which is what `command()` does at
  an error; `NextScan` is the destructor and the next constructor.
* `WordMarks` are the characters of a word besides letters and digits: the file
  has `_`, the checked-in tables do not, and the instance takes the tables' side.

`ZhvmLexer` has no buffers: what is open is a stack of texts, and a step takes
the longest match from the innermost.  It promises nothing behind an include that
failed, and behind any include of a scan that is not the first, since the scanner
does not keep such a promise (`broken`).  The refinement maps the current buffer
and those on the include stack to the texts still to be read.

### The image and the REPL

A stream is a sequence of cells: a header word, a byte of a segment, a register,
the set flag and the hash are one each.  `Dump` sets four words of
`memory_file_header` and hashes and writes all of it: `junk` is the rest.
`Loadable` is the conjunction of the tests in `Load` that do not throw and
`Loaded` the machine that is moved into place.  The hash is the code's, with
another modulus: that its multiplier is odd is what makes a single changed byte
visible.

`ZhvmRepl` has a `phase` for what the process is doing, `file` for what has
reached the disk and `pending` for what `Dump` has still to write; writes come in
pieces of any size, fail without notice (`DumpFails`), or are cut by `Kill`.
A `~dump` whose file does not open (`DumpOpenFails`) writes nothing and says
nothing: what was in `dump.bin` stays there.  `saved`, the machine of the last
`~dump` that opened the file, `harm`, what somebody else did to the file since, and
`missed`, whether a later `~dump` of another machine did not open it, are history.
`Runs` is what running code does to the machine
(its detail is `ZhvmExec`); `Line` is what compiling and assembling a line does.
Printing, the log switch and the timing are left out.  `LoadNothing`, a `~load`
without a file or with one that does not open, changes nothing; `LoadThrows` is a
`~load` of a file that is not a whole dump, or one in which a read fails.  `Damage` leaves the two size words alone: with
a smaller size the hash is read from another place, and nothing can be said.

### The compiler

A tree is a record: its kind, operator, number, variable, kids, and what
`prepare_node` computes of it, the Ershov number and how often a `prev` node
below takes a reference to `$a`.  The constructors (`BinopNode`, `IfNode`, ...)
are the nodes' constructors with `prepare_node`; nothing else reads the number
before it is there.  `Trees` is closed under kids (`TreeAssumption`), which is
what the grammar builds.

The `produce_node` methods call each other.  `todo` is that stack of calls: a
node still to be produced, a node whose operands are there (`Finish...`), the
`cmz` of a condition (`Test`), or text behind a statement (`Write`).  `vals` is
what the pending calls have in hand, the registers of the operands, newest first.
An action that needs operands has them as a guard: were one missing, the walk
would stop, and the run looks for that as a deadlock.  `map` is the context:
`count`, `stat` (what a register holds, a tag where the code has text) and
`queue`; `produced` is its table of variables.  Each method of the context is an
operator on `map`; the two searches give the set of their results, which is empty
where they throw.

* The root's result is `$a` and is neither searched nor released, as
  `node::Produce` does it.
* `FinishBinop` lets the first operand go, takes the result's register, and lets
  the second go, in that order.  The result may be in the first operand's
  register.
* `FinishSet` takes two registers it does not give back, marks neither, and may
  get one that another constant is believed to be in.
* A label is a kind and a number; `labels` is advanced when a statement is
  reached, where the code does so while preparing.  Both number each
  statement once, and no more is used of a number.
* `Throw` is every exception: `zlgc` does not catch them.
* Left out: inline assembly, whose effect on registers the compiler does not
  know, and the grammar's error node.

When the walk has ended, the code runs: `Execute` is the part of `Interpret` the
compiler uses, with labels in the place of offsets, one cell for each variable,
and `wild` for a memory access anywhere else.  `zlgc` prints no `hlt`; the end of the
code is taken for the end of the program, where the machine would run on into
whatever lies behind it.  `printed` is what the callback got.

### The brainfuck compiler

`rest` is the text `yylex` has not read; each case of `main` is one action, which
prints its statements and counts.  `printed` are statements as `ZhvmAssembly`
takes them, labels included, so the assembler is its own specification here (the
run `assembler` compares the two), and the machine is `ZhvmExec` with the
callbacks that `exec` installs.  `Brainfuck` knows only commands and a tape.  The
refinement needs to know, at every machine command, how much of the program has
been done and where the pointer is: `origin` records both for each command
printed.  For `.` and `,` the pointer lives in `$c` while `$a` is the callback's.

* The data segment of a new image is not cleared: the tape starts with what
  `Segments` holds.
* Code behind the program is reserved opcodes, so that a machine that runs on is
  noticed.
* A cell exists where the accessors find one: offsets -1 to `DSize` - 2, by the
  wrapping check.  A program that works elsewhere faults, in both.

## What the runs check

| Run | Question | Bounds |
|-----|----------|--------|
| `exec_programs` | every opcode, over operand classes and boundary offsets; is the word algebra that of the reference definitions | 16-bit words at the boundaries, all byte values for `&`; `HalfByte` 2 (16-bit registers, 8-bit addresses), 16 bytes of code, all programs of two commands from an alphabet of 30, from three register contents and from a program counter about to wrap; blocks at every side of the bounds |
| `burst` | `ExecutePrefetch` refines `Execute`, with liveness | a cache of 2 commands, programs of 4 |
| `calls` | frames survive nesting, recursion, stores; a full stack ends it | 20 bytes of code, a stack that overlaps the front slack |
| `repl` | dump and load under files that do not open, failing writes, kills, damage | segments of one byte, one register, bits for bytes, hash of 16 values |
| `repl_last_dump` | finding: after a `~dump` that did nothing, `~load` brings an older machine | the same; a trace of six states shows it |
| `assembler` | the assembler against the two-pass one; errors, fixes, ends of segments | all texts of up to 3 lines from an alphabet of 24; immediates of 4 bits; room for 4 commands and 10 bytes; started at 0 and in the middle |
| `macro_errors` | finding: a text with a wrong macro is accepted | texts of 2 lines, wrong macros and one command |
| `scanner` | do tables, buffers and include stack do what the rules say | two characters of every class behind a beginning for each start condition, and all texts of up to two lines of an alphabet with includes; buffers of 4 characters that grow, reads of 3; 2 files on the include stack; 2 scans |
| `include_stack` | finding: a second scan's include uses index -1 | two texts, one with an include |
| `bfc` | does the machine do what the program says | every text of up to 3 characters, loops around 2, a dozen with loops in loops, one that does not fit; a tape of 4 cells of 4 values each, two contents of it; `MaxOut` 4 bytes printed |
| `codegen` | the allocator's books, the labels, and whether the code does what the program says | 16 registers, as in the code; 16-bit words; about 1100 programs over two variables: two assignments and a print, branch or loop, and trees that throw, run out of registers or use `prev` |
| `register_content` | finding: a register is believed to hold what it does not | the same; one print after another violates it |

Why they are enough: an instruction looks at one command, at most three
registers and one cell or block, so the interesting cases are boundaries, and
the sampled offsets lie on both sides of each; the cache matters when a jump
leaves it, ends it or refills it, which two commands show; a dump is cut at
every cell; a label has one use before or behind its definition, or one of each,
with a switch of section in between, and that is three lines; a compiled program
needs an operand of each order and depth, a value kept in a register across an
assignment, a branch and a loop, and the shortage of registers that 16 of them
give.  Of the programs of `codegen` about two in three are ones whose meaning is
compared (`PlainToPrint` and `Fits`).  The automaton decides by
classes, so two characters of every class in every start condition reach every
state but the inside of `include`, which the lines have; with reads of 3 and
buffers of 4 every lexeme longer than that is cut, moved and grown at every
place.  A brainfuck loop interacts with what is in it, before it and behind it,
and labels with loops side by side and nested.  The proofs remove the bounds for
the properties they cover.

### The properties

* `VMTypeOK`, `BurstTypeOK`, `TypeOK`, `BfcTypeOK`: the type invariants.  The first says more
  than types: `$z` stays 0, and every access that was let through stayed in a
  segment or its slack.
* `FaultKeepsMachine`: an instruction that throws leaves the machine as it was,
  but for the stack pointer of a refused `zcl`.
* `BitwiseIsTwosComplement`, `DivisionTruncates`, `CellsRoundTrip`: the bit
  operations on negative words, division towards zero, and what a store narrows
  and a load widens, against definitions that do not share their shape.  The last
  two are about the words the machine holds and the offsets they give.
* `WritesOnlyNamed`: only the named registers change, and the program counter
  advances by one command unless it was written; from any set flag, also one
  that `Load` brought.
* `BlocksStayInSegment`: of `cpy` and `cmp` between addresses of the data segment,
  whatever the length register holds: they are defined, and `cpy` changes nothing
  but its block.  With an address outside of the segment the run may be `wild`.
* `CacheCoherent`: the rest of the cache is the code from the program counter on.
* `ExecSpec`, on the run `burst`: every behaviour of the prefetching interpreter
  is one of the plain interpreter, and it stops whenever that does.  The images are
  those whose last command ends a chunk; on others `ExecutePrefetch` throws early.
* `FramesInMemory`, `ReturnsToCaller`, `CallsTerminate`: of a disciplined program
  the stack holds the return addresses of the open calls, in order, also in the
  slack in front of the segment, a `ret` goes behind its `zcl`, and calls end.
* `OnlyWholeDumpsLoad`: what `~load` accepts is the whole machine of the last `~dump`
  that opened the file, whatever failed or was killed then or later; it need not be
  that of the last `~dump`, see the findings.  `WholeDumpsLoad`: a dump written to its
  end loads.  `DamageRefused`: one with a changed cell does not.
* `LabelsResolved`: in an accepted program every command that named a label
  carries its value, whatever errors were forgotten in between.
* `AgreesWithTwoPass`: over texts of statements the assembler accepts what the
  two-pass one accepts and leaves the same code, data and registers.  The reference
  narrows an immediate as the command's bits do (`Packed`), so this does not tell
  that 8192 comes out as -8192.
* `Terminates`: the assembler ends on every text, also after a forgotten error.
* `ContextTyped`, `NoneLost`, `ResultsHeld`: the compiler's registers.  No
  reference is given back that was not taken; a register nobody has a reference to
  is in the queue; a result that waits has a reference of its own, so that nothing
  produced in between gets its register.
* `ReservedKept`: the code writes `$z`, `$s`, `$d` and `$p` nowhere, but `$p` where
  it jumps.
* `JumpsLand`: every jump of the code has exactly one label, in every nesting.
* `PlainRight`: a plain program's code leaves the values and prints what the
  evaluator of `ZlgMeaning` says.  Plain is what the register cache does not spoil:
  assignments first, then at most one branch or loop of such statements, at most
  one print at the end of a path, and registers for all of it.  The example
  of `share/zlang.md` (with smaller numbers) is not plain, and is right all the
  same.  `Throw` is accepted only for a variable that was never assigned before.

* `LexerSpec`: every behaviour of the scanner is one of the rules: same lexemes,
  same tokens, same echoes, same files.  `TokensAsWritten` is about the rules
  themselves: lines give the tokens that were written down for them by hand.
* `BuffersFit`: what is read into a buffer leaves room for its end marks.
  `BuffersOwned`: the buffers alive are those of the include stack and the current
  one, none twice: nothing leaks and nothing is deleted twice.
* `CallsReturn`: a call of `yylex` comes back, also at an end of file inside a
  comment, a macro, a register or an included file.
* `ProgramMeans`: the machine's behaviour is the program's, stopping included, and
  a text is refused only when its brackets do not match or its code does not fit.
  `LabelsOnce`: no label twice, and of an open loop its beginning and not its end.

### Fairness and deadlock

Weak fairness of `Step`, `BurstNext` and `CallsNext`: the code's
`while (result == IR_RUN)` takes another step whenever there is one, and nothing
else runs in the thread.  Weak fairness of the assembler's `Next` for the same
reason: the loops of `command()` run until they return.  The scanner's fairness is
about a call of `yylex` that has begun; whether another is made is the caller's
choice.  Weak fairness of `Bfc`'s `Next`: the three programs are run one after
the other, each to its end.  The REPL's specification has none: no property of it
needs any.  `CHECK_DEADLOCK FALSE` in the interpreters' configurations, because
programs stop, the assembler's and the scanner's, because they return, and `Bfc`'s; the REPL's and the
compiler's check for deadlock.  The compiler's has no fairness: its properties are
about states, and `Stopped` is the step of a compilation that has ended.

### Findings

The help of the REPL (`main.cpp:48`) says that `~dump` dumps the memory to
`dump.bin`.  When that file cannot be opened, `Dump` skips everything because of its
`if (out)`, `~dump` does not look at the stream, and nothing is printed: an older dump
stays where it is and the next `~load` takes it (`LastDumpLoads`).  A write that
fails later is not noticed either, but leaves a file that `~load` refuses.

The include stack is a global that no scan resets, and the outermost end of file
counts it down too: the second text that a process assembles, a line of the REPL
say, pushes an include at index -1.  The assembler returns success on texts in
which it reported an error inside a macro, against its header's comment; the
compiler prints 2 for the last of `[ presi 1; presi 2; presi 1 ]`, since a print
overwrites `$a` without forgetting that a constant was in it.

Not checked by a run:

* The accessors refuse the last cell of each segment (`<` for `<=`); `ccl` adds
  register numbers, where README.md:115 says their contents; the assembler accepts
  the immediate 8192 (`ZHVM_IMMVAL_MAX`), which 14 bits do not hold and which is
  stored as -8192.  README.md says `ccl`; the assembler's word is `cll`.
* The scanner: README.md's `!$R @LABEL` sends the `@` to standard output, where the
  image goes, because `MACRO_STATE` has no rule for it; the checked-in tables have no `_` in a word, so that README.md's
  `!LABEL_NAME` is cut in two on Windows; an include that cannot be opened returns
  `TT2_ERROR` without setting the token's type, which is the one `prepare()` uses,
  and leaves its entry on the stack and `yyin` null; included files are never
  closed; an end of file in a comment, macro or register ends the whole scan, also
  from inside an included file; numbers saturate at 2147483647; an include without
  a name takes the next line's word for it.
* `bfc`: `bfc.h` has the comments of `<` and `>` exchanged; a tape starts with
  whatever the memory held; more than 8191 equal commands in a row do not fit an
  immediate; what was printed before an unmatched bracket stays, without `hlt`.
* README.md describes an image version 3 with another layout, where the code
  reads and writes version 5.
* `ExecutePrefetch` throws on code whose last chunk runs off the segment, before
  it runs the commands that are there; `~load` leaves a machine without callbacks.
* The compiler: `a = b = 1` stores what happens to be in a register it never
  wrote; `a = a` stores the address of `a`; an assignment inside a block keeps two
  registers, so that half a dozen exhaust them; what a register holds is believed
  across branches, so `print a` behind `if(c) print a;` may print what was never
  loaded; unary `+`, `==` and `!=` are accepted by the grammar and have no
  instruction; `share/zlang.md` has `es` where the lexer has `se`.

## What is proved

For every value of the constants that the modules' assumptions allow:

* `TypeCorrect`, `FaultsKeepMachine`, `WritesNamed` (`ZhvmExecProofs`): for every
  machine size, word size, register set and program.  `VMTypeOK` is inductive as
  it stands: each opcode's proof rests on lemmas that words, cells and addresses
  stay in range.
* `CacheStaysCoherent`, `BurstTypeCorrect`, `BurstImplementsExec`
  (`ZhvmExecProofs`): for every cache size.  The inductive invariant is
  `BurstInv`: the types, a cache that is a sequence of commands no longer than
  its size and a place within it, and coherence.  Coherence alone is
  not inductive: a refill and a step both need the types of what they read.  The
  refinement assumes `AllSealed`: that the code's last command ends a chunk;
  without it `ExecutePrefetch` throws early.  Its fairness part is left to TLC.
* `BlocksStay`, `DivisionIsTruncating`, `CellsGiveBack` (`ZhvmExecProofs`): for
  every width of words and size of segments.  All three need `VMTypeOK` only for
  what registers hold; the work is in `ZhvmWordProofs`, which says digit by digit
  what a store leaves (`StoredCell`), that reading it gives the word's remainder
  (`SameCell`, `SignedCut`), that a quad is two longs (`QuadIsLongs`), and that
  quotients and remainders with the signs of C fit a word (`DividedFits`).
* `FramesHeld`, `ReturnsHome` (`ZhvmCallsProofs`): for every program and image,
  any segment and word size.  The inductive invariant `CallsInv` adds to
  `FramesInMemory` where frames can lie: the check that lets a push through keeps
  them between four bytes in front of the segment and five from its end, which is
  what makes a later load of the same cell legal and other cells untouched.
  `StackAssumption` says that code addresses fit the four bytes `zcl` pushes and
  where `$s` starts.
* `RoundTrip`, `PrefixRefused` (`ZhvmReplProofs`): for segments of every size,
  any number of registers, any header padding and any hash modulus, `Load`
  accepts what `Dump` wrote and gives the machine back but for its callbacks,
  and accepts no proper prefix.  Cell by cell (`DumpCells`): where each part of
  the machine stands in the stream, by the sizes in the header.
* `OnlyWholeDumps`, `WholeDumps` (`ZhvmReplProofs`): through the REPL's every
  interleaving, `~dump`s that do not open the file included: that is why they are
  about `saved` and not about the machine of the last `~dump`.  The inductive invariant `ReplInv` adds to the property that the
  file is a prefix of a dump of `saved` as long as nobody else touched it, that
  during a dump file and rest together are that dump, and that the machine and
  every readable file have the shape their size words say; without the last,
  a `~load` followed by a `~dump` would not be known to be a dump at all.
* `ReplTyped`, `DamageIsSeen` (`ZhvmReplProofs`): neither is inductive without the
  other, since a damaged file that loads may hold anything, and only a typed
  machine makes a dump whose hash says something: `WholeInv` is both with
  `ReplInv`.  The hash is a recursive function; that two streams which differ in
  one cell have different hashes (`OneCellHash`) is proved by induction on a set
  of numbers (`AllNumbers`), since the factor 65599 has an inverse and cells are
  below the modulus (`HashAssumption`, which 2^64 and bytes satisfy).
  `DamageAssumption` says that a damaged cell is a hash's value and
  `ForeignAssumption` that a file somebody else made, when `Load` accepts it, has
  segments of the sizes it says.

* `AssemblerTyped`, `LabelsAlwaysResolved` (`ZhvmCmplv2Proofs`): for texts of any
  length over any lines, any segments and any width of the immediate.  The
  inductive invariant `IInv` says that every use of a label is either the command
  being read, at `codeOff`, or one already written, and that it is either in the
  fixes or holds the value; that no two uses share an offset (so a fix touches no
  other), that the code written lies below `codeOff`, and what the stack looks
  like.  A forgotten macro error pushes a second `START`: that under the running
  state there are only `START`s is why it does no harm to labels.  That the sign
  is 1 outside of an operand is needed because `@` does not set it.

* `AgreesWithReference` (`ZhvmCmplv2Proofs`), which is `AgreesWithTwoPass`: for texts
  of any length over any lines, any offsets to start at, any sizes of segments and any
  widths of immediates and words.  No induction over texts is needed, since the
  assembler's own steps are one.  The invariant `TwoPassInv` says, with `IInv`:

  * `Before(n)`: in front of line `n` offsets, labels, code, fixes, data and registers
    are what the two passes give for the lines before, but that a command may have a
    fix where it will have a label's value;
  * `InLine`: within a line, state, token and the half-read command are those of a
    line that is written as it is meant, read up to there (`Midway`, one case for each
    state of `command()`), so that no default is ever taken on such a line
    (`UnexpectedRight`);
  * or `Lost`: the two passes do not accept the text either, and the assembler has
    ended with an error, is in `BAD_END`, or is `Astray`: `macro()` failed at a label
    defined twice, or at one a register needs before it is defined, the error was
    forgotten, and the word left in front is taken for an operator.  Whatever opcode
    that word is, the next token begins a line, hence is no `[`, and the error comes
    back.  This is why `ErrorsReported` can be false while no wrong text of
    statements is accepted.

  Behind the last line `Before` is what is to be shown (`AcceptedLegal`,
  `AcceptedCode`, `AcceptedData`, `AcceptedRegs`): offsets of different commands are
  different (`CodeUpToGrows`), cells do not overlap (`DataUpToGrows`, `CellKept`) and
  the last line that sets a register is the greatest of its lines (`MaxIs`).

* `BooksBalance`, `NoRegisterLost`, `ResultsAlwaysHeld`, `ReservedAlwaysKept`
  (`ZlgCodegenProofs`): for every set of trees, however deep, and every number of
  registers from 5 on.  The inductive invariant `IInv` is `Good` (nothing lost, the
  reserved registers have a reference and no contents, so no search returns one),
  `Held` (each register has as many references as results wait on it, and no
  result is reserved), and that the tasks still to do name only trees and text
  that keeps the reserved registers.  `Held` is about counts, because one register
  may be the result of two operands (`a + a`): a set would not know that the first
  `Release` leaves it taken.  The lemmas go method by method (`AddRefGood`,
  `ReleaseGood`, `GetRegConstGood`, `GetRegBinOpGood`), then what each does to
  results (`HeldTook`, `HeldRelease`, `HeldTwo`), then one for each action.
* `EveryJumpLands` (`ZlgCodegenProofs`): for every tree.  Labels of code that is
  still to be written count as much as those written, so `JumpInv` is about the
  places (`Spots`) of both: no label is at two of them, each is numbered below the
  counter, and every jump's label is at one.  Every action moves places from the
  tasks to the code and adds some with a new number, which one lemma covers
  (`CodeMoves`).

* `BuffersAlwaysOwned` (`ZhvmScannerProofs`): for all texts and files, any depth
  of includes, any sizes of buffers and reads, and whatever the tables find in a
  text.  `OwnedInv` adds to `BuffersOwned` that while a scan goes on the top of
  the include stack is in `0 .. MaxInclude`: the entry taken up at the end of a
  file would otherwise not be known to be one that was pushed.  That the number
  of a new buffer is new (`FreshIsNew`) stands for what `malloc` promises.

* `ScannerTyped` and `BuffersAlwaysFit` (`ZhvmScannerProofs`): for all texts,
  files, depths and sizes, and for the tables as they are checked in.  The
  inductive invariant is `ScanInv == StateOk /\ StartOk`.  `StateOk` says that the
  buffers are finitely many typed records, each with room behind what was read into
  it, and that the current one is alive; `TypeOK` alone would not say that the
  record `Cur` is one of them.  `StartOk` says that the stack of start conditions
  holds no `REGISTER` and is not empty in `REGISTER`: without it `yy_pop_state`
  could take from an empty stack.  Both rest on facts about the tables:
  `TransitionSolves` (the next state is the solution of the chain of defaults,
  which has at most two links), `TransitionRange` (it is a state of the
  automaton, the states of `REGISTER` and those of the other start conditions are
  each closed, and behind the end of a buffer there are only two states),
  `MatchFits` and `MatchAtEndFits` (a match never takes more than there is, and its
  rule is one of the start condition).  They are proved from the numbers of the
  tables, entry by entry.  Assumed of the constants: texts are sequences of
  strings, a buffer has room for two characters and a read asks for one
  (`InputsAssumption`, `FilesAssumption`, `BufSizeAssumption`), and
  `MaxIncludeAssumption`, `MaxScansAssumption`.

* `ScannerLexes` (`ZhvmScannerProofs`), which is `LexerSpec`, for all texts, files,
  depths and sizes, under the assumptions named above and `WordMarks = {}`: the
  checked-in tables know no `_`, so with the present lexer file it is false.  Four
  parts, each of which a reader may take alone:

  * `TablesAreRules`: for a text with nothing behind it, what the automaton finds in
    a start condition is the rule and the length that the rules give.  The entries of
    the tables are looked up per class of characters (`Kinds`), a state is shown to go
    on exactly over the characters of a set (`Upon`), and induction from the end of
    the text gives the match of such a state as the run of that set (`Enters`,
    `Span`); the numbers (`NumbersAre`), the keyword letter by letter (`KeyChain`) and
    the states that end at once make up the rest.  `WordMarks = {}` is used here only.
  * `MatchesStay`: a match that does not run into the end of the buffer is the match
    of the text with anything behind it.  With `NothingUnread` (a buffer that is not
    filled any more has its whole text) a match that is acted on is the lexer's
    (`ReadyMatched`), so no cut into reads and no growth can show.
  * The invariant, `LexInv == ScanInv /\ OwnedInv /\ (~broken => Tame)`.  `Tame` says
    that a buffer still to be filled has a file and one that is done has nothing
    unread (or a match at its end would be too short), that a running scan with such
    a buffer has `yyin` (or the read is of a null file), that a string's buffer is the
    outermost one (or the end of an included file could delete what the destructor
    deletes again), and that a later scan that is not `broken` has one buffer and no
    include on the stack (or its end would take up a buffer of the scan before).
    `BuffersOwned` and the types are needed for every one of these.
  * The steps, against the texts that are open (`Sources`): a refill moves
    characters from the file to the buffer and changes no text (`ReadOn`), a rule
    takes its lexeme from the first (`TakenLeaves`), an include puts one on top
    (`TextOpened`), an end of file drops the first (`TextEnds`).  Every action is then
    the lexer's of the same name, or a stutter (`NextLexes`).

* `WildWhenBroken` (`ZhvmScannerProofs`), from the same invariant and for any
  `WordMarks`: `BuffersLive`, which run `include_stack` refutes in general, holds
  until an include fails, a later scan meets one, or a scan is dropped within one
  (`~broken`).

* `BfcTyped` and `LabelsAlwaysOnce` (`BfcProofs`): for every set of texts, every
  machine that has the registers `bfc` uses (`RegistersAssumption`) and whatever its
  data held (`SegmentsAssumption`); `TextsAssumption` says that a text is a sequence
  of characters.  The inductive invariant `BfcInv` is the machine's `VMTypeOK`,
  `PrintOk`, the types of what is printed with the count of its commands, and
  `LabelsOk`.  `LabelsOnce` is not inductive: that a label is new follows only when
  every label printed is numbered below the counter, and that closing a loop leaves
  the other open loops' ends undefined only when no two open loops have one number.
  A loop counts two commands, so the next number is another one (`LoopKeeps`).
  `AssembledCommands` shows that the assembler makes a command the machine
  can decode of each line.  The counter of the model is not cut to 32 bits, so this is about
  texts of less than 2^32 commands.

Only model-checked: `TokensAsWritten` (the rules against tokens written down by hand)
and `CallsReturn` (liveness), the refinement `ProgramMeans` of `Bfc` and `PlainRight`
(inductions over program trees and texts),
`BitwiseIsTwosComplement` (recursive over data, and `Bitwise` is out of the prover's
reach), and everything that is true in the end only: `CallsTerminate`, `Terminates`
and the fairness part of `ExecSpec`.

## Not modelled, and the plan

In this order:

1. That every jump `bfc` prints has its label, and `ProgramMeans` one command at a
   time: from the labels to the offsets the assembler gives them.
2. `PlainRight` for a larger language, with the register cache made part of the
   reference, so that what it gets wrong is described and not left out.
3. The composition of scanner and assembler: that an error dropped by `prepare()`
   meets the assembler where its model expects an ordinary token.

Left out for good: the lexer and grammar of `zlg` and the lexer of `bfc` beyond its
tokens (flex and bison generate them at build time; their output is the input of
the models), option parsing, formatting and YAML, clocks, vendored code, tests.  Of
the checked-in scanner: line numbers, accessor functions nobody calls and the exits
for lack of memory.  A null machine pointer (`IR_INVALID_POINTER`) is not modelled:
no caller passes one.
