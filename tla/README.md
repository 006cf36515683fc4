# A verification project for the Chronos toy compiler

The repository holds an interactive compiler: lines of a small expression
language are read from standard input until `exit`, compiled to 32-bit x86
assembly, and the result is assembled, linked with a small C runtime
(`chlib.c`) and started. Paths below are those of the repository's `src`
directory.

The modules here model the whole way of a session: the lines typed, their
tokens and trees, the two passes of the compiler, the output of the compiled
program, and the heap of the runtime library. TLC checks them on sets of small
inputs, and TLAPS proves the results that do not depend on a particular
program.

## 1. Inventory

| Part | State it keeps | Operations | Talks to |
|---|---|---|---|
| Read loop, `main.cpp` | `buffer`, the root node with its list of statements | read a line, tokenize, parse, append, reset; at `exit` compile once | everything |
| Lexer, `lexer.cpp` | `m_CharPtr`, `m_Index`, `m_TextSize`, position, `m_Tokens`, `m_HasError` | `load_text`, `parse_tokens`, `make_*`, `clear` | loop (tokens, error) |
| Parser, `Parser.cpp` | `m_Tokens`, `m_TokenIndex`, `m_CurrentToken` | `load_tokens`, `parse_nodes` and one function per grammar level | loop (a node, `nullptr` or an error) |
| Tree, `Parser.h` | nodes with `type`, `value`, `value_type` | written by the parser, typed by the checker | checker, code generator |
| Type checker, `TypeChecker.cpp` | `Scope`, counts of assignments per type | `check_type` over the tree, `get_alloc_size` | code generator (types in the nodes, frame size) |
| Code generator, `Compiler.cpp` | `m_Code`, `m_VarTable`, `m_BPOffset`, `m_CurrentSubLabel` | `compile`, one `eval_*` per kind of node, `print_value` | the asm file |
| Compiled program | registers, flags, stack, x87 stack, output | the instructions under `main` | C library, `chlib` |
| Runtime library, `chlib.c` | block, line marks, cursor, limit | `alloc_heap`, `heap_alloc_int`, `bump_reserve_size`, ... | compiled program calls `alloc_heap` and `print_float` |
| Errors, `Error.cpp` | names and lines of files | formatting of messages | loop |

What is hard here is not concurrency: the compiler and the program it writes
are sequential, and run one after the other. The difficulties are

* *two walks over one tree that have to agree*: the type checker decides types
  and counts slots, the code generator takes the slots and looks names up in a
  table of its own;
* *state read before a recursive call and again after it*: the number of the
  next sub label in `&&` and `||`;
* *a stack discipline spread over many emitters*, each on several ways through
  the code, with results that live below ESP for a few instructions;
* *limits*: eight x87 registers, the frame, the 32-bit word, the heap block;
* *one character or token past the end*: lexer and parser advance without
  asking whether anything is left, each with its own idea of what "current"
  then means;
* *objects that live as long as the session*: lexer, parser and file manager
  are cleared between two lines, but not everything in them is;
* *errors on four ways*: a message, an exception nobody catches, `exit(-1)`, a
  signal, some after the asm file was emptied;
* *sequences of legal lines*: reassignments, assignments in skipped operands,
  empty lines, comparisons without end.

What makes each part correct:

| Part | Correctness |
|---|---|
| Type checker and code generator together | slots lie in the frame; names are bound where they are used and with the type of the node; labels are unique, defined, and behind the jumps to them |
| Compiled program | prints the value of every statement in order and exits, or ends before the first without memory; leaves nothing on the stack but what was pushed for calls; changes a variable only by assignment |
| Runtime heap | reservations are disjoint and inside the block; lines in use are marked; integers keep their value; a request is refused only when the block has no place for it |
| Lexer | tokens are what their characters spell, longest first, in order; no character is lost without an error but the known ones; the pointer stays in the text |
| Parser | a line of the grammar gives its tree, any other one of few answers; tokens are read inside the line; every node has one owner |
| Loop | a line's answer depends on that line only; the statements are those of the accepted lines, in order; the asm file changes only after `exit`; every session with `exit` ends |

`PROJECT.json` lists the hazards line by line with the property that covers
each, or the reason why none does.

## 2. Modules

| Module | What it models |
|---|---|
| `Ast` | `Node` and what the parser guarantees of a tree (`WellFormed`, `IsProgram`, and for the order of the nodes `InTextOrder`). A program is a sequence of nodes, operands before operators, and the roots of its statements; 0 is `nullptr`. |
| `TypeChecker` | `TypeChecker::check_type`. The recursion is the stack `visits`; every `case` of the switch is an action (`CheckNum`, `CheckAccess`, `ReturnBinop`, ...). |
| `Emission` | The instructions of `x86ASM.h` and, as operators without state, the blocks that the `eval_*` functions write once their operands are compiled. |
| `Compiler` | `Compiler::compile`: checker pass, prologue, walk, epilogue. The recursion of `eval_expr` is the stack `todo`, with what the caller still has to do after each operand. EXTENDS `TypeChecker` and `Emission`. |
| `Values` | 32-bit words, reduced to `WordRange` values; floats as exact fractions. |
| `Machine` | The compiled program at work: one action per group of instructions, the C functions as single steps. EXTENDS `Compiler`: a behaviour compiles a program and then runs it. |
| `Interpreter` | The abstract specification: the values of the statements are printed in order, then the process ends; or it ends at once, without memory for its heap. |
| `Reference` | The meaning of a program, by big-step evaluation of the tree. |
| `Chlib` | The bump allocator of `chlib.c` over the bytes of its block. |
| `IntHeap` | The abstract specification of `heap_alloc_int`. |
| `Holes` | `find_next_hole`, one action per iteration. |
| `Compilation` | The abstract specification of `Compiler::compile`: it ends, and the program decides how. |
| `Lexer` | `parse_tokens` over the characters of a line, one action per iteration with the `make_*` function it calls. |
| `Parser` | The recursive descent over the tokens of a line; the recursion is the stack `calls`. |
| `Grammar` | The abstract specification of the parser: the grammar of its levels, and what may become of a line that is not in it. |
| `ErrorMessage` | `FileManager` and the arithmetic of `generate_message`, as operators. |
| `Repl` | `main`: composes `Lexer` (EXTENDS) and `Parser` (an instance over its own tokens), `ErrorMessage`, and `compile` by `Compilation`, the contract that the run *compiler* shows the compiler to keep; and `delete_nodes`. |
| `Walk` | What a walk over a tree does to the names and counts, as one function of the tree, and `PassesInv`, the invariant of the two passes stated with it (`EffectInv`), together with the order in which the second one works (`OrderInv`). |
| `StackTypes` | The typing of the emitted code: what is known at a place of it (`Points`), which instruction leads from which point to which (`Runs`), and the invariants that the code written so far is typed (`TypedTodo`) and the processor at the point of its next instruction (`TypedRun`). EXTENDS `Machine` and `Walk`. |
| `Compiler_proofs`, `Machine_proofs`, `Chlib_proofs`, `Holes_proofs`, `Lexer_proofs`, `Parser_proofs`, `Repl_proofs` | Theorems and proofs. |
| `Induction` | Induction and recursion over the natural numbers, stated with sets and functions in the place of operators, proved from the library's well-founded minimum. |
| `ProgramSets`, `MCCompiler`, `MCMachine`, `MCChlib`, `MCHoles`, `MCLexer`, `MCParser`, `MCRepl` | Programs and constants for TLC. |

Definitions have the names of the code where it has one: `m_VarTable`,
`m_BPOffset`, `get_alloc_size`, `bump_reserve_size`, `alloc_heap`; tokens,
instructions and registers are strings spelled as in the enumerations.
`PROJECT.json` maps each definition to its lines. Operators commented as a
*faulty variant* are not used by any specification; they are plausible bugs
with which the strength of the properties is measured.

How state and actions correspond, where it is not one to one:

* `status` is where `compile` is: `checking`, `emitting`, `compiled`, or how
  the process died: `out_of_range` (`Scope.at` throws at
  `TypeChecker.cpp:91`), `assert` (`Compiler.cpp:752`), `segfault` (a null
  statement, `Compiler.cpp:834`).
* `EvalOperands` replaces the innermost activation by the activations of its
  operands and its own end; `TestLeft` and `FinishLogic` are the two halves of
  `eval_AND_binop` and `eval_OR_binop`, between which the right operand is
  compiled and `m_CurrentSubLabel` may move.
* The two passes use different containers the same way: `emplace` into
  `Scope` and `insert` into `m_VarTable` keep an entry that is there. A second
  assignment to a name therefore takes a new slot that no access ever reads.
* `Machine` gives AL and CL registers of their own: they are only read by the
  MOVZX behind the SETcc that wrote them. Whatever a called C function may
  change (caller-saved registers, flags, its arguments, everything below ESP)
  becomes unknown.
* `FinishArith` and `FinishCmp` are `eval_arith_binop` and `eval_CMP_binop` after
  the calls for the two operands; `eval_binop` only chooses between them
  (`FinishBinop`) and the two functions of `&&` and `||`.
* In `Machine`, `CallAllocHeap` is `alloc_heap` when it returns, `AllocHeapExits` the
  `exit(-1)` of `alloc_bump_block`, after which `cpu` is `failed`. It returns a
  pointer or NULL; the compiled program stores it in `heap_ptr` and never looks
  at it, so that both are one action. What is in the block is `Chlib`.
* In `Lexer` the record `at` holds `m_CharPtr` (as an offset, or null), `m_Index`
  and `m_Column`; `After(k)` is where k calls of `advance` lead. `scanning` is
  how `parse_tokens` ended: `done`, or `out_of_range` thrown by `stoi` or `stof`.
* In `Parser` an activation without a node waits for its first operand; the
  chain of calls from a level down to `factor` is one step, since nothing else
  happens in it. `parsing` is `ok`, `error`, `exit` (the `exit(-1)` of
  `wrap_callable`) or `segfault` (more than `StackDepth` activations).
* In `Repl`, `phase` is where `main` is or how the process ended. `getline` is
  modelled with the `eofbit` of `cin`: at the end of the input it leaves the
  buffer alone, so that a last line without a newline is read again and again.
  `asm` is the asm file: `old`, `empty` once `compile` has opened it, `code`
  after `close`. (The destructor of the compiler calls `close` once more, on an
  empty `m_Code` and a closed stream.) `replies` is a history variable.
* In `Chlib` an object is a record of where it starts and how long it is; the
  line marks, the block mark, the cursor and the bytes written are as in the
  code. The mark that an empty reservation at the end of the block writes
  behind `line_mark` falls on `block_mark` and changes nothing.

## 3. Runs

`tlc -config <cfg> <module>`; all of them end within a minute or so.

| Run | Module, cfg | What is checked |
|---|---|---|
| compiler | `MCCompiler`, `MCCompiler.cfg` | `CompilerTypeOK`, `LabelsUnique`, `JumpsResolve`, `JumpsForward`, `LabelInv`, `SlotsInFrame`, `BoundWhereUsed`, `PassesInv`, `CompilerImplements` |
| meaning | `MCMachine`, `MCMachine.cfg` | `MachineImplements` |
| stack | `MCMachine`, `MCMachineStack.cfg` | `StackBalanced`, `PrintedAsTyped`, `FrameIntact` |
| heap | `MCChlib`, `MCChlib.cfg` | `ChlibTypeOK`, `ObjectsDisjoint`, `RefusedOnlyWhenFull`, `LinesMarked`, `TypesKept`, `HeapImplements` |
| lexer | `MCLexer`, `MCLexer.cfg` | `LexerTypeOK`, `CursorInText`, `TokensSpelled`, `NothingElseLost`, `ErrorsPlaced`, `ScanEnds` |
| parser | `MCParser`, `MCParser.cfg` | `ParserTypeOK`, `TokensInLine`, `HeldOnce`, `ParserImplements` |
| session | `MCRepl`, `MCRepl.cfg` | `ReplTypeOK`, `PartsKeep`, `LinesIndependent`, `MessagesInLine`, `ProgramBuilt`, `ProgramOrdered`, `AsmWritten`, `NodesFreedOnce`, `SessionEnds` |
| holes | `MCHoles`, `MCHoles.cfg` | `HoleFree`, `NoneMissed` |
| parens | `MCParser`, `MCParens.cfg` | `ParensClosed`, which is violated |
| end_of_line | `MCParser`, `MCEndOfLine.cfg` | `EndOfLineRefused`, which is violated |
| minus | `MCCompiler`, `MCMinus.cfg` | `MinusAssertion`, which is violated |
| arguments | `MCMachine`, `MCArguments.cfg` | `ArgumentsRemoved`, which is violated |

**compiler.** Every expression of depth two over two literals, an assignment,
`-`, `<`, `&&`, `||`, `!` and unary minus, and every sequence of three lines
out of eleven (empty lines, reassignments with another type, nested
assignments, assignments in skipped operands, names never assigned). One
operator of each kind is enough: the kinds differ in labels, slots and
recursion, operators of one kind only in the instruction they write. Depth two
is the smallest at which a logic operator is the left or right operand of
another, and three lines the fewest in which a name is bound, bound again with
another type, and read. No step of the two passes depends on the value of a
literal.
`CompilerImplements` is the specification of `Compilation`, which decides how
`compile` ends by looking at the program alone: a name that nothing before has
bound (also in an operand that would be skipped), then a minus or an empty
line, whichever the second walk meets first. It is a refinement with liveness:
`compile` ends. The sequences of three lines hold all of these in every order.

**meaning.** `MachineImplements` is `Promised!Spec`, the specification of
`Interpreter`, with the values that `Reference` computes: the compiled program
prints exactly these and then exits, or prints nothing and fails, if there is no
memory for the heap. It is a refinement with liveness: `Interpreter` demands
every value and the exit, unless it fails before the first value. Programs: all expressions of
one operator over five operands (both kinds of literal, zero, and 5, whose
products and sums leave the word), expressions of two operators, pairs and
triples of lines, and one program with seven float comparisons. `Meaningful`
leaves out the programs that the code is known not to compile rightly:

* a `&&` or `||` inside the right operand of another. The jump of the left
  operand takes the sub label of the inner operator; `1 || (0 && 0)` gives 0,
  and `0 && (1 + (x && y))` jumps over a push. Such operands need parentheses
  in the source, since the grammar puts both operators on one level and groups
  to the left;
* integer quotients with a negative operand (DIV is unsigned) or with divisor
  zero (the program dies of SIGFPE), and float quotients by zero;
* unary minus, which no program survives (finding 1);
* reads of a variable whose only assignment was skipped;
* more than seven float comparisons: FCOMIP pops one of the two registers that
  a comparison loads, and from the eighth on the second load overflows the x87
  stack and leaves a NaN.

**stack.** The same programs without the restriction to a meaning, except for
the nested `&&` and `||` (`Unnested`, which is also the hypothesis of the
theorems about these properties): also those that divide by zero, compare unknown
words or read slots never written. `StackBalanced` compares ESP at every
output with what the statements so far have pushed for their calls;
`FrameIntact` is an action property; `PrintedAsTyped` relates the types of the
checker to the words the processor has computed.

**heap.** A block of 32 bytes in lines of 8, an object of 8 bytes, requests of
some other sizes (zero, less than a line, a line, and more), until nothing
fits: the block is full within a few steps, so every reservation at the end
of the block occurs, and a word of 256 values is, as in the code, larger than
the block and any request together. `RefusedOnlyWhenFull` compares the test of the
cursor with a search of the whole block: when a request is refused, every
stretch of that many bytes has a byte of an object. `heap_alloc_int` may also meet the NULL of
an `alloc_heap` without memory.

**lexer.** Every text of up to four characters out of twelve (a blank, a
carriage return, two digits, the dot, a letter, `=`, `<`, `&`, `+`, a character
that begins nothing, and NUL), and of up to five out of the six that interact. The longest token
that needs a decision is two characters, plus the one that is lost behind it and
the one that begins the next token: every pair of neighbours occurs, at the
beginning, in the middle and at the end of a text. `NothingElseLost` says
exactly which characters vanish: the one behind `=`, `==`, `<`, `<=`, `>` and
`>=`, since the loop advances once more than it should, so `a=1` has no number
and `a = 1` loses only a blank.

**parser.** Every line of up to four tokens out of nine, of five out of seven,
and chains with three operators out of five with `!`, parentheses and a nested
assignment. `ParserImplements` is `Grammar!Spec`: a line that the grammar
derives gets the tree of that derivation; any other line gets the tree of its
longest beginning, an error, or, only if a `(` stands where a call would or at
the end of the line, the end of the process. That the last token is seen again
and again is part of that specification (`Repeated`).

**session.** All pairs of sixteen lines, alone, followed by `exit` or by the
first of them again, and three out of five lines followed by `exit`; each with
and without a last newline. The lines hold the empty and the blank one,
`exit`, numbers of both kinds, a name bound and unbound, an assignment, a minus,
lexer errors with and without tokens besides, three parse errors, a `(` at the
end, a call, and a number that `stoi` rejects. What a line leaves behind shows in
the next one or when the first is typed again; `LinesIndependent` compares the
two answers. `ReplSpec` replaces `compile` by its contract, whose input is
`Program(nodes)`; that this is a program in the sense of `Ast`, and that
its nodes are in the order of the text, is `ProgramOrdered`.

**holes.** Blocks of four lines, with every marking, searched from every line,
with any bytes behind the block. The search is never called, since
the limit is the end of the block from the start (a part of `HeapInv`, which is
proved); the run says what it would give: the marked line that
ends a hole lies in it, and a search that does not begin at line 0 may return a
hole that reaches over the end of the block.

Bounds, by name: `INT_MAX` and `FLT_MAX` (911 and 100 for the lexer, 20 in
sessions, so that a number of two or three digits may or may not fit),
`StackDepth` (60 activations for the parser, 12 in sessions: more than any line
without a `(` at its end needs), `MemoryLimit` (14 nodes and pointers, more than the
lines of a session before `exit` take; only the loop at the end of the input
reaches it), `MCLiterals` (0..5), `MCNames` (two names), `WordRange` (16
values for a word; products of the literals wrap around), `StackTops` (ESP at
the call of main, once a multiple of 8 and once not, since the prologue aligns
the stack before it saves EBP), `X87Registers` (8, as in the processor),
`X87Limit` (7 comparisons), and the sizes of `MCChlib`. The counters of the
model grow only with the program.

**Deadlock** is checked in the runs of the compiler and of the machine: a
process that has ended stutters explicitly (`Stopped`, `Finished`), any other
state without a step is an error. `MCChlib.cfg` switches it off because a
program may stop after any call of the library.

**Fairness.** `MachineSpec`, `FairCompilerSpec`, `LexerSpec`, `ParserSpec` and
`ReplSpec` have weak fairness of their whole next-state relation. Every program
here is a single thread that waits for nobody but its input, which is a given
sequence of lines; all that is assumed is that a process that can take its next
step does. `Interpreter` and `Compilation` have the same fairness; `Grammar`
says directly that every line is answered.

### Findings

1. *minus* (code bug). `eval_SUB_unryop` handles INT and FLOAT, has no return
   or else after them, and falls into
   `ASSERT(false, "unryop SUB not defined for this type")`
   (`Compiler.cpp:752`). Every unary minus ends the compiler, also of the types
   that it has just compiled.
2. *arguments* (the notes and the code differ). `asm_notes.md:141` says of
   calling C functions "you also should remove the arguments after calling the
   function"; `print_value` (`Compiler.cpp:340-356`) never does. The stack of
   the compiled program grows with every statement until main returns;
   `StackBalanced` says by how much.

3. *parens* (code bug). `((1)` is accepted. `advance` leaves `m_CurrentToken` on
   the last token, so that one `)` at the end closes every `(` that is open
   (`Parser.cpp:122`), although `atom` refuses a `(` without its `)` with
   "Parser: expected ')' found: " (`Parser.cpp:167`).
4. *end_of_line* (code bug). `(` or `1+(` is never refused: `expression` meets
   the same `(` again and calls itself until the stack overflows. Behind `-`
   and `!` the end of the line is looked for and refused with "Parser: Expected
   Expression found EOF" (`Parser.cpp:192`).

## 4. Proofs

`tlapm <module>` checks them from nothing; no fact is assumed but the ASSUMEs
on the constants.

**The passes** (`Compiler_proofs`), for every set of
programs, names and literals that satisfy the assumptions of `Ast`
(`LiteralsAssumption`, and `ProgramsAssumption`: programs are trees the parser can build):

* `CompilerTypeCorrect`: `CompilerSpec => []CompilerTypeOK`. Every block an
  `eval_*` function writes is a sequence of instructions of `x86ASM.h`.
* `LabelInvCorrect`: `CompilerSpec => []LabelInv`, with `LabelsUniqueCorrect`,
  `JumpsForwardCorrect` and `JumpsResolveCorrect` as consequences.

None of the three label properties is inductive. That the labels stay unique
needs that all of them are below `m_CurrentSubLabel`; that a jump finds a label
needs that one that does not yet have a label goes to `m_CurrentSubLabel`
itself, and that a `&&` or `||` on the stack of activations is still to be
finished. `LabelInv` says this: `Consistent` (of the code), `TestsPaired` (a
pending test lies two activations above the end of its operator), and that a
waiting jump implies a pending end. The step splits into blocks without labels
and jumps (`AppendPlain`), the test after a left operand (`AppendJumps`) and
the end of an operator (`AppendLogic`), which defines all labels up to the new
`m_CurrentSubLabel`. It is also why the wrong jump of nested operators always
has *some* label to go to, and why the assembler never notices.

**The passes agree** (`Compiler_proofs`, over `Walk` and `Induction`), under the
same assumptions and `OrderAssumption`, that the nodes of a program are numbered
in the order of the text (`ProgramOrderedCorrect` proves it of everything that
`main` collects, see below):

* `PassesInvCorrect`: `CompilerSpec => []PassesInv`, and from it
  `UnboundFoundCorrect`, `SlotsInFrameCorrect`, `BoundWhereUsedCorrect`;
* `ContractCorrect`: the safety part of `CompilerImplements`, initial states and
  steps. Whenever `compile` ends, it ends as `Compilation` computes from the
  program. It is what `Repl` puts in the place of the compiler.

The checker sizes the frame and types the reads, the code generator takes the
slots and finds the names; each of the two has a table of its own and walks the
tree by itself. What a walk does to names and counts is a function of the tree:
how many assignments it finishes, which one binds each name first, and which
names it reads before. `EffectInv` says of either pass that what it has done,
followed by what its stack still owes, is the effect of the whole program. A
step replaces the innermost activation by those of its operands, or does what
the activation owed, so it moves a part of the effect from one side to the
other; `Then` is associative, and the second walk over the operand of a minus
adds nothing but slots. At the end of the first pass nothing is owed: the counts
are at least the assignments of the program and no name is read too early,
which is where the second pass begins. The effect of a tree is defined
by recursion over the numbers of the nodes. `Induction` has the facts this
takes: the library's induction theorems have an operator for the statement, so
there it is the set of numbers of which the statement is true, and the step from
all smaller numbers to the next is the library's well-founded minimum.

`Compilation` speaks of numbers of nodes where the passes have stacks. A tree is
the nodes from its first one on (`FirstNode`), and the trees of the statements
follow each other, so the effect of a walk can be read off the numbers
(`SpanOfTree`, `SpanOfProgram`): a name is read too early if and only if some
node is `Unbound` (`ReadsUnbound`), which decides the first pass. In the second
pass `OrderInv` says that no minus and no null statement has been passed, that
nothing of a later statement is done before a null statement is printed, and
nothing of an earlier one afterwards. So the end of a minus is before every null
statement (`assert`), a null statement is printed before every minus
(`segfault`), and at the end of the walk there was neither (`compiled`).

**The compiled program** (`Machine_proofs`, over `StackTypes`), for every set of
programs, names and literals under the same assumptions, every set of addresses
of the stack (`StackTopsAssumption`) and every `WordRange` (`WordRangeAssumption`), with
the hypothesis `Unnested(prog)`: no `&&` or `||` stands in the right operand of
another:

* `MachineCompilesFirst`: `MachineSpec => CompilerSpec`, so that what is proved
  of the compiler holds of the code that runs;
* `StackBalancedCorrect`, `PrintedAsTypedCorrect`, `FrameIntactCorrect`.

None of the three can be followed from one step of the processor to the next,
since the code of a program is not known: only how it was written. The argument
is a typing of the code. A point says of a place in it how many words lie
between the frame and ESP, how many statements have been printed, and which
words, EAX among them, are integers or floats. `Runs` says to which point an
instruction leads; a jump must fit the point of its label as well as the one
behind it. Nothing in it mentions how the code came about.

`TypedTodo` is the invariant of the code generator: what has been written is
typed, and ends at a point where the innermost activation finds what it
needs; `After` says where an activation will lead to, and with that the points of all
activations follow. An expression pushes one word of its type, a statement
leaves what its call was given. Each block of `Emission` is typed once, by a
lemma of its own, and the step of an activation joins it to the code. A jump of
`&&` or `||` is written before its label: `Waits` says that the label will be
written by the operator whose right operand is being compiled, at the point at
the end of it, so that both ways around the operand meet with the same
stack. This is where `Unnested` is needed and where the code is wrong without
it: the jump of an outer operator goes to the label of the inner one, where
there may be a word more or less.

`TypedRun` is the invariant of the processor: ESP, the words on the stack, the
variables and the registers are as the point of the next instruction says
(`AtPoint`), whichever way the jumps went. It needs the compiler's theorems:
`JumpsResolve` for the target of a jump, `PassesInv` for the variables
(an offset lies in the frame that the prologue has made, and the word there has
the type of the node). Then `StackBalanced` is the typing of CALL;
`PrintedAsTyped` holds since CALL finds an argument of the type of the
statement; and `FrameIntact` since what is written to the stack, by PUSH, CALL or
the moves at DWORD [ESP+n], is at least one word below the frame, so that only
the MOV of an assignment reaches a variable.

Both invariants say that a typing exists, as functions on the natural
numbers, which TLC cannot enumerate. It checks what follows from them, in the run
*stack* and on the same programs; the invariants themselves are shown by the
proof only.

**The parser** (`Parser_proofs`), for every set of lines under
`LinesAssumption` (a line is a sequence of tokens as the lexer writes them) and
every `StackDepth`:

* `ParserTypeCorrect`, `TokensInLineCorrect`, `HeldOnceCorrect` and
  `TreesAdjoinCorrect`, all from `ParserInvCorrect`.

`ParserInv` says which tokens an activation may already have passed, that its
nodes are smaller than those of the activations above it, and that every node
but the one that is being handed over has exactly one holder. All steps
that make or hand over a node are instances of one lemma about the set of
holders.

`TreesAdjoin` says where the trees lie that are held at one moment: the one that
is returned ends with the last node, each of the others, from the innermost
activation outwards, ends where the one before it begins, and the outermost
begins with the first node. So whoever makes a node of the two innermost trees
has the right one directly before it and the left one directly before that
(`TakenUpOrdered`), and the new tree lies where both were (`HandOverAdjoins`).
At the end one tree is left, all nodes are its own, and they are in the order
of the text.

**The lexer** (`Lexer_proofs`), for every set of texts (`TextsAssumption`: they
are sequences of characters):

* `LexerTypeCorrect`, `CursorInTextCorrect`, `TokensSpelledCorrect`,
  `NothingElseLostCorrect`, `ErrorsPlacedCorrect`, all from `LexerInvCorrect`.

`m_CharPtr`, `m_Index` and `m_Column` are kept by the code side by side; the proof
shows that the column alone determines the other two, also behind the end of the
text, where the pointer becomes null and the index stays. With that `After(k)`,
k calls of `advance`, has a closed form, and each `make_*` function is a lemma:
which token it appends, that the token is the longest, and which characters it
passes. `LexerInv` then says that the characters passed so far are those of the
tokens, the blanks, the ones behind a relation, and the one with the error.

**The session** (`Repl_proofs`), for every set of sessions under
`SessionsAssumption` (a session is a sequence of lines, the last of which need
not end with a newline) and `SpellingAssumption` (its words and numbers are among
`Names` and `Literals`), every `StackDepth` and every `MemoryLimit`
(`SizesAssumption`), with the assumptions of `Ast` and `Lexer`:

* `ReplTypeCorrect`, `PartsKeepCorrect`, `MessagesInLineCorrect`,
  `AsmWrittenCorrect`, `NodesFreedOnceCorrect`, `ProgramOrderedCorrect`, and
  `SoundCorrect` (the statements
  always make a program), all from `ReplInvCorrect`.

Lexer, parser and file manager live as long as the loop, so their own invariants
have to hold for a line whatever the lines before have left in them. `ReplInv`
has eight parts: what was read (`InputInv`), where `main` is and what has
become of the asm file (`PhaseInv`), the lexer's invariant, from `load_text` until
`clear` (`ScannerInv`), the parser's, at all times (`ParserPart`), the messages,
the statements (`NodesInv`), a null statement for each blank line
(`BlankLineInv`), and `delete_nodes` (`DeleteInv`). The lemmas about the steps of
the lexer and of the parser are those of their own proofs: `Repl_proofs` extends
the first and instantiates the second.

`AddLineSound` says that the tree of one more line, its nodes behind those of the
lines before, leaves every node with one owner, an operand's parent or the list
of the root. `delete_nodes` needs this: what is on its stack and what it has
deleted never overlap because no node is an operand of two, and nothing is
missed because every node that is no root has a parent, which was there first
(`DeletionStep`, `DeletionEnds`). `AddLineNumbered` says the same of the order: the
tree of one more line begins where those before end. `ProgramOrderedCorrect`
follows, since first nodes that obey the rule of `FirstNode` are those that
`FirstNode` finds (`FirstNodeIs`, by the induction of `Induction`).
`AsmWritten` for blank lines goes through the lexer (a blank text has no
tokens) and the parser (a line without tokens is `nullptr`) to `Compilation`, whose outcome for a null statement is not `compiled`.

**The search for a hole** (`Holes_proofs`), for every size of the block and
every marking (`SizesAssumption`): `HolesTypeCorrect` (of the type invariant
`HolesTypeOK`, which is proved and not part of a run), `HoleFreeCorrect` and
`NoneMissedCorrect`, from an invariant that says of the lines behind the cursor
which of them were free.

**The heap** (`Chlib_proofs`), for every block size, line size, object size
and set of requests under `ChlibAssumption` (whole lines; a request and the
block together are less than 2^32, which the only caller of
`bump_reserve_size` respects):

* `ChlibTypeCorrect`, `ObjectsDisjointCorrect`, `RefusedOnlyWhenFullCorrect`,
  `TypesKeptCorrect`, `LinesMarkedCorrect`;
* `HeapImplementsCorrect`: `ChlibSpec => HeapImplements`, the refinement of
  `IntHeap`: initial states map to initial states, `heap_alloc_int` to `Alloc`
  or, when it fails, to a stutter, everything else to a stutter.

The inductive invariant is `HeapInv`: all objects end at or below the cursor,
the limit is the end of the block once the heap is ready, and every integer is
one of the objects with its type and value in place. Disjointness alone says
nothing about the next reservation; the cursor does. `LinesMarked` needs in
addition that the cursor is at the start of a line as long as only whole lines
were reserved, and `RefusedOnlyWhenFull` that the objects cover every byte below
the cursor (`Packed`).

**Model-checked only.** The refinements `MachineImplements` and
`ParserImplements`, the end of `compile` in `CompilerImplements`, and `ScanEnds`
and `SessionEnds` are or contain liveness under fairness, which is out of the
reach of the prover used here. What the recursive functions of `Reference` and `Grammar` compute for
every input is induction over data that they, unlike the effect of a walk, have
no lemmas for. `LinesIndependent` says that the answer is a function of the line,
which no invariant of the steps says without that function. `ProgramBuilt`
has no proof: `Answered` is a `SelectSeq`,
whose facts in the library take an operator as a parameter, and that a line is
answered the same way again is `LinesIndependent`. What a compiled program
prints, beyond its types, is `MachineImplements`: it needs `Reference`, whose
definition is recursive. The stack of programs with a `&&` or `||` in the right
operand of another is not in balance, and no theorem is about it. The four runs
that end in a violation are counterexamples of TLC.

## 5. What is abstracted, and what is not modelled

* Floats are exact fractions. Rounding, infinities and the NaN of 0.0/0.0 are
  not modelled (a quotient by zero is an unknown word), and no property is
  about a result that rounding would change.
* Words have 16 values, in the model and in the reference alike. The constant
  2^31 of a float's negation is an operand of the code, but never executed,
  since the compiler does not survive a unary minus; so NEG and MOVD have no
  action.
* The text of the asm file (`to_string`, `close`, the data and bss sections) is
  not modelled: an instruction is a record, a format string a symbol.
* What `chlib` prints of itself (HEAP_DEBUG is on, so `alloc_heap` writes the
  line marks to standard output) is left out of `printed`.
* The buffer of `printf` is not modelled. The program ends by `int 0x80`, which
  does not flush it; `printed` is what was handed to the C library.
* In `Chlib` only the effect of the call of `find_next_hole` is modelled, as it
  is made: with integers where it takes pointers, so that finding a hole ends
  the process. The call is never reached: `limit < BLOCK_SIZE` is against
  `HeapInv`.
  The wrap-around of `cursor + alloc_size` at 2^32 lies outside
  `ChlibAssumption`.
* `alloc_heap_block` and the two free functions of `chlib.c`, and `peek` and
  `pop` of the lexer, are called by nobody and left out.
* `Spaces` are the four characters of `is_space`. A newline among them is in no
  line, since `getline` removes it; a carriage return it leaves.
* `Lexer` knows only the letters that the models use. `m_Line` stays 0 and
  messages show one line, since `getline` removes the newlines. `stof` also
  throws for a number too small for a float; only too large ones are modelled.
* Sessions have no float literals with digits behind the dot, since the trees
  of `Ast` carry integers; the lexer run has them.
* The wording of messages and of the tokens and trees that `main` prints is left
  out; where a message is shown and which columns it underlines is modelled.
  (The message for a missing `)` names the type of the `(` as what was found,
  `Parser.cpp:167`; no property is about it.)
* After a parse error the nodes built so far are never freed; `memory` counts
  them, no property is about them.
* `operator new` fails only at `MemoryLimit`, between two lines.

## 6. Plan

Done, in this order: `Ast`, `TypeChecker`, `Emission`, `Compiler` with its
proofs, `Machine` with `Interpreter` and `Reference`, `Chlib` with `IntHeap`
and its proofs; then `Compilation`, `Parser` with `Grammar`, `Lexer`, `Repl` with
`ErrorMessage`, and `Holes`.

The proofs of the passes, the parser, the lexer, the heap, the search for a
hole and the session came next, and then the typing of the compiled program.

Left:

1. That a line is answered the same way whatever came before it
   (`LinesIndependent`), and with it `ProgramBuilt`, as theorems.
2. The text of the asm file (`to_string`, `close`): the order of its sections,
   and which number the assembler reads for a literal.
