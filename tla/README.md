# Bude: a TLA+ model of the compiler, its back ends and its data structures

Bude (`src/src/`) is a stack language in one C program. A text is compiled in a
single pass to typed byte code (*T-code*), the T-code of each function is type
checked in a second pass that translates it to untyped byte code (*W-code*), and
the W-code is interpreted, turned into x86-64 assembly, or written to a file.

This directory holds TLA+ modules that model that pipeline, the TLC
configurations that check them, and proofs about them. `PROJECT.json` lists the
runs, the mutants that show each property can fail, the source lines each
definition stands for, the hazards of the code and the theorems.

- [The system](#the-system): its parts, their state, and what makes them correct
- [The modules](#the-modules): which models what
- [What the runs check](#what-the-runs-check), with bounds and fairness
- [What is proved](#what-is-proved)
- [Where the code differs from what it says](#where-the-code-differs-from-what-it-says)
- [What is not modelled](#what-is-not-modelled), and [the plan](#the-plan)

## The system

One thread, no shared memory with anyone, no messages; a phase starts when the
one before it has finished, and works on the `struct module` it left. What is
hard about this program is not interleaving. It is that everything is
represented more than once. Values are types in the checker, words in the
interpreter, and registers and words in the generated code. Control flow is there four times, as open C calls in the compiler, as jumps and a jump
table in the T-code, as saved type stacks and pending patches in the checker and
as three side stacks in the interpreter, and that each is derived from the one
before by bookkeeping spread over hundreds of lines, in 16-bit operands.

| Component | Source | State it keeps | Operations | Correct when |
|---|---|---|---|---|
| Compiler | `compiler.c` | the C call stack of `compile_*`; `func_index`, `for_loop_level`; the symbol dictionary; the function table | one per construct, literal, symbol | levels and current function match the open constructs; every placeholder is patched once, with the right offset, in the right function; the jump table is exact |
| Intermediate representation | `ir.c`, `ir.h` | a growing byte array, a sorted jump table, source locations | emit, overwrite, `add_jump`, `is_jump_dest`, `recompute_jump_dests` | operands read back what was written; instruction lengths agree with what is emitted |
| Function table | `function.c` | functions with signature, locals, two code blocks | `add_function`, `get_function`, `add_local` | indices stay valid as the table grows |
| Symbol dictionary | `symbol.c` | one open-addressing hash table for all names | `insert_symbol`, `lookup_symbol` | the last insertion of a name is found; a full table is noticed |
| Type checker | `type_checker.c` | type stack, state per jump destination, list of W-code jumps to patch per destination, both blocks | one per instruction; save, compare and load a state; patch; skip unreachable code | paths meet with equal stacks; each forward jump is patched exactly once; the pass ends; no assertion fails; the W-code has the T-code's control flow |
| Types | `type.c` | table of packs, comps, arrays | `new_type`, `init_type`, `lookup_type` | sizes and word counts agree with the layout |
| Interpreter | `interpreter.c` | `ip`, `current_function`, `for_loop_level`, `locals`; main, auxiliary, loop and call stack | one per instruction; `call`, `ret`, `jump` | activations do not disturb each other; accepted programs do not underflow; loops end; returns leave what the signature says |
| Stacks | `stack.c` | a fixed array and a top | push, pop, and their n-ary forms, peek, `reserve`, `restore` | every access is inside the array |
| Region allocator | `region.c` | a chain of arenas | allocate, clear, copy, record and restore | allocations are aligned, disjoint, inside their arena and zero |
| Dynamic arrays | `memory.h` | items, count, capacity | append, grow | capacity bounds what was allocated |
| Code generator | `generator.c`, `asm.c` | text; a frame layout per function | one template per instruction | frame slots of saved registers, locals and loop counters are disjoint |
| Bytecode files | `writer.c`, `reader.c`, `bwf.c` | the file; five versions of the format | write a module, read a module | reading what was written gives the module back |
| Lexer | `lexer.c`, `unicode.c` | position in the text, nesting of interpolations | next token | every byte belongs to one token; it ends |
| String builder | `string_builder.c` | a list of fragments | append, build, join | the built string is the fragments in order, inside its buffer |
| Driver | `main.c` | options | the pipeline | no phase runs after a failed one |
| Others | `disassembler.c`, `location.c`, `optimiser.c`, `module.c`, `ext_function.c` | | printing; containers; code that is never called | |

How they interact: the compiler calls the function table, the dictionary and the
IR writers; the checker reads the T-block and its jump table and writes the
W-block and its jump table; the interpreter reads the W-blocks, the signatures
and the local tables. Nothing calls back.

The behaviours that are hard, and therefore modelled first:

- *Nesting.* `compile_conditional` recurses for every `elif` and patches on its way
  back. A function definition may occur anywhere, so the current function changes
  while enclosing constructs still hold offsets of the outer block.
  `for_loop_level` is one counter for all of them.
- *Forward references.* Both passes emit jumps whose distance is not known yet. The
  second pass moves every instruction and skips code that it finds unreachable,
  in which a destination may lie.
- *Joins.* One stack of types is saved per destination and stands for all paths
  that lead there; a missed comparison is a missed type error.
- *Activations.* A call saves one thing on each of three stacks; a return from
  inside loops has to take away a number of loop slots that only a counter knows.
- *Limits.* Offsets are 16 bits wide, literals one byte, stacks fixed arrays.
- *Words without types.* A word on the stack does not say what it is. That a `u8`
  has no high bits, that a signed operand is extended before it is compared, that
  a float is not added to an integer rests on the instructions the checker
  emits around each operation, chosen from two tables by the types of the operands.
- *Termination.* The checker moves `ip` by hand; loop counters wrap.

- *Two back ends.* The interpreter and the generated assembly do the same work
  from the same W-code, in two hundred separate pieces each.
- *Files.* A bytecode file is written entry by entry and read back by code that
  checks some of it; a write may come back short, and closing may lose the rest.
- *Memory.* Arenas are given back by setting a counter, arrays grow by macros,
  one table serves all names; all rely on memory being zero.

There are no messages to lose and no timeouts, and nothing but the bytecode file
outlives the process; no hazard of those kinds is listed.

## The modules

| Module | Models | Depends on |
|---|---|---|
| `Ir` | opcodes of the modelled subset with their real numbers, instruction lengths, 16-bit operands, jump destinations (`ir.c`, `ir.h`) | |
| `Compiler` | `compiler.c`, with the parts of `function.c` and `symbol.c` it uses | `Ir` |
| `TypeChecker` | `type_checker.c` | `Ir` |
| `Interpreter` | `interpreter.c` on `stack.c` | `Ir` |
| `Activations` | nothing in the code: what a call promises, stated without stacks | |
| `Bude` | `main.c`: the three phases composed | `Compiler`, `TypeChecker`, `Interpreter` by `INSTANCE` |
| `MCCompiler`, `MCBude` | values of the constants for TLC | |
| `MCPrograms` | short programs with functions, and eight longer ones, run through `Bude` | `MCBude` |
| `WordOps` | the straight-line instructions of `interpreter.c` on the main stack | |
| `TypedOps` | the checker's translation of each straight-line instruction (`type_checker.c`, `type.c`) | `WordOps` |
| `Arithmetic` | both side by side: a type stack and a word stack | `TypedOps` |
| `MCArithmetic` | widths, encodings and outcomes for TLC | `Arithmetic` |
| `Processor` | external: the x86-64 instructions the generator writes, on registers, stack memory and flags, and the call of `printf` | `WordOps` |
| `Codegen` | the generator's templates for straight-line W-code (`generator.c`) | `Processor` |
| `NativeArithmetic` | `Arithmetic` with the generated code beside it | `Arithmetic`, `Codegen` |
| `TypeTable` | a table of packs, comps and arrays, with sizes and word counts (`type.c`, `compiler.c`) | |
| `Compounds` | packs, comps and arrays in checker, interpreter and generator | `TypeTable`, `Codegen` |
| `Values` | nothing in the code: what the instructions promise to do to values with parts | `TypeTable` |
| `MCCompounds` | a table of eight types | `Compounds` |
| `Region` | the arenas of `region.c` | |
| `SymbolDict` | the hash table of `symbol.c` | `SymbolMap` by `INSTANCE` |
| `SymbolMap` | nothing in the code: a map from names to meanings that may be full | |
| `JumpTable` | the sorted array of jump destinations in `ir.c`, on the dynamic arrays of `memory.h` | |
| `Bytecode` | `writer.c`, `reader.c`, `bwf.c`, and the end of `main.c` that closes the file | |
| `MCBytecode` | twelve modules as programs leave them | `Bytecode` |
| `MCData` | the four above side by side, for TLC | `Region`, `SymbolDict`, `JumpTable`, `MCBytecode` |
| `IrProofs` | theorems about code blocks, for whatever the instructions of a block do | `Ir`, TLAPS |
| `CompilerProofs`, `InterpreterProofs`, `RegionProofs` | theorems | the module in the name, TLAPS |
| `TableProofs` | theorems about the two tables | `SymbolDict`, `JumpTable`, TLAPS |
| `CompilerCodeProofs` | theorems about the code the compiler emits | `CompilerProofs`, `IrProofs` |
| `TypeCheckerProofs` | theorems about the pass of the type checker over such code | `TypeChecker`, `IrProofs` |
| `BudeProofs` | that each phase leaves what the next relies on, and what follows for the program | `Bude`; `CompilerCodeProofs`, `TypeCheckerProofs` and `InterpreterProofs` by `INSTANCE` |

**Compiler.** The recursive descent of the C code is the variable `ctx`, a stack with one
frame per active `compile_conditional`, `compile_for_loop`, `compile_loop` or
`compile_function`. A frame is the local variables of that call (`start`,
`body`, the loop's slots, the function whose block it took) and the place
it has reached (`kind`). An action is what the C code does between two reads of
the token stream, so that a program of *n* phrases is a behaviour of about *n*
steps. The tokens are not a variable: each action reads the phrase it is about, and TLC
therefore explores all programs over the given literals, names and constructs.
`Unexpected` is a syntax error. `ReturnToElif` and `ReturnFromConditional` are
the returns of the recursion over `elif`.

**TypeChecker.** `saved`, `wir_dests` and `wir_srcs` are the arrays of
`struct type_checker_states`, indexed by destination in place of by position in the
table. An iteration of the loop in `type_check_function` is at most two steps,
`Arrive` and the instruction; an instruction after which control does not fall
through (`JUMP`, `EXIT`, `RET`) continues in `GoOnAfter`, which is
`check_unreachable`. `type_error` reports and goes on; `check_status` becomes
`"type_error"` at the end. The errors that call `exit(1)` and the failed assertions
have a status of their own. Where the code reads the byte after the last one of
a full array the model chooses from `HeapBytes`.

**Interpreter.** One action per instruction, plus the start and the end of the loop.
`call` and `ret` are `Call` and `RunRet`. A stack operation that fails sets
`run_status` to how. `reserve` leaves the words it reserves as they are, so that
local variables start with arbitrary values from `Junk`. The field `height` of a
call-stack entry is not in the code: `ReturnsItsResults` compares with it.

**Activations** is the abstract specification of a call. A state is a sequence of
activations, each with its function, its return address, its own loop counters
and its own local variables; only the youngest can change, a loop opens and
closes on top of the others, and a return goes on after the call with what the
caller had. `Interpreter!KeepsActivationsApart` is `Activations!Spec` under a
refinement mapping that takes the three stacks apart: it walks down from
`for_loop_level` and `locals`, as a sequence of `ret`s would, and so finds
activations only if every saved level and pointer is right.

**Abstractions.** Values are integers of one word: the types `int` and `word`, one
byte literals, and parameters, results and variables of type `int`. The symbol
dictionary is a map, the function table and the jump tables are unbounded, a
jump table is a set (the code keeps it sorted and searches it by halving).
Instructions keep their real numbers and bytes, because the code does compare
operand bytes with opcodes. One model word of `WordBase` = 65536 values stands
for 64 bits: no modelled instruction adds beyond it, and sign extension of a
byte reaches its top.

**TypedOps** is one operator per case of the checker's switch. A `Translation` says how
many types the instruction takes, which it leaves, the code that is emitted, and
whether it is a type error or fails an assertion. `arithmetic_conversions` is
four operators, one per column (`ResultType`, `LhsConv`, `RhsConv`,
`ResultConv`), that give the table's rule and, by name, the rows that break it.

**WordOps** executes such code on a stack of words. The instructions that work on
the word under the top (`SX8L` and its like) are those of the top with a flag, and
the three operand sizes of an instruction are one. What the floating point unit computes, what is read
through a pointer and what is decoded from a word that encodes nothing is one of
the constant `Outcomes`; a program is followed for each of them.

**Arithmetic** puts the two stacks beside each other and lets any instruction come
next. Translating and running are two phases in the program, but without jumps
each instruction is translated once and its code run once, in the same order.
`type_error` and a failed assertion stop the program before it is run, a
division may trap, `exit` ends it. Two more ends are bounds of the model and not of
the program: `"skewed"`, the two stacks are no longer of the same height, and
`"misfit"`, a word has bits its type does not have. Both are reached through flaws
of the code that are listed [below](#where-the-code-differs-from-what-it-says),
and everything behind them would follow from the flaw.

**Processor, Codegen.** A template is an operator that returns the sequence of
instructions `generator.c` writes, and `RunAssembly` runs it on a record of
registers, stack words and flags. The generated program keeps the two topmost
words in `rax` and `rdx`: `Loaded` puts a stack of words there with two unknown
words under it, `Unloaded` reads it back. Partial registers (`al`, `edx`) are
modelled by the width of the instruction. `printf` overwrites every register a
callee may, the shadow space of the call and all of the stack below it. Addresses
count words and are not truncated. Jumps, calls, loops and floats of the generated code are not
modelled; `NotGenerated` names the instructions left out.

**TypeTable, Compounds, Values.** `Table` is the constant that `compile_pack`,
`compile_comp` and array types fill; sizes, word counts and offsets are computed
as they compute them. `Compounds` has the checker's type stack beside the
interpreter's words: an instruction is checked (`WellTyped`), translated
(`CodeOf`) and its code run (`WordsAfter`). `Values` is the abstract
specification: a stack of items, each a type with a value that is a number or a
sequence of values, and one action per instruction. The refinement mapping
(`ValuesOf`) reads the words by the types, with sizes computed a second time
from the structure of the type and not from the table the compiler filled. Both
have a variable `done`, so that a step has to be the *same* instruction on both sides.
Two things limit which programs are followed: a field is set in a value of its own type
(the checker does not ask), and an element or comp is set to a value whose
words differ from the old in what is copied (`comp_set_subcomp` copies bytes).

**Region.** `alloc_count` has the count of each arena of the chain, `written` the
bytes that may be other than zero, `blocks` what clients still use and
`fences` the points they will restore to, as `START_TEMP` and `END_TEMP` do.
Allocation passes each arena that has no room and leaves its count aligned,
which is what the code does.

**SymbolDict, SymbolMap.** One action per operation; a search is the k-th place on the probe
sequence, with every earlier place occupied by another name. The abstract map knows
neither slots nor hashes.

**JumpTable.** A binary search is one action per round, because `add_jump` and
`find_jump` share it. `Beyond` is what memory behind the array holds when a
growth copies more than there was.

**Bytecode.** A file is a sequence of bytes. Each entry of the file is written by one
action, all of it or, by a failed write, a prefix; then `close_file`, which may lose
what is still buffered without an error. The reader is one action per
entry, with the checks and early returns of each, and one per instruction when
it rebuilds the jump table. Both know the versions of the format, and the model skips in version 1 what the code skips. Reading is
composed with writing in one behaviour: the reader gets whatever the writer left.

**Oddities.** Some shapes of program make the code do something its own comments,
assertions or error messages exclude. A run that is expected to pass must not contain them
or it would show nothing else; a run about one of them contains just
that. They are guards named in the constant `Oddities`, each on the action
where the shape appears:

| Oddity | Shape | Shown by |
|---|---|---|
| `empty_else` | an `else` with no code before its `end` | run `empty_else` |
| `long_while` | a `while` whose exit jump fits and whose jump back does not | run `long_while` |
| `no_final_ret` | a function that needs a final `RET` and gets none | run `runs_off_end` |
| `func_in_loop` | a function defined in the body of a `for` | allowed in run `compiler`; see [below](#where-the-code-differs-from-what-it-says) |

## What the runs check

Passing runs. Deadlock is checked in the first three: the only states without a
program step are those in which the process has exited, and they stutter. The
last three stop where a program or an operation sequence has ended.

| Run | Properties | What it shows |
|---|---|---|
| `compiler` | `TypeOK`, `LevelsNest`, `FunctionsNest`, `PlaceholdersOwed`, `JumpsResolved`, `LoopBodiesClosed` | Every program of up to six phrases with all constructs inside each other, definitions in loop bodies included, and operands of 16 values. The level and current function are always those of the open constructs, the jumps that hold a placeholder are exactly those an open construct of the same function still owes, jumps land on the first byte of an instruction, the jump table is exact, counted loops are entered and left only through their own instructions, and what does not fit is refused. |
| `flow` | `PatchesOwed`, `WordJumpsResolved`, `JumpsMirrored`, `NeverUnderflows`, `NoAssertionFails`, `CheckingEnds` | The whole pipeline on conditionals and `while`, endless loops included, with `ret` and `exit` anywhere, and code arrays small enough to be filled: the checker owes exactly the patches it recorded, its output has the same control flow, what it accepts never underflows, and it always finishes. |
| `programs` | `EndsClean`, `ReturnsItsResults`, `ReadsOwnLoops`, `LoopSlotsReserved`, `CheckerTypeOK`, `RunTypeOK`, `ProgramEnds`, `RunningEnds`, `KeepsActivationsApart` | Every program of up to six phrases with functions that return early, call each other, and declare, set and read local variables whose first value is arbitrary, and with counted loops; recursion until a stack is full included. And eight longer programs, two of them after `test/return_early_loop.bude` and `test/recursive_loop.bude`, which exist because early returns and recursion inside loops once went wrong: activations wait with loops open and variables set while others loop, assign, return early and exit. |
| `arithmetic` | `RingExact`, `ComparisonsExact`, `DivisionsExact`, `ResultsFit`, `ConversionsExact`, `CharactersKept`, `FormatsAgree`, `GeneratedAgrees` | Straight-line code over the 16 simple types and strings, at every word and pair of words that typed literals, and the operations on them, bring there within the bounds below; interpreted and generated. |
| `compounds` | `GeneratedMovesWords`, `ImplementsValues` | Programs that build packs, comps and arrays of each other, take them apart, move them about and read and set their parts, interpreted and generated. |
| `data` | `BlocksApart`, `FreshBlocksAreZero`, `UsedBlocksAreKept`, `ImplementsMap`, `TableHoldsJumps`, `FindsWhatWasAdded`, `RoundTrips`, `CutFilesAreRejected`, `WholeFilesLoad` | The four data structures, each by itself: a behaviour is about one of them. |

Runs that find a violation are described [below](#where-the-code-differs-from-what-it-says):
`long_while`, `empty_else`, `runs_off_end`, `not_equals`, `sets`, `version_one`.

**What the properties say.** `TypeOK`, `CheckerTypeOK` and `RunTypeOK` are the type
invariants. They say more than that a variable has its type: `TypeOK` that
`for_loop_level` is never negative and the current function exists; `CheckerTypeOK` that the tables kept per
destination belong to the current function, not the one before;
`RunTypeOK` that each word fits and no stack is higher than its array.
`PlaceholdersOwed` and `PatchesOwed` are the same idea in the two passes: between
two steps, the jumps still to be patched are known exactly. `JumpsResolved` and
`WordJumpsResolved` say what is left when each pass is done, `JumpsMirrored`
relates the two. `LoopBodiesClosed` is what makes `ReadsOwnLoops` true at run
time; the latter says that the offset the compiler computed from its nesting
stays inside the activation that runs. `ReturnsItsResults` relates the height of
the main stack at a return to that at the call. `LoopSlotsReserved` relates the
interpreter's level to the maximum the compiler recorded, which the generator
uses as the size of a frame.

The properties of `arithmetic` are invariants about whatever instruction could
come next. `RingExact`, `ComparisonsExact` and `DivisionsExact` compare what the emitted
code leaves with the sum, the order or the quotient of the two numbers the words
stand for, in the type the checker goes on with. `ResultsFit` is what lets them: every instruction
leaves narrow values without higher bits, so that the next may rely on it.
`ConversionsExact` and `CharactersKept` follow a number or a character through `to`,
`as`, `~` and `print`. `FormatsAgree` does not look at the words' values: it gives each
word a format (integer, either float, UTF-8, UTF-16), each machine instruction the
formats it reads and writes, and says that the code turns the formats of the
types before it into those of the types after it. Each property names the
instructions and rows it excepts, with the line that makes the exception
necessary; they are listed [below](#where-the-code-differs-from-what-it-says).

`GeneratedAgrees` runs the assembly the generator writes for the code of each instruction
and compares stack, output and traps with the interpreter's.
`GeneratedMovesWords` does so for the templates that move blocks, against the words that
are *meant*. `ImplementsValues` is the refinement of `Values`.

`BlocksApart` says that no byte belongs to two blocks in use and every block is inside its arena;
`FreshBlocksAreZero` and `UsedBlocksAreKept` are action properties, about
what is handed out and about what restoring and clearing may take away.
`ImplementsMap` is the refinement of `SymbolMap`. `TableHoldsJumps` is the
sortedness and exactness that `FindsWhatWasAdded` needs. `RoundTrips` compares
the module that is loaded with the one that was written, as far as its version stores it;
`CutFilesAreRejected` says that a file with any part of its end lost never
loads; `WholeFilesLoad`, a liveness property, that a whole one does. All three exclude version 1.

**Bounds.** `MaxPhrases` is the length of the enumerated programs in phrases, a
phrase being what one action reads: `if`, a whole `for i to`, a literal. For the compiler alone
six phrases hold a construct inside a construct with a body, an `elif` chain of two, a
definition inside a loop, a jump over the longest body
that fits. The checker rejects most of those programs, because a condition or a count is
missing: the programs of six phrases that it accepts hold one construct each in `flow`, and in
`programs` a function that calls itself or sets a variable, or one counted loop. Two
counted loops in each other take eight phrases, and a loop and a call, or an assignment by
an activation that another waits for, take seven; what is said about those (`LoopSlotsReserved`,
`KeepsActivationsApart`, `ReadsOwnLoops`, `EndsClean`) is shown by the longer texts of `programs`, of up to 28 phrases. `ByteBase` is 256, except in `compiler` and `long_while`, where it is 4:
an operand then has 16 values, and a body of two or three instructions
exceeds it, which takes 32 KiB of code with real bytes. Nothing in the code
depends on the number except the width of operands and of one-byte literals. (With
four values a byte cannot hold the number of an opcode; the model never
truncates opcodes, and the two runs execute nothing.)
`StackSize` is 12 in place of the program's
constant: high enough for three activations with loops and variables, low enough that
recursion reaches the end of every stack. `BlockInitSize` is the program's
128, and 6 in `flow`, where a block is to be filled; `Growths` (24) only limits
how many capacities are listed. `Literals` are chosen for what they do: 0 and 1
as conditions, 2 and 3 as loop counts, 200 for its sign bit, 117 because it is
the number of `RET`.

In `arithmetic` the widths 8, 16, 32 and 64 are scaled to 2, 3, 4 and 5 bits. The code
uses a width only to extend from, to truncate to and to compare with
another, so that what matters is their order, that each holds both signs and
more than one value of either, and that two narrow numbers can overflow the
width of their result. There are four codepoints, two that are
encoded in themselves, and one that is encoded differently in UTF-8 and UTF-16.
Two values are enough for every instruction but `rot` and what may follow
`dupe` and `over`; a third is allowed (`MaxDepth`) if all three are of `DeepTypes`,
a type of two words and one of one. A literal has any integral type and any value of
`Literals` that is in its range: zero, one, the least and the greatest negative word and
a value the narrowest type does not hold as a signed number; arithmetic and conversions reach the other words.
A program is followed through a conversion (`to`, `as`) only if its operand is the one value
there is, which brings any type to the left operand; what a conversion would do is
checked in every state all the same.

In `compounds` a byte is one bit, so that a word holds eight, and the table has a pack
of fields of two sizes, a comp with a comp at either end and a pack between them, an
array of words and an array of comps: fields at the start, in the middle and at the end,
values of one word, of two and more, odd and even. `MaxWords` (7), `MaxDepth` (4
values) and `MaxMoves` (2 instructions after a stack has been built) suffice for every instruction with one of the others
before it; the literals differ in their position, so that any two words that are
mixed up show. The generated code is compared in the states that have a move left, for
every instruction that could be performed there.

In `data` an arena has 16 bytes (one alignment unit) and there are two;
the sizes asked for are odd, even, too large and zero. The symbol table has four slots and
five names, two with one hash, one that begins at the same slot with another, and one at the
end that wraps around. The jump table holds two before it grows and four altogether, which is
as many as a growth copies (`InitSize * ItemSize`). `AllModules` has a module with each kind of entry, one with
a loop, one for each thing the file format does not carry well, and one that begins with a literal of
eight bytes; all five versions are written, and every prefix of every file is read. The three properties are about versions 2 to 5: in version 1
the reader starts in the wrong place, which the run `version_one` shows.

**Fairness.** The program is one thread that never waits. `Bude!FairSpec` has weak
fairness of `TypeCheck` and of `Interpret`: a phase that can go on goes on. The
compiler is not assumed to reach the end of its text, so the liveness properties
start at `status = "compiled"` (`CheckingEnds`) and `check_status = "ok"`
(`RunningEnds`). `RunningEnds` is checked in a run whose one `while`, in `WhileInFor`, ends, because with
others a program may loop for ever; recursion ends because the stacks do.
`MCPrograms!ProgramSpec` has weak fairness of the whole next-state relation: the longer
programs are fixed texts that are read to their end (`ProgramEnds`). `BytecodeSpec`, and `MCData!Spec` with it, has weak fairness of
`ReadData`, the part of `read_bytecode` after the header: a reader that has begun goes on. Writing need not
end. The other specifications have no liveness property and assume nothing.

**Mutants.** Each property of a passing run has a mutant in `PROJECT.json`: an
operator in the same module, marked *Mutant* in its comment, that differs from the definition it stands in for
the way a slip in the C code would (a level that is not raised, a patch one
byte off, a table that is not reset).

## What is proved

Eight modules hold proofs. Each assumes only the named assumptions of the module it is
about, and proves for all values of the constants what a run checks for one. The
theorems that need more say so in their statement.

| Module | Theorem | States |
|---|---|---|
| `CompilerProofs` | `TypeCorrect` | `Spec => []TypeOK` |
| | `LevelsAlwaysNest` | `Spec => []LevelsNest` |
| | `FunctionsAlwaysNest` | `Spec => []FunctionsNest` |
| | `FinishesFunctionZero` | `Spec => [][Finish => func_index = 0 /\ for_loop_level = 0]_vars` |
| `CompilerCodeProofs` | `PlaceholdersAlwaysOwed` | `Spec => []PlaceholdersOwed`, without `empty_else` and `long_while` |
| | `JumpsAlwaysResolved` | `Spec => []JumpsResolved`, without `no_final_ret` as well |
| | `LoopBodiesAlwaysClosed` | `Spec => []LoopBodiesClosed`, without `empty_else` and `long_while` |
| | `CompiledCodeFlows` | `Spec => []Compiled`: what the type checker relies on |
| | `CompiledLoopsBalance` | `Spec => []Balanced`: what the loop stack relies on, without any of the four oddities |
| | `CodeAlwaysInBytes` | `Spec => [](IInv /\ BytesInv)`: the code is a string of bytes, with every oddity, if a byte holds every opcode and function number |
| `IrProofs` | `AppendInstruction`, `EmittedOperand`, `PatchJump` | what emitting an instruction and patching a jump do to a block, and what they leave alone |
| `TypeCheckerProofs` | `PatchWaiting` | what patching the jumps that wait for a destination does to a block |
| | `PatchesAlwaysOwed`, `AssertionsHold`, `WordJumpsAlwaysResolved`, `JumpsAlwaysMirrored` | `ModuleOK /\ CheckSpec => []P`, the type checker on any module that has what it relies on |
| | `AcceptedCodeIsTyped` | `ModuleOK /\ ModuleComplete /\ CheckSpec => [](check_status = "ok" => AllSound(Len(t_code)))`: what is accepted has one stack height per instruction |
| | `CheckerTypeCorrect` | `ModuleOK /\ ModuleInBytes /\ CheckSpec => []CheckerTypeOK`, if a byte holds every opcode |
| `InterpreterProofs` | `NoUnderflowIfTyped`, `TypeCorrectIfTyped`, `OwnLoopsIfTyped`, `ResultsIfTyped`, `CleanEndIfTyped` | `TypedSpec => []P`, the interpreter on any module whose W-code can be typed |
| | `ActivationsApartIfTyped` | `TypedSpec => KeepsActivationsApart`, the refinement of `Activations` |
| `BudeProofs` | `PatchesOwedInBude` | `Spec => []PatchesOwed`, without `empty_else`, `long_while` and `no_final_ret`, as the next three |
| | `NoAssertionFailsInBude` | `Spec => []NoAssertionFails` |
| | `WordJumpsResolvedInBude` | `Spec => []WordJumpsResolved` |
| | `JumpsMirroredInBude` | `Spec => []JumpsMirrored` |
| | `CheckerTypeOKInBude` | `Spec => []CheckerTypeOK`, without the same three, if a byte holds every opcode and function number |
| | `NeverUnderflowsInBude` | `Spec => []NeverUnderflows`, without any of the four oddities, as the next six |
| | `ReturnsItsResultsInBude` | `Spec => []ReturnsItsResults` |
| | `ReadsOwnLoopsInBude` | `Spec => []ReadsOwnLoops` |
| | `LoopSlotsReservedInBude` | `Spec => []LoopSlotsReserved` |
| | `EndsCleanInBude` | `Spec => []EndsClean` |
| | `RunTypeOKInBude` | `Spec => []RunTypeOK` |
| | `KeepsActivationsApartInBude` | `Spec => KeepsActivationsApart`, the refinement of `Activations` |
| `RegionProofs` | `BlocksAlwaysApart` | `RegionSpec => []BlocksApart` |
| | `FreshBlocksAlwaysZero` | `RegionSpec => FreshBlocksAreZero` |
| | `UsedBlocksAlwaysKept` | `RegionSpec => UsedBlocksAreKept` |
| `TableProofs` | `NamesAlwaysReachable` | `DictSpec => []NamesAreReachable` |
| | `TableIsAMap` | `DictSpec => ImplementsMap`, the refinement of `SymbolMap` |
| | `TableAlwaysHoldsJumps` | `JumpTableSpec => []TableHoldsJumps` |
| | `AlwaysFindsWhatWasAdded` | `JumpTableSpec => FindsWhatWasAdded` |
| | `SearchAlwaysNarrows` | `JumpTableSpec => SearchNarrows` |

**CompilerProofs** holds for programs of any length,
any sets of names and literals, any signatures, and with all oddities allowed.
The three invariants are proved together, as `IInv`. `TypeOK` alone is not
inductive: `ForEnd` subtracts the slots of the innermost loop from
`for_loop_level`, and that the result is a natural number follows from
`LevelsNest`; `FunctionEnd` goes back to the function named in its frame, and that
it is in the table follows from `FunctionsNest`. Both are instances of one predicate
on the stack of frames, `Nested`, with three lemmas about it: pushing a frame
made by `Frame` keeps it, popping the top gives the level and the function of
the caller, and changing the place within the top frame keeps it as long as its
slots and function count the same. The step of the induction then has one
case per action of `Next`, most of them by one of those lemmas and the type
lemmas about `Emit`, `SetBlock` and `AddJumps`. `FinishesFunctionZero` follows
because `Finish` requires `ctx = <<>>`.

**IrProofs.** `TStarts` follows the instructions of a block from its first byte by recursion, and no
prover at hand does induction over it. It is characterised without: `Decodes` says of a set of offsets that 0 is in
it (if there is a first byte), that the offset behind each member is in it or past the end, and that each member but 0 is behind another. Two
sets of which this holds are equal, because the least offset in which they differ has a predecessor in both;
that the least exists is the library's theorem on well-founded relations, applied to a relation and not an operator.
From then on a proof never looks into `TStarts`: it names the set it expects and shows that the set decodes the block.
Appending an instruction adds one offset; patching an operand changes no opcode, so the set stays.

**CompilerCodeProofs** holds for programs of any length and every byte size, all constructs, names and signatures.
Two oddities are excluded in all theorems, a third in `JumpsAlwaysResolved` and `CompiledCodeFlows`, and `func_in_loop` in `CompiledLoopsBalance` alone. They are not
assumptions of convenience: for each of the first three, a run that expects a violation shows what the
code does in that shape (`empty_else`, `long_while`, `runs_off_end`); `func_in_loop` has no run and is [described below](#where-the-code-differs-from-what-it-says). Definitions within loop bodies are included in the others.

`PlaceholdersOwed` says what holds of each block *now*, and is not inductive: that a patch hits a jump, and
the right one, depends on offsets a frame remembered long before, in a block that was appended to and
patched since. `CodeInv` therefore adds, per block:

- it is a whole number of instructions (`WholeBlock`), so that what is emitted next begins an instruction;
- the jumps without destination are those owed by the frames that work in it, and its jump table holds the destinations of the rest;
- no jump that has its destination passes over one that has none, and a counted loop that was closed is entered and left by its own two instructions, also by jumps that are not
  patched yet, and wherever the open constructs will lead them (`Linked`, which mentions the offsets they keep as `Labels`);

and per stack of frames, that each frame remembers the instructions it emitted (`Shaped`) and lies above those opened before it in the same block (`Ordered`).
A definition inside a construct works in another block, so all of this is about the frames of one function, `FramesOf`.
The step of the induction has three layers: lemmas about one block (append, owe, patch, close a loop), lemmas about the frames (push, pop, change the top), and per action
the choice of one of each.

`EndsInv` is what `JumpsResolved` needs besides: of a function whose definition has ended, no jump lands
behind its last instruction. While a function is open a jump may lead to its end, where the next
instruction will be; `compile_function` appends a `RET` when it sees that the end can be reached, and `no_final_ret` is
the shape in which it does not.

`KnownInv`, that no other instructions are emitted than the type checker tells apart and that every call
is of a function in the table, completes what `CompiledCodeFlows` says of a compiled program. Its hardest part is the last
conjunct of `Flows`: a jump that comes from outside of what a jump back repeats leads to the beginning of that or
not into it. It comes from the conjunct `BackClosed` of `Linked`.

`LevelsInv` is about `for_loop_level`, the compile-time height of the run-time loop stack. It says that every instruction
of every block has a number of slots that are open when control gets there, *whichever way it comes* (`Levelled`): 0 at the beginning of a function, one or two more after
`FOR_DEC_START` or `FOR_INC_START`, as many less after `FOR_DEC` or `FOR_INC`, the same at both ends of a jump; that `max_for_loop_level` bounds
them all; and that the operands of `GET_LOOP_VAR` and `LOCAL_GET` are below the number of open slots and of variables. Where an owed jump starts
there are as many open as when its construct began, and at the offsets a frame keeps its own besides (`Held`). The
levels are existentially quantified: a step extends or keeps the function that gives them, and closing a construct
works because the patched jump and the place it is led to have the same level. With `LastInv`, that a function that has ended ends in `RET`, it gives
`CompiledLoopsBalance`. A definition in a loop body is left out because `compile_function` starts it with the level of the
loop and not with 0.

**TypeCheckerProofs** is about one pass over a module of which `ModuleOK` holds, which is what `CompiledCodeFlows` says and
the types of signatures and local tables. The invariant `CheckInv` has two parts for the function at hand.

- `Progress` holds whether or not an error was reported. W-code so far is whole instructions. A destination ahead is recorded with a
  stack if and only if it has jumps waiting, and these, of all destinations together, are the jumps
  with a placeholder. Destinations behind have the place in the W-code where their instruction is.
- `Mirror` holds as long as there was no error. In the modelled subset every instruction of T-code is translated to one of the same length, so the places agree; the jumps
  of the W-code that are patched have the destinations of the T-code, and the W-code's table has those that are behind.

The difficult step is an instruction that does not fall through. `check_unreachable` skips what follows
to the next destination with a saved stack, and is right to forget what is in between only if no jump leads there that is translated
later or earlier. A jump forward to it would have saved a stack. A jump back to it comes from a loop whose beginning is skipped, and `Flows` says that such a
loop is entered at its beginning alone, so that its end is skipped as well (`UnreachableResumes`). If anything but a
lone `RET` is skipped, an error is reported, and the program is not accepted; that is why `Mirror` may stop there and `Progress` may not.
Before the proof, TLC checked `ModuleOK` and `CheckInv` as invariants of the programs of up to six phrases with the constructs of the runs `flow` and `programs`.

`HeightsInv` is what the checker does for the interpreter. Its stack of types is at one place at a time and the interpreter's may come to it from several; `saved`
holds the stacks of the destinations ahead, and `check_jump` and the arrival at a destination compare them. The invariant says that what has been translated so far is, instruction by instruction,
the T-code with the operation of the interpreter for each (`Translates`), and that there is a function from its instructions to heights (`Measured`) such that each has at least what it takes,
all that can come next have what it leaves (`SoundAt`), the destinations ahead the height of the saved stack, and a `RET` exactly the results of the signature. The function is existentially
quantified; a step extends it by the height at `t_ip`. A skip adds none, because of what is skipped in a program that is accepted nothing but a lone `RET` is translated.
`ModuleComplete` is assumed besides `ModuleOK`: every function ends in a `RET`, the operand of a `LOCAL_GET` is in the table of variables, and no signature mentions the type of errors.

**InterpreterProofs** is about the interpreter on any module that has a *typing* (`Typing`): for each instruction of each function a height of the
main stack and a number of open loop slots on which all ways to the instruction agree, and an operand the instruction can have. The invariant `RunInv` follows
the activations, which no variable of the code holds: two functions, `loops` and `frames`, say where the part of each activation begins on the loop stack and on the
auxiliary stack. Each activation, those that wait included, is at an instruction its typing knows, has as many loop slots as the typing says and as many words of variables as it has variables,
and will find the main stack as high as the typing says when the one above returns (`WellAt`). Without the activations that wait nothing could be said of a return,
which takes its level, its `locals` and its function from the words its caller saved. A call extends the two functions and a return cuts them; every other instruction leaves all but the top part alone (`Within`).

The refinement of `Activations` rests on `RunInv` as well. Its mapping reads the activations off the three stacks with two recursive functions, `LoopBase` and `LocalsBase`, that follow the saved
levels and pointers down from the top. Given `RunInv` they unfold to nothing else than `loops` and `frames` (`LoopBasesAre`, `LocalsBasesAre`), so that an activation's counters and variables are the pieces of
the two stacks between one base and the next (`Pieces`). Then there are three kinds of step, each a lemma: going on, which changes the youngest piece only; entering, which adds a piece and keeps the
bases below; and returning, which drops a piece and finds the caller's where they were. For each action one lemma says of which kind its step is, and that it is a step of `Activations` or stutters.

**BudeProofs** puts the three together. A module that composes instances has names of its own for everything that is in them, so it first shows that
the steps of `C`, `T` and `I` are those of the modules the theorems are about, definition by definition. The invariant `BudeInv`
then consists of the compiler's, the checker's, and that the checker is idle until the compiler has returned;
each phase keeps the part of the others because it leaves their variables alone. The theorems are about the program as `main.c` runs it,
for programs of any length. The first four have as their only hypothesis the absence of three shapes, each of which has its run.

`CheckerTypeOKInBude` has one more, `BytesSuffice`: that the largest opcode, 160, and the number of phrases are below `ByteBase`. The first is so in the code, whose bytes have 256 values (but not of every
base that the other proofs allow: jumps are checked with a base of 4 in the run `compiler`). The second bounds the number of functions, since a phrase defines at most one, and with
it the operand of `CALL8`; the code goes on with `CALL16` there, which is not modelled. The invariant joins `BytesInv` of the compiler (each block of T-code is bytes, each function's number is
below the number of functions) and `FieldsInv` of the checker (so is each block of W-code; each has its jump table). A truncated operand is bytes as well, so neither part excludes a shape by itself; `ModuleOK` does.

The last seven are about what the interpreter does with a program that was accepted, and exclude the fourth shape as well, as `Oddities = {}` does in the runs `flow` and `programs`.
They follow in two steps. `AcceptedInv` extends `BudeInv` by `LevelsInv` and `LastInv` of the compiler, `HeightsInv` of the checker, and that the main
function takes nothing and returns nothing (`MainSignature`). From it `TypingFound` makes a `Typing` of the module that was accepted: the heights are the checker's, the open loop slots the
compiler's, moved from T-code to W-code by the correspondence of `JumpsMirrored` and `Translates`; an operand can be what the instruction needs because the compiler put it there (loop variables and `LOCAL_GET`) or because
the checker compared it (calls and their signatures). `RunningInv` then says that, once the checker has answered, there is a typing for which `RunInv` holds, and that
its loop slots are bounded by `max_for_loop_level`, which gives `LoopSlotsReserved`. For the refinement, `Bude` instantiates `Activations` through `I`, and `SamePromise` shows that this is the `Activations` of `Interpreter`;
before the program runs there is one activation and nothing changes in it. So type soundness of the language, as far as it is modelled, is a theorem about three passes that never
see each other's state: none of the three invariants alone says anything about a stack at run time.

**RegionProofs** strengthens `BlocksApart` to `RegionInv`: besides, nothing at or above an arena's count
is other than zero (`WrittenIsGivenOut`), every byte of a block in use counts as written, and at
each fence the blocks recorded lie below its count in the first arena or in later
ones, and the fences are ordered (`FencesHold`). The last is needed because a
restore brings back an old set of blocks and an old count. Arithmetic on alignment is in two
lemmas: aligning never goes below, and stays within an arena whose size is a multiple of 16.

**TableProofs.** For the dictionary the inductive invariant is that every name in the table is reached by its own probe
sequence with no vacant slot and no slot of its own name before it. Probing with steps of one visits each
place once, so that two searches for a name end at the same slot; from it each insertion changes the
meaning of one name, and the refinement follows action by action.

For the array of jump destinations it assumes `FewJumps`, that no more jumps are added than a growth copies.
The invariant adds the bounds of a search: everything below `lo` is less than what
is looked for, everything from `hi` on is not. A growth is a lemma: what is in the table survives it.

Only model-checked: everything else. Of `Arithmetic`, `Compounds`, `Codegen` and `Bytecode` nothing is proved:
their properties are about sequences of instructions or bytes that are computed by recursion or folds over what a table holds. Liveness (`CheckingEnds`, `RunningEnds`,
`ProgramEnds`, `WholeFilesLoad`), and the refinement of `Values` stay with TLC.

## Where the code differs from what it says

Shown by a run:

- **`long_while`** (`compiler.c:704`). `patch_jump` refuses a jump that does not fit
  with `Jump too big.`, but the jump back of a `while` is emitted without the
  check. When the exit jump is the longest that fits, the jump back is too long
  and is truncated; it lands outside the function.
- **`empty_else`** (`compiler.c:624`). `if c then b else end` is compiled with a jump
  over the `else` body. An `else` body of no code is taken for no `else`, the jump
  keeps its placeholder, and the type checker's assertion that a destination
  is in the table (`type_checker.c:625`) fails.
- **`runs_off_end`** (`compiler.c:269`, `1297`). Whether a function already ends in
  `RET` is decided by its last byte, which may be an operand: a function whose
  body ends with the literal 117 gets no `RET`. The interpreter's loop ends at the
  end of that code, and the program stops in the middle, as if it had finished.

- **`not_equals`** (`type_checker.c:1722`). `README.md:191-193` of the repository says that `/=`
  pushes whether the two values differ. The checker emits the instruction of `=`
  for it, and the float ones too; no instruction of the machine's `!=` family is ever emitted.

- **`sets`** (`interpreter.c:143`). `README.md:121` of the repository says that setting an
  element of an array sets the specified element. `comp_set_subcomp`, which `array_set`
  uses too, copies `word_count` *bytes*: setting an element that holds 1904 (0x770) to
  70000 (0x11170) gives 1904 with its lowest byte replaced.

- **`version_one`** (`reader.c:34`, `54-58`). `bwf.h:18-19` says that the field count is stored from version 2
  on. For a file of version 1 the reader assumes a count of 2 and then computes how much of the section is
  left as if the count had been read: it finds four bytes too many and skips the first four of the data.
  Nearly every such file is rejected; in the run, a function that begins with `PUSH_INT64 4294967296` loads
  as another one, with the opcode taken for the size of the code. `write_bytecode_ex` writes version 1 if
  asked to; the program itself asks for version 5.

Two sentences of the documentation of `edivmod` contradict each other: line 151 of the repository's `README.md`
says that it is Euclidean division, line 152 that its quotient "is rounded towards negative
infinity". `interpreter.c:547-556` does the former, which rounds up when the divisor is negative: `7 edivmod -2`
leaves -3 and 1, while -3.5 rounded towards negative infinity is -4. `DivisionsExact` follows line 151 and the code; what line 152
says is not true of them.

Excepted in the properties of `arithmetic`, at the definition that says which case:

- `type_checker.c:1615`: the unsigned `<` is `LOWER_SAME`, the instruction of `<=`.
- `type_checker.c:283`: the row of word and s32 extends the s32 from 16 bits.
- `type_checker.c:234-300`: the rows of byte neither extend a narrow signed operand nor
  narrow the result (`InDoubt`, `ResultConv`).
- `type_checker.c:1347`: `+` emits the narrowing of its result before the `ADD`: it narrows the right
  operand, and a narrow sum keeps its carry (`NotNarrowed`).
- `type_checker.c:698-713`: after a division the narrowing is emitted twice for the
  remainder and not for the quotient, which stays wide when it is negative (`NotNarrowed`). `idivmod` and `edivmod` (1451, 1468) do
  the same, and read a word operand as signed.
- `type_checker.c:1702`: `not` of a float pushes its bool twice on the type stack.
- `type_checker.c:1388`, `1744`: `and` and `or` of two strings emit one instruction for
  two words.
- `type_checker.c:890`: `+` with a pointer does not look at the other type, and converts
  the top word, which is the pointer when it is on the right.
- `type_checker.c:1499-1642`: a float is compared with a value of any type without an error;
  and `BINF32_OP` and `BINF64_OP` (`interpreter.c:32-43`) push the answer as 1.0, which has
  none of the bits of a bool.
- `type_checker.c:964`: `to ptr` fails the assertion that ptr is an integral type.

Excepted in `GeneratedAgrees` and `GeneratedMovesWords`:

- `generator.c:855-878`: the Euclidean division of the generated code moves the quotient the wrong way when the
  remainder is negative: `r10` is `+sign(b)` where its comment has `-sign(b)`.
- `generator.c:196`: of a comp of two words or more that lies under a single word the last word is not loaded.
- `generator.c:214-232`: a comp in a comp is set right only where it has two words and is the last field.
- `generator.c:922`: the generated `exit` passes 32 bits of the status.

In templates that are not modelled, or outside the values the runs have: `PUSH_CHAR16`
and `PUSH_CHAR32` (735, 744) write `eax` where the top is `edx`; negative literals of `PUSH_INT8` to
`PUSH_INT32` are written to a 32-bit register and zero extended; `ICONVC32` takes a word of 2^32 or more for
its low half; setting a pack field of 8 bytes shifts by 64; `mul rdx, n` for a size that is no power of
two has one operand too many for the assembler; `SUBF64`, `FPROML` and `FCONVB` name a wrong register;
`SWAP_COMPS16` and `32` read the second size at the wrong place, and `ARRAY_GET16` and `32` read one byte; a jump out of a loop
leaves `loop_level` raised.

Seen in the data structures and excluded by a bound or a guard that says so:

- `memory.h:34`: `GROW_DARRAY` never stores the new capacity, so that every append after
  the first growth grows again, and `reallocate_array` is given sizes in bytes for
  counts: it allocates and copies that many times too much, past the end of the old array,
  and up to `InitSize * ItemSize` items survive. With more jumps than that
  (`FewJumps`), an item is lost: a function of forty `if`s fails the assertion at `type_checker.c:625`.
- `reader.c:86`: the reader multiplies the number of local variables by `sizeof(struct local)`, while
  the file (`bwf.h:45`) has four bytes for each: a function with local variables does not load
  from versions that store them (`Loadable`).
- `reader.c:284`: where a module needs a larger table than a new one has, the reader moves the array and
  keeps the old address (`"undefined"`).
- `writer.c:210`: a string is written with `fprintf`; one that holds a NUL comes back short, and the file is cut
  there with the exit code 0. `main.c:627` does not look at what `fclose` returns.
- `writer.c:168`, `186`: the writer asserts that the names of externals and libraries are strings of the
  module and not its first; `--lib kernel32=mylib.dll` names a file that is not.
- `ir.c:174`: `>=` has no entry in `w_instruction_sizes`; rebuilding the jump table of a file with it does not end.
- `compiler.c:1022`: a field that is an array counts as one word of its comp. A comp may have a field of its own type,
  which counts as one word too. The tables of the runs have neither.
- `type_checker.c:1149`: setting a field checks the new value and not the value it is set in. `SetsOwnField` keeps to
  programs that set fields in their own type.
- `interpreter.c:147`: an index is not compared with the length of the array, whose element count is read as one byte.

Seen while modelling, without a run of their own, because no document,
comment or test promises otherwise:

- `compiler.c:1297`: the jump table asked for a jump to the end of the function is
  that of the *enclosing* function, `block` having been read before the new one was
  entered. A function that ends in a conditional `ret` therefore loses its final `RET`;
  the guard `no_final_ret` covers this shape too.
- `compiler.c:1266`: `enter_function` leaves `for_loop_level` as it is. A function
  defined in the body of a `for` computes its loop-variable offsets from the
  enclosing level, and reads below its own loops at run time. `LevelsNest` and the proofs
  hold with such functions; `ReadsOwnLoops` is checked without them.
- `compiler.c:1369`: a loop variable stays bound after its loop, and a reference
  is refused only when the variable's level is above the current one: a later reference inside another
  loop of that level compiles, to that loop's counter.
- `compiler.c:1163`: an assignment does not ask which function owns the variable,
  as a reference does: it writes to the element with that index in the
  current function's frame.
- `type_checker.c:909`: when the code fills its array exactly, `check_unreachable`
  reads the byte behind it. If that byte is not 0, the final `RET` of a function that is
  correct is reported as followed by unreachable code, and the program rejected. The run `flow` gives
  the byte both kinds of value and finds no assertion that fails; in `programs` it is 0.
- `stack.c:18`: `push` fails when the height *equals* the last position, while
  `reserve` (line 96) may fill the stack to the top: the next push writes behind
  the array. `RunTypeOK` holds for the programs of its run; the model has a
  status `"out_of_bounds"` for the one place where `call` can do this.

## What is not modelled

`PROJECT.json` lists each component with its status. Within the modelled ones:

- *Control flow and data together.* The programs of `Bude` have integers of one word only; arithmetic,
  strings, characters and compounds are modelled in straight-line code (`Arithmetic`, `Compounds`).
- *Floating point* values: an operation gives any of a set of outcomes.
- *Parsing* of packs, comps, array types, casts, imports and strings in `compiler.c`: their results are the
  table of types and the modules that other models start from.
- *Generated control flow*: labels, jumps, calls, loops and the frame of `generate_function`. The interpreter's counterpart is modelled, and
  `LoopSlotsReserved` covers the one number the two share. The UTF routines are text.
- *Lexer and string builder*: sequential scanning and joining of text. They carry no state from one token to the
  next but the position and the nesting of interpolations, and a model of them would spell out characters.
- Printing (`disassembler.c`, `display_bytecode`, error messages, `location.c`) changes no
  state. `optimiser.c` is not called (`main.c` has the call commented out). External calls are not implemented by the interpreter.

The Python scripts under `tool/` are no part of
the program either.

## The plan

Done: the compiler, checker and interpreter with control flow; arithmetic and
compounds in both back ends; regions, dictionary, jump tables and bytecode
files; proofs about the compiler, the type checker, the interpreter, the three together, and the three data structures. What is left, in order
of what it is worth:

1. `Frames`: the generated code's frame, calls, returns and loops on `Processor`, against
   `Activations`, which both back ends should implement.
2. Proofs: the range of each conversion, for every width.
3. Parsing of type definitions in `compiler.c`, giving `TypeTable`'s table as a state.
4. `stack.c` as a module of its own, with all its limits.
5. `Lexer`: modes and the nesting of comments and interpolated strings; that it ends.
