# A TLA+ development for naive

naive is a C99 compiler with its own preprocessor, parser, intermediate
representation, x86-64 back end, assembler, linker, archiver and a small C
library. This directory holds TLA+ models of the parts that carry its logic,
TLC runs that check them on small instances, and TLAPS proofs, for every
instance, about two passes of the register allocator and its live ranges,
calls and stack frames, the linker and the archives it reads, the heap of the
C library and the compiler driver.

`PROJECT.json` maps every definition that models code to the lines it stands
for, and lists the hazards the properties were chosen for.

## 1. Inventory

A compilation runs through these parts, in this order. Except for `ncc`, which
may run several times at once on one file system, each is sequential: the hard
behaviours are long chains of legal steps over shared mutable context, state
that is stale when used, failures half-way and boundary values, rather than
races.

| part | code | state | operations | hard part |
|---|---|---|---|---|
| driver | `src/bin/ncc.c`, `src/file.c` | option flags, input lists, temporary objects, the file system | parse options, compile a source, link, remove temporaries | several processes, one phase of several failing |
| preprocessor, directives | `src/syntax/preprocess.c` | readers, scope stack, macro environment, output | one per directive | scope flags that stand for several facts, nesting, self-inclusion |
| preprocessor, macros | `src/syntax/preprocess.c` | parameters in scope, output, depth | symbol, call, argument, end of body | mutual recursion over shared fields |
| source locations | `preprocess.c`, `reader.c`, `lex.c` | adjustments, position of the reader | record, advance, back up | two programs that must stay in step through offsets |
| preprocessor, conditions | `preprocess.c` | the line read so far, the expression | read, answer `defined`, expand, parse, evaluate | the order of these, errors that are only flags |
| lexer | `lex.c`, `reader.c`, `c_type.c` | position, tokens | one per kind of token | longest match, numbers read twice, digits that do not fit |
| parser | `parse.c`, `parse.peg`, `dsl/peg.py` | position, table of typedef names, tree | one function per rule | a table that backtracking does not restore, reads behind the last token |
| IR generation, statements and expressions | `src/ir_gen/statement.c`, `expr.c` | context: break/continue targets, case labels, goto fixups, scopes | one per statement and expression | context fields that nested constructs replace |
| IR generation, declarations | `decl.c`, `c_type.c`, `ir_gen.c` | tags, typedefs, scopes, globals, shared types | one per declaration | types used incomplete and completed in place |
| IR generation, initializers | `initializer.c`, `asm_gen.c` | current object, elements | element, designator, brace list, clear, store | the current object after a designator |
| IR and folding | `src/ir.c` | blocks, instructions | one builder per instruction | widths of constants, three codes for one operation |
| instruction selection | `src/backend/asm_gen.c` | virtual registers, current block | one per IR instruction | fused comparisons, calling convention |
| register allocation | `src/backend/reg_alloc.c` | live ranges, free bits, active list, slots | four passes | all of them |
| assembler | `src/backend/asm.c`, `x64.enc`, `dsl/enc.py` | bytes, label offsets, fixups | one per instruction | boundary values, offsets known late |
| object files, linker | `src/backend/elf.c` | symbol table, sections, image | read symbols, relocations; write | order of files, positions counted twice |
| archiver | `src/bin/nar.c` | file position, long names | one per member | positions that another program recomputes |
| containers | `array.c`, `pool.c`, `bit_set.c` | elements, capacity, blocks, words | append, insert, remove, allocate, set | bytes that move while they are used, the last word |
| C library | `libc/` | heap, streams | `malloc`, `free`, `realloc`, `calloc`; `fread`, `fwrite`, `printf`, `qsort`... | long call sequences, short and failing system calls |

How they interact: each front-end part calls the next through a shared context
structure; the passes of the register allocator communicate through the
`VReg` array and `builder->local_stack_usage`; assembler and linker
communicate through object files; archiver and linker through archive files;
several `ncc` processes through `/tmp`. What makes each part correct is stated
in section 3, with the run that checks it.

## 2. Modules

| module | models | shape |
|---|---|---|
| `LinearScan` | first pass of `allocate_registers` | one action per step of the loop body: pick, expire, place, spill, pin, evict, and the ways it stops: a failed `ASSERT`, a read past the index table |
| `LinearScanProofs`, `LiveRangesProofs`, `CallSpillProofs`, `CallFrameProofs`, `AllocatorProofs`, `DriverProofs`, `LinkerProofs` | | theorems about the module each is named after, `LinkerProofs` also about `Archive` (section 4) |
| `SeqFacts` | | lemmas about sequences the proofs share |
| `LiveRanges` | `find_preds`, `compute_live_ranges`, `is_def`, `is_use` | work-list analysis of one virtual register |
| `CallSpill` | second pass of `allocate_registers` | activation, expiry; at a CALL one step per element of `active_vregs` |
| `SpillRewrite` | third pass | rewriting in place, insertions that move the array; the rewritten body is executed against the original |
| `CallFrame` | `classify_arguments`, `asm_gen_call`, prologue, entry MOVs, epilogue, `va_start`, `va_arg` | emitted instruction groups run on registers and stack bytes |
| `Allocator` | `malloc`, `free`, `realloc`, `calloc` | one action per call |
| `Linker` | `link_elf_executable`, `process_elf_file`, `process_rela_section`, `write_contents`, `add_symbol` | reading phase, then emitting phase |
| `Archive` | `nar` and the linker's walk over an archive | writer and reader composed over file positions |
| `Driver` | `ncc.c` `main`, `compile_file`, `make_temp_file` | processes interleaved at file-system operations |
| `Conditionals` | `preprocess_aux`, `handle_pp_directive`, `start_pp_if`, `preprocess_file` | one line per step; the last line of a file may have no newline |
| `MacroExpansion` | `substitute_macro_params`, `preprocess_string`, `macroexpand` | explicit stack of calls over shared `PP` fields |
| `SourceMap` | `add_adjustment_to`, `advance`, `back_up`, `lex_aux` | preprocessor writes, lexer reads |
| `Conditions` | `eval_pp_condition`, `eval_pp_expr` | line read token by token, then `Parser`, then the value |
| `Lexer` | `lex`, `lex_aux`, literals, `type_of_int_literal` | one token per step over characters |
| `Parser` | the rules of `parse.peg` as `peg.py` compiles them, `parse.c` | the grammar as data, one interpreter, one top-level item per step |
| `Declarators` | `decl_to_cdecl`, named type specifiers | operators, checked through `Parser` |
| `Layout` | struct and union layout of `decl.c` | operators of the next two |
| `Declarations` | tags, typedefs, enumerators, objects, scopes | one declaration per step over a heap of shared types |
| `Initializers` | `initializer.c`, `write_const`, `is_zero` | infer, make, clear, store, on the bytes of the object |
| `Statements` | `ir_gen_statement`, `&&`, `\|\|`, `?:`, goto fixups, jumps and phis | generated blocks run beside the C program |
| `Assembler` | `assemble`, the generated `assemble_instr`, `.rela.text` | one instruction per step |
| `Encodings` | the rows of `x64.enc`, the operands and two tables of `asm.c` | operators of `Assembler` |
| `X64Decoder` | the processor (external) | reads encoded fields back |
| `COperands` | C types and their IR types, the values of operands | operators of the next two |
| `Comparisons` | conversions, `ir_gen_cmp`, folding, fused conditions | built and evaluated beside the C value |
| `Arithmetic` | binary, unary and assignment operators, pointers: `expr.c`, folding in `ir.c`, selection in `asm_gen.c` | extends `Comparisons`; one operator built, selected and executed beside the C value |
| `Stdio` | `fopen`, `fread`, `fwrite`, `fseek`, `fclose`, `printf_impl` and its sinks | one call per action, every system call short or failing |
| `Containers` | `array.c`, `pool.c`, `bit_set.c`, `memmove`, `qsort` | raw memory beside the value it stands for |

`MC*` modules hold the inputs of TLC. `MCStackFrame`, `MCLink`, `MCSyntax`,
`MCIrGen` and `MCLibrary` check several components side by side because they
answer one question about one part of the program: a variable `view` says
which component a behaviour belongs to, the variables of the others rest at
`<<>>` or as they start, and each property is that component's property for its
view. The components share no state there, so nothing is lost against separate
runs. `Conditions` does use `Parser`: the line it has read is what the parser
parses.

### Abstractions

Control is kept: every early return, error path and assertion that can stop the
program is an outcome of an action. Data is reduced: registers, symbols, names
and tokens are model values or members of small sets; instruction operands
name only what the properties look at. Integers keep their widths, scaled by a
constant `Bits` in `Assembler` (8, 16, 32, 64 become 3, 4, 5, 7 bits) and
`Comparisons` and `Arithmetic` (2, 3, 4, 5 bits), `Conditions` (4 bits for
`unsigned long`), `Lexer` (9 and 11 bits for `int` and `long`, a significand of
4 bits, powers of ten up to 3) and `Stdio` (8 bits for `long`), so that overflow and sign extension happen at
every boundary the code has. Pointers that dangle are explicit: in
`SpillRewrite` an `ARRAY_INSERT` may or may not move the array, and the old
pointer then reads the old copy.

## 3. Runs

Every passing run checks deadlock: a component that has finished has an
explicit stuttering step, so a behaviour that stops anywhere else is an error.

| run | checks | bounds |
|---|---|---|
| `linear_scan` | `NoInterference`, `EvictionAsserts`, `ScanInv`, `PlacesAreStable` | 3 virtual registers, instructions 0..3, 2 general and 1 vector register and one outside the orders, all pinnings, overlapping ones too, symmetry over virtual registers |
| `float_call_asserts` | finding, see section 6 | the two ranges of one call |
| `live_ranges` | `AnalysisInv`, `Terminates` | all bodies of 5 instructions in the block layout of `asm_gen_function`, and of 4 with an instruction behind a JMP; register pinned to A or D |
| `live_range_too_short` | finding, see section 6 | one function |
| `library` | `HeapInv`, `OwnersKeepEntries` (`Allocator`); `StreamsRight` (`Stdio`); `ContainersRight` (`Containers`) | heap: sizes 0, 1, 8, 40, 100, 64-byte first block, two doublings, three blocks, 4 entries (3 once `mmap` has failed); streams: a file of 5 bytes, 3 calls, formats of two items; containers: arrays of up to 4 elements of 1 or 2 bytes, 4 pieces of a pool, bit sets of up to two words of 4 bits, `qsort` of up to 5 elements with 3 keys |
| `stack_frame` | `ReachedAreSaved` (`CallSpill`); `SupportedKeepValues` (`SpillRewrite`); `ArgumentsArrive`, `StackAligned`, `CallerUndisturbed` (`CallFrame`) | 3 virtual registers, at most one of them pinned, over 4 instructions with a CALL; bodies with two instructions between definitions and uses at widths 32 and 64; calls of at most 4 arguments of 5 types with 2 integer and 4 vector argument registers, and a call of five doubles, into 9 frames |
| `call_spill_pinned` | finding, see section 6 | as `CallSpill` above |
| `link` | `DecodesBack`, `SymbolsReached`, `KeptConstsEncode` (`Assembler`); `ReadBack` (`Archive`); `RelocationsResolve`, `OutcomeRight`, `SymbolsRight`, `LayoutSound` (`Linker`) | every row of `x64.enc`, eight register classes, all 128 immediates, at all widths for those instruction selection keeps, labelled modules of three instructions; at most 3 files of 0 to 5 bytes, chunk of 2; pairs and triples of objects over the names `_start` and `a`, zeroed data of 8 bytes and 16 MiB |
| `link_without_statics` | finding, see section 6 | as `link` |
| `driver` | `SuccessMeansDone`, `EveryoneExits` | two processes, one with 60 command lines; `rand` gives six names in a cycle, two processes may start at the same place in it, and none, one or all of the names are taken by files left from before |
| `syntax` | `OutputRight` (`Conditionals`); `ConditionRight` (`Conditions`); `ExpansionRight` (`MacroExpansion`); `LexedRight` (`Lexer`); `LocationsRight` (`SourceMap`); `ParsedAsMeant` (`Parser`); `Terminates` | files of up to three lines, a `#if` with four more and a seven-line pattern, and files of up to three whose last line has no newline, 4 open files; conditions with an operator in an operator; three uses of nine macros, 8 nested calls; three operator characters, literals of up to six, numbers of prefix, three digits, exponent and suffix; sources of four items; an operator in every operator, statements three deep, types derived three times, and their texts cut at every token |
| `ir_gen` | `EvaluatesAsC`, `KeepsGoing` (`Statements`); `InitializedRight` (`Initializers`); `TypesRight` (`Declarations`); `ResultRight` (`Comparisons`); `ArithmeticRight` (`Arithmetic`) | 604 programs: every statement in every other, loops, switches and gotos nested, conditional expressions three deep; objects with gaps, tails and nesting under lists of up to three elements with every designator; units of a few declarations around one struct; operands of eight integer types at their edges, floats with NaN, pointers, two comparisons around one, every operator with constant and variable operands, stored with every width |

What they show:

- **`linear_scan`.** Two values that are live at the same time and in
  registers are in different registers; a register's bit is clear exactly when
  one active range sits in it; slots are disjoint and inside the frame; once
  placed, a value moves only by eviction to the stack. Pinned ranges are
  arbitrary. The three `ASSERT`s of the pinned path fail only when two ranges
  pinned to one register overlap, and a scan that gets through has met no such
  pair; nothing else lets them fail, such as a bit lost many ranges before.
  `float_call_asserts` shows that the pair does come up. Three ranges are enough for an eviction while
  a third range is active; the proof removes the bound.
- **`live_ranges`.** The work list empties; a point is never examined again
  once live; nothing dead is called live; `largest_working_set_elem` is the
  largest element when it is read. Where no label has two jumps, every point of
  the least solution of the data-flow equations (`LivePoints`, the
  intersection of all solutions) that control may reach is found and lies in the
  range. Unreached code is what stands behind a JMP up to the next label that is
  jumped to: `asm_gen_instr` puts the moves of a folded condition there on
  purpose (`asm_gen.c:966`), and liveness does not travel through it. In
  `live_range_too_short` the equations are iterated instead, since `LivePoints`
  looks at all sets of points.
- **`library`.** Entries of the heap never overlap and lie in their block, the
  free list has no entry twice and none that is owned, all bytes used of the
  current block belong to an entry, and a call changes no entry of another
  owner. `mmap` may fail at any time; `HeapInv` is stated up to that point.
  Through any sequence of short reads `fread` delivers each byte once and in
  order; `fwrite` and `fprintf` leave exactly their data, or a part of it and an
  error; what is printed is what the format says, inside the string it is
  printed to, outside the cases section 6 names. An array
  holds its sequence through every growth and move, pieces of a pool are
  disjoint, bit sets answer for exactly their bits, `qsort` returns a sorted
  permutation.
- **`stack_frame`.** A CALL clobbers every register that a prologue does not
  push (`callee_save_registers`), whatever the mask of the pass says. Of the
  values that `vreg_index` reaches, those in general registers are then on the
  stack across a CALL, in slots of their own, and exactly those in vector
  registers are destroyed: the mask has none of them, and the only thing the code
  says of this is the "@TODO" at `reg_alloc.c:90`. Rewritten bodies output what the original
  ones did, for bodies of at most one spilled operand per instruction with one
  width per register (`Supported`). Calls deliver every argument, named
  or fetched with `va_arg`, although the callee first moves its parameters from
  register to register, but for float parameters of the upper half (with eight
  registers the fifth and later): the moves write XMM6 downwards while they read
  XMM0 upwards. The places of these moves are those the allocator gives when all
  parameters are live until they are stored, which the front end does right
  behind the moves (`ir_gen.c:317`); the stack is aligned at each CALL; callee-save registers and the
  caller's bytes are as before.
- **`link`.** The processor reads back the instruction that was meant,
  and labels reach their targets. Of the constants that instruction selection
  keeps in an instruction, at every width, exactly those of `NoRow` are refused:
  any constant of XOR, constants of OR beyond a signed byte, those of ADD, SUB and
  AND with 8 or 16 bits, of CMP with 16 bits or with 8 and a wider constant, and
  of a MOV to fewer bits than the constant has.
  The linker finds exactly the members `nar` wrote, at their
  positions. Every patched place holds the address of the definition the
  reference means; an error is reported exactly when a file is refused or the symbols
  are ambiguous or unresolved (`Linkable`); otherwise the executable is
  made if some definition is local, and an assertion fails if none is; the symbol table and the entry point are right; segments do not
  overlap at the 16 MiB boundary.
- **`driver`.** Exit code 0 means the requested outputs exist with the right
  contents whatever another process does in `/tmp`, and no temporary is left;
  every process exits: `make_temp_file` draws names until it finds one that is
  not taken, which it does if at the start the cycle of `rand` has more names than
  the files left from before and the sources of all processes (`RoomForAll`);
  without room the loop goes round for ever. `DriverAssumption` says that the command lines of
  different processes name different outputs, none of them a temporary name and
  none the input of a link: two builds that write one file are not asked about.
- **`syntax`.** The sections C99 says are taken are copied, and errors are
  reported exactly when a directive in a taken section is wrong (`Supported`),
  unless the file ends in a directive without its newline: `#if`, `#elif`,
  `#define` and `#error` then read on without end, and only they
  (`Terminates`, `OutputRight`). A condition has the value of C where C gives it
  one in unsigned arithmetic, and is refused where there is no expression, but
  for one without tokens, which may be followed as a null pointer; a line that
  does not lex is decided on its first tokens. Expansion yields the C99 text
  with parameters in scope only where they should be; `#` makes a string of the
  expanded argument instead of its spelling. A text that C divides
  into tokens is divided the same way, and each constant has the value and type
  of C99 6.4.4, outside the forms `LeftOut` names and but for the sign of
  character constants from `'\x80'` on; tokens are located where they
  stand (`Tracked`). The tree of a text is the one it was printed from, with
  precedence, casts, dangling else and derived types, and a text that ends early is
  rejected whatever lies behind it in memory.
- **`ir_gen`.** For all answers of the conditions, the generated blocks
  evaluate what C evaluates, in order; generated code does not loop silently.
  Every byte of an initialized object, on the stack or static, is the one
  C99 6.7.8 gives it, zero where nothing is given. Sizes, member offsets, names
  and the storage of locals after any sequence of declarations are those of C, also through
  types that were completed after they were used; and so is the storage of
  globals, unless they go to `.data` with a tail of padding or a union in them,
  or are arrays of arrays without an initializer (`StorageKept`).
  Branches and values are what C gives, outside six named
  cases the code leaves out: `TodoConversion` (an unimplemented conversion),
  `ConstantChanges` (a constant its type cannot hold), `NarrowToFloat`,
  `WideToFloat` (a `float` and an `unsigned long` of more than 32 bits), `HasNaN` and `BothGlobals`. An operator gives the value of C whether it is
  folded, selected with an immediate or with registers, and whatever the width of
  the variable it is stored to, outside the cases `Arithmetic` names (section 6).

Each property has a mutant in `PROJECT.json`: a changed definition that
represents a plausible slip in the code and makes TLC report the property.

### Fairness

The compiler is one thread that nothing suspends for ever, so weak fairness of
the next step is justified for `LiveRanges` and, in `MCSyntax`, for the
directive and macro views. `Driver` assumes weak fairness of each process
separately (the operating system schedules every runnable process), and none
of the order between them. In `MCIrGen` the view of `Statements` assumes that the processor executes the next
instruction (`Silent`) unless it waits for an evaluation. Safety properties use no fairness.

## 4. Proofs

Each theorem holds for every value of the constants: any number of virtual
registers, instructions, blocks, arguments, sizes, processes or files.

| module | theorem | states |
|---|---|---|
| `LinearScanProofs` | `ScanInvariant` | `Spec => []ScanInv` |
| | `TypeCorrect` | type correctness |
| | `NoInterferenceHolds` | values live together never share a register |
| | `RegistersAccountedHolds` | free bits and active list agree |
| | `SlotsDisjointHolds` | spill slots do not overlap and lie in the frame |
| | `EvictionAssertsHold` | the `ASSERT`s of the pinned path fail only for overlapping ranges pinned to one register |
| | `PlacesAreStableHolds` | no step moves a placed value except an eviction |
| `LiveRangesProofs` | `WorkListIsSound` | `Spec => []WorkListInv` |
| | `AnalysisIsRight` | `Spec => []AnalysisInv`: no re-examination, nothing too live, and the range covers the solution of the equations where labels have one jump |
| `CallSpillProofs` | `WalkIsSound` | `Spec => []WalkInv` |
| | `SavedAcrossCalls` | `Spec => []ReachedAreSaved` |
| `CallFrameProofs` | `CallFrameIsSound` | `CallSpec => []CallFrameInv` |
| | `EveryArgumentArrives` | `CallSpec => []ArgumentsArrive` |
| | `CallsAreAligned` | `CallSpec => []StackAligned` |
| | `CallerGetsItsOwnBack` | `CallSpec => []CallerUndisturbed` |
| `AllocatorProofs` | `HeapIsConsistent` | `Spec => []HeapInv` |
| | `OwnersKeepEntriesHolds` | `Spec => OwnersKeepEntries`, an action property |
| `DriverProofs` | `DriverIsSound` | `Spec => []DriverInv` |
| | `SuccessIsTrue` | `Spec => []SuccessMeansDone` |
| `LinkerProofs` | `LinkIsSound` | `Spec => []LinkInv` |
| | `RelocationsAreRight` | `Spec => []RelocationsResolve` |
| | `OutcomeIsRight` | `Spec => []OutcomeRight` |
| | `LayoutIsSound` | `Spec => []LayoutSound` |
| | `SymtabIsSound` | `Spec => []SymbolInv` |
| | `SymbolsAreRight` | `Spec => []SymbolsRight` |
| | `ArchiveIsChain` | `ArchiveSpec => []ArchiveInv` |
| | `MembersReadBack` | `ArchiveSpec => []ReadBack` |

Every inductive invariant was checked with TLC before it was proved; where it is
not the invariant a run checks, it is defined in the proof module. A proof has
one lemma per action and, under it, one step per conjunct the action
disturbs.

### Linear scan

Assumptions: `OrderAssumption` (the two allocation orders are sequences, share
no register, do not contain `NoReg` and do not contain the registers of
`Unindexed`) and `ScanAssumption` (bounds are naturals, `NoVReg` is not a virtual
register). `Init` lets ranges and pinnings be anything: ranges pinned to one
register may overlap, and one may be pinned to a register outside the orders.
Such inputs end the scan in a state that says so (`status`), and the theorems
cover it.

`NoInterference` is not inductive. `ScanInv` adds what the code relies on
without saying: `active` is sorted by end and free of duplicates
(`ActiveSorted`, `ActiveDistinct`), each element is placed in a register
(`ActivePlaced`); whatever was placed and is no longer active ended before the
range being placed starts (`ExpiredIsPast`); ranges are taken in order of
start (`StartOrder`); ranges still to come are untouched (`Untouched`); pinned
ranges are in their register or not placed yet (`PinnedInPlace`); a register has the
class of its value (`RegClassOK`); slots are handed out upwards
(`SlotsDisjoint`). A new placement then overlaps only active ranges, and they hold
registers whose bit is clear. `InsertionPointProps`, `LowestFreeProps` and
`ActivateProps` say what the helpers return, and `SeqFacts` what insertion and
removal do to a sequence.

### Live ranges

`LiveRangesAssumption`: a body is a sequence in which jumps go to labels and the
instruction above a label is a JMP or is not reached (`LaidOut`). Both come from
`asm_gen_function`, and both are needed: `Prev` follows the label's one jump
*instead of* the instruction above, so a label that can be fallen into would lose
that predecessor.

`AnalysisInv` speaks about the end of the analysis. `WorkListInv` adds why the end
is right: each list of predecessors is empty or holds one jump to that label, and
is not empty once `find_preds` has passed one (`PredsOK`); the working set holds no
live point (`WorkIsDead`), which is why the `ASSERT` on re-examination holds;
the cached maximum is right while a point is examined, too (`LargestKept`); and
whatever control may reach and one application of the equations to `live` makes
live is live already, waiting, or the point being examined (`NothingForgotten`).
When the working set is empty, `live` together with all unreached points is
then a solution of the equations, so it contains the least one. The step that adds
a point to `live` can disturb `NothingForgotten` only for the points control comes
from, and `PrevIsOnly` says that among those that are reached there is only
`Prev`. That the loop over further predecessors is never entered
(`NeverSpins`) follows from `PredsOK`: the overwritten list of the finding is also what
keeps this loop, which would not end, from running.

### Saving around calls

`CallSpillAssumption`: bounds are naturals, CALLs are instructions of the body,
`NoReg` is no register. `MaskAssumption` is what the code's tables say: the mask
has general registers only, and all that no prologue pushes; what is clobbered is
defined by the prologue, not by the mask. `WalkInv` adds to the pass's own invariant: `active` holds
only what `vreg_index` passed and what it did not pass has its place from the
scan (`WalkOK`); the index waits for a register that starts later (`IndexWaits`);
what it passed is active, over or on the stack (`PassedIsActive`); elements the
loop at a CALL has passed do not need to be saved (`PassedSurvive`), the fact the
removal of an element from the array under the loop could break; and CALLs behind
the walk clobber nothing (`VisitedSaved`), which is the property itself when the walk
ends.

### Calls and stack frames

`CallFrameAssumption`: an argument is an 8-byte integer, a 4- or 8-byte float or
a struct of any size; no struct follows the parameters (there is no `va_arg` for
one); a function that is not variadic has no further arguments; `stdarg.h`'s
limit for integers is the end of their part of the register save area, and the one
for floats is not below the end of theirs (the code has 48 and 304 for areas that
end at 48 and 176). The numbers of argument registers, the argument list, the
locals and the set of pushed registers are arbitrary. Addresses are integers: a
stack that wraps around is not considered.

Caller and callee classify arguments on their own, the caller from all of them,
the callee from its parameters. `UsedUpProps` shows that the recursion
over the list has the expected values, `PrefixUsage` that a prefix of the list
uses up what it does in the whole, and `SidesAgree` concludes that both sides
find the same class for every parameter. `UsageGrows` makes the registers of two
arguments different and their places on the stack disjoint.

`CallFrameInv` says what the machine holds at each step: both pointers
(`PointersOK`, from which alignment follows by `Geometry`), the callee-save
registers the body has not used (`SavesOK`) and the copies of those it may
(`PushedKept`), the caller's bytes (`CallerKept`), every argument passed so far
in the place of its class (`ArgsPlaced`), what the register save area has for the
variable arguments (`SaveAreaOK`), the parameters the entry MOVs have moved and
those still to be moved (`MovesOK`), the values read (`GotOK`) and the `va_list`
(`VaListOK`). That the parts of the frame do not overlap is `Geometry` again:
arguments, return address, saved frame pointer, pushed registers, padding, locals and save area follow
each other downwards. A store is then shown to keep everything from some
address on (`KeepsFrom`), and one lemma per part turns that into the conjunct.
`PushProps` counts that registers pushed from the lowest and popped from the
highest are popped from where they were pushed. Registers skipped because `al` is
0 hold no argument (`NoFloats`). A move of the lower half writes the upper half of
the vector registers only, so that the parameters of the lower half are moved
before anything overwrites them and stay where they were moved to; this is why
`ParametersArrive` speaks of these (`InLowerHalf`). `va_arg` finds the stack only if no
parameter is there, which is the case `VarArgsArrive` excludes.

### Heap

`SizesAssumption`: sizes and counts are naturals, blocks are not empty.
`HeapInv` is inductive as stated: that entries of the current block lie side by
side up to `heap_block_used` (`NothingLost`) and that `bsize` is the size of the
newest block (`BlockAccounted`) are what makes an entry carved at `used` disjoint from all others.
`MallocOutcomes` divides `malloc` into failing, reusing, carving from the
current block and carving from a new one; `free`, `realloc` and `calloc` rest on
that.

### Driver

`DriverAssumption` (section 3) constrains command lines only. Each action of a
process is shown to *behave*: it keeps what the process says of its own state
and files (`Own`), and towards the others it writes and removes only its
own outputs, temporaries it still works with, and names that no file had. `OwnFrame` and
`BehavesKeeps` turn this into `DriverInv`: no two processes work with one
temporary (`Apart`), a removed temporary exists again only if another process
has made it (`Reused`), and nobody writes what another is to link
(`InputsKept`). The loop over names in `make_temp_file` is a step per name. `Apart` rests on `O_EXCL` in `make_temp_file`. Nothing is assumed about the order in which the processes run.

### Linker

`LinkerAssumption` says of a file in the object format what
`write_elf_object_file` leaves: symbols lie in their sections, a symbol without
a definition is global, a relocation is of a place inside `.text` or `.data` and
names a symbol that is not skipped, and no two are of one place. Other files may
be anything, and number, order, sizes, symbols and relocations are arbitrary.

The properties speak of the end of a link; `LinkInv` says what holds on the
way. While files are read: every section is as long as what the files so far
add to it (`Sized`); the table holds each definition that was read exactly once,
and nothing else is defined (`TableRight`); a global name has one entry, and at
most one definition was read for it (`NamesOnce`), which is what makes the scan
for `found_symbol_index` and its error right; `file_symbols` leads to the
entries of the current file (`LocalRight`); each row that was read is stored
with the entry its symbol refers to, at the offset where its file went
(`RowsRight`), and no two stored rows are of one place (`PlacesOnce`), because
those of a file lie behind those of the files before it (`PlacesBehind`). While
the executable is written: what the entries visited so far refer to is patched,
and none of them is used but undefined (`Emitted`). Patching one entry disturbs
no other because places that differ have different file offsets
(`OffsetsDiffer`, `PatchProps`). `AllEmitted` then turns the end of the loop into
`Linkable`, with a local symbol or without, and `TargetFound` shows that the entry a row is stored with is the
definition that `Target` names. Four steps bind a symbol to an entry, appended
or found; `Bound` is what they have in common and `BindKeeps` is proved once.

`SymbolsRight` has an invariant of its own, `SymbolInv`, proved on top of
`LinkInv`. That every definition is in the symbol table exactly once needs a
count: as many entries of the table are defined as definitions were read
(`Counted`, part of `TableRight`), and `.symtab` has as many symbols as defined
entries were passed (`SymtabWritten`). Two local symbols may have the same name and address, so a
comparison of sets would not do. `LastLocalWritten` and `EntryWritten` follow
what `add_symbol` remembers. For the names, `next_string_index` must be the place
where another loop puts the next name later (`NamesWritten`); this holds as
long as no entry was ignored, which is why `NamesRight` says so. No two
strings start at one place (`StringAtProps`), so the name found there
is the symbol's own.

Where a file goes in a section, and a name among the strings, is a sum over
what comes before it, written as a recursive function. That such a function
exists, and that its values are naturals, is shown by `SumExists` and `SumProps`: a
least number for which it fails leads to a contradiction, so no induction scheme
is needed.

### Archives

`ArchiveAssumption`: the copy buffer is not empty and a file has a size unless it
cannot be opened. `nar` and the linker share nothing but positions in the
file, and each rounds them on its own. `ArchiveInv` therefore describes the
headers to a reader who knows only the rule "the next even position after the
member": headers are whole, at even positions, and their members do not overlap
(`HeadersOK`); the first is behind the global header (`ChainStarts`), every one but
the last leads to the next, the members numbered in that order and the table of
long names at the end (`ChainContinues`); and the walk has found exactly the
members before its position (`ReaderOK`). While a
member is copied, the length of the file together with the bytes left
(`Limit`) is what counts. `ReadBack` is the end of this walk.

### What only TLC checks

Liveness (`Terminates`, `EveryoneExits`, `KeepsGoing`), which needs fairness;
`Statements`, `MacroExpansion`, `Parser`, `Declarators`, `Conditions`, `Lexer`,
`Initializers` and `Declarations`, which walk trees, nested calls and texts with
recursive operators; `Arithmetic`, which uses bitwise operators; and
`SpillRewrite`, `Conditionals`, `SourceMap`, `Assembler`, `Comparisons`, `Stdio` and `Containers`, about which nothing is proved yet.

## 5. Not modelled, or partly

- *`nas`*: one pass over the lines of two hand-written files; it starts
  `Assembler` with lists of instructions and symbols. Read, not checked: a name
  must be declared before it is used, a second label on one instruction loses
  the first, `global` must stand before the label, and any beginning of
  `section`, `global`, `extern` or `bits` is taken for the word
  (`nas.c:243`–`283`), a label of that name included.
- *Object headers and string tables* (`elf.c`): a fixed sequence of writes. A
  patched place is one position in `Linker`; the four bytes behind it are not told apart.
- *Type equality, member access, `sizeof`, struct assignment* (`expr.c`,
  `c_type.c`): no model yet; *floating arithmetic*: only comparisons of floats and
  the conversions they need, and of a decimal constant the two factors whose
  product it is.
- *Inline functions and function definitions* (`ir_gen.c`) beyond their
  statements.
- *`##`, blanks and literals in macro bodies*.
- *Releasing arrays and pools, `strings.c`, one-loop string functions of the libc*;
  system-call wrappers and start-up are external.
- *Printers (`dump_*`, `ast.c`), diagnostics, build scripts*: output only.

## 6. Findings and observations

Four runs show a disagreement between a comment of the code and what it does:

- `float_call_asserts`: a call with a float argument and a float result pins
  XMM0 twice, up to the CALL and from it on (`asm_gen.c:1656`, `1680`), and the
  `ASSERT` at `reg_alloc.c:208` ("This should never happen.") fails.
- `link_without_statics`: the executable has no `STT_FILE` symbol, so that the
  `ASSERT` at `elf.c:625` ("this should never be zero") fails for objects
  without a static.
- `live_range_too_short`: `find_preds` keeps one jump per label
  (`reg_alloc.c:402`), so a live range can end before the last live point.
- `call_spill_pinned`: `vreg_index` waits for a pre-allocated register
  (`reg_alloc.c:251`), so later values stay in caller-save registers across a
  CALL.

The properties of the passing runs exclude the following cases by name, or up
to the named event. Each was seen in a TLC counterexample while the models were
written; those runs are not kept.

- Register allocation: the eighth float argument is pinned to XMM7, for which the
  index table has no entry (`reg_alloc.c:187`); values in vector registers are not
  saved across a CALL (`:69`).
- Heap: after a failed `mmap` (`allocator.c:62`) the next `malloc` carves from
  an owned block.
- Spill code: two spilled operands share one register (`reg_alloc.c:325`); a
  narrow read writes back a truncated value (`:354`), a narrow write leaves the
  upper half; `curr_sp_diff` never shrinks (`:305`).
- Linker: an ignored, declared-only symbol shifts later names (`elf.c:1253`
  and `1174`); a missing `_start` is not reported (`:427`); an unusable input is left
  out and the link succeeds (`:788`).
- Calls: a 4-byte float on the stack fails an assertion (`asm_gen.c:742`);
  `va_start` ignores parameters passed on the stack (`:1440`); the entry MOVs
  overwrite float parameters from the fifth on, and the spill register the
  eighth (`:1742`).
- Driver: a failing compilation leaves its temporaries (`ncc.c:228`); two
  sources of the same name write one object (`:217`).
- Directives: `#elif` in a conditional nested in a false one
  (`preprocess.c:545`), `#else` after a taken section and `#elif` (`:549`), the
  condition of a skipped `#elif` is evaluated (`:544`), a missing `#endif` is
  accepted (`:1052`); a directive without a newline at the end of the file is
  read without end (`:315`, `:696`, `:748`).
- Locations: number macros (`lex.c:510`), a directive or macro first in the
  file (`lex.c:63`, `preprocess.c:134`), continuations (`preprocess.c:1223`),
  names of included files (`reader.c:92`), ranges inside a macro
  (`reader.c:40`, `diagnostics.c:31`).
- Macros: an argument that cannot be expanded loses the output so far
  (`preprocess.c:1002`); `#` takes the expanded argument (`:870`, `:912`, `:1145`).
- Conditions: all arithmetic is unsigned, so `-1 < 0` is false; an unknown name is
  refused where C reads 0, and stands for 1 until then, so `0 / !U` divides
  by zero, which stops the compiler; any beginning of the word `defined` is taken
  for it (`preprocess.c:320`), and `defined` of no name is 0; a condition without
  tokens is a null pointer to `eval_pp_expr` (`parse.c:716`, `preprocess.c:402`);
  the result of `lex` is ignored (`preprocess.c:381`).
- Lexer: digraphs, `0X`, `09.5`, octal escapes that do not start with 0 or that
  more digits follow, and `\?` are not known; `'\x81'` is 129, although `char` is
  signed (`c_type.c:143`); octal and hexadecimal constants are
  never unsigned, and one of 2^63 or more is typed after a cast to signed
  (`c_type.c:325`); `1f` and `1lll` leave tokens whose type is an assertion
  later; exponents beyond 22 are unimplemented (`lex.c:743`); `'''"'` passes
  the preprocessor and keeps the string loop busy for ever (`lex.c:299`).
- Parser: `int (*p)[3]` becomes an array of pointers and `f(int *[2])` is
  rejected; typedef names have no scope; nothing may follow a compound literal;
  the width of a bit-field takes a comma (`parse.peg:79`); a list may end in its
  separator, as in `f(a,)`.
- Declarations: a typedef copies an incomplete struct, which is never completed
  (`ir_gen.c:226`); a typedef of an open array is completed by its first object;
  the first declaration of a global fixes its IR type (`decl.c:80`);
  `char x[][2];` is accepted as one row (`c_type.c:250`); tags have no scope
  (`decl.c:262`); redeclarations are not diagnosed; a pointer is never zero
  (`asm_gen.c:2015`), so that a global that holds one is written to `.data`, without
  the padding behind its last field (`:1988`).
- Initializers: `.a.x = 1, 2` goes on in the outer object (`initializer.c:95`);
  an object followed by a designated part of it (`:156`); union members in
  member order (`:314`); a string shorter than its array is read behind its end
  (`:31`); missing rows of arrays of arrays (`:447`, `:477`); the tail of a
  static struct is not written (`asm_gen.c:1987`), and static unions are
  written as structs.
- Arithmetic: small types are not promoted; unsigned division is selected as
  signed; `>>` of negative numbers shifts zeros in; both operands of a shift are converted
  to a common type; `~` is typed `int`; folded constants keep 64 bits; a
  negative `int` index is not sign-extended; `x %= y` is unimplemented.
- Streams: after a short write the whole length is asked for again, from
  behind the data (`fwrite.c:16`); `fseek` never reports success; `fopen` leaves the
  flags of the stream unset; a failing sink is forgotten behind a sign;
  `sprintf` counts one byte too many; `snprintf` terminates the string behind its end
  when the text is longer; `%` at the end of a format makes `sprintf` write before
  its string.
- Containers: `_array_append_elems` counts the end in bytes, which its users,
  all with elements of one byte, do not notice (`array.c`).
- Statements: labels are looked up over all functions (`ir_gen.c:72`).
- Assembler: offsets from 2^31 on are read back negative (`asm.c:591`); the
  constants of `NoRow` are kept and have no encoding (`asm_gen.c:403`): `x ^ c`,
  `x | c` beyond 8 bits, arithmetic of 8 and 16 bits.
- Comparisons: two constant floats (`ir.c:570`), the address of a global with
  itself (`expr.c:770`) or on the left (`asm_gen.c:562`), NaN
  (`expr.c:792`), small unsigned integers to float (`asm_gen.c:1184`), the high
  half of an `unsigned long` converted to `float`, which `MULSS` multiplies with
  the low half of a double, 0 (`asm_gen.c:1220`).

## 7. Plan

The order was: register allocation first, since every compiled program rests on it
and its bugs are the hardest to see; then what shares the stack frame with it;
then heap, linker, driver, preprocessor; then code generation; then the front
end (lexer, conditions, parser, declarations, initializers, arithmetic) and the
library code (streams, containers). All of this is written. What is left:

1. *Proofs*: the arrays of `Containers`.
2. *Composition* of `LinearScan`, `CallSpill` and `SpillRewrite` over one `VReg`
   array, with the abstract specification "the body computes what it did before
   allocation".
3. Member access and struct assignment in `Arithmetic`'s setting, type equality,
   `nas`.
