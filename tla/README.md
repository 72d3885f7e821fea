# xtools: a TLA+ verification project

xtools is a small tool chain for a 16-bit machine: a C compiler (`xcc`), an
assembler (`xasm`), a linker (`xlnk`), a librarian (`xar`) and two emulators
(`xemu` and `pso`).  The tools are written in the subset of C that `xcc`
compiles, so every tool runs twice: natively on the host, and compiled by
itself on an emulator.

This directory holds TLA+ models of the programs, the TLC runs that check them
on small instances and TLAPS proofs of what should hold for every instance.

## The system

| part | state it keeps | operations | interacts with |
|---|---|---|---|
| identifier table (`dohash` in xlnk, xar, xasm, xcc) | an open-addressed hash table that stores a trie: character, parent slot | look up or insert an identifier, read a slot back as a string | every other table of the tools refers to identifiers by slot |
| `xlnk` | command-line files (`file1`), linked modules (`file2`), symbols (`name`), relocation stack, image position | pass 1, library search, relocation, pass 2 | reads objects of xasm and libraries of xar, writes images |
| `xar` | header, symbol index and file table in memory; library, backup and temporary on disk | create, add/replace, delete, extract, list | library format shared with xlnk |
| `pso` XFILE | a window on a host file: `buf`, `bufpos`, `buflen`, `bufofs`, `filpos`, `dirty` | fopen, fread, fwrite, fseek, ftell, fclose | supervisor calls of emulated programs |
| `pso` PCB / KERNEL, `do_svc` of `xemu` | handle table, files of the host | supervisor calls (file I/O, exit), event | XFILE, CPU |
| `pso` CPU / ALU / MMU, `xemu` | registers, condition code, memory | one instruction; loading a program with its arguments | KERNEL |
| `xasm` | names, macros, include and condition stacks, segment positions, data buffer | statements of two passes, expressions to relocation code | reads the output of xcc, writes objects |
| `xcc` | identifiers, macros, scopes, where operands are, registers, labels, stack depth, switch table | declarations, statements, expressions | writes assembler source |
| `lib` | none to speak of | printf, scanf, strings, file wrappers, command-line splitting | linked into every compiled program |

Nothing here is concurrent.  What is hard is sequence: long runs of legal
operations on tables and windows; the order in which a library is searched;
two passes that must agree; boundaries (full tables, 16-bit words read with a
sign); and, in `xar`, a crash between the steps of replacing a library.
`PROJECT.json` lists these hazards at their lines.

What makes each part correct:

* identifier table: one identifier, one slot, for ever; the string comes back.
* xlnk: all that is needed from a library is taken and nothing else; segments
  of modules do not overlap; each byte and reference of the input is in the
  image where it belongs; status 0 means what it says.
* xar: the library is a set of modules with an index that leads to whole
  objects, before and after every command and crash.
* XFILE: a buffered file is a file.
* xasm: what it emits makes the linker produce the bytes the source means.
* emulators: the same instruction and the same supervisor call do the same
  thing in both; what a program wrote is on the disk when it ends.
* xcc: the code computes what the C source says, and gives registers, stack
  and labels back in order.

## Modules

| module | models | 
|---|---|
| `Words` | 16-bit words (a byte has `BYTE` values), `unsigned_GT` of xlnk2.c |
| `WordsProofs` | theorem about `unsigned_GT`; inductions over the naturals for the other proofs |
| `NameTable` | `dohash`, `lbdohash`, `soutname` |
| `NameTableProofs` | theorems about `NameTable` |
| `Linker` | `xlnk1.c`, `xlnk2.c` |
| `LinkerProofs` | theorems about `Linker` |
| `Library`, `Archive` | what a library promises; `xar1.c`, `xar2.c` |
| `ArchiveProofs` | theorems about `Archive`, the refinement of `Library` among them |
| `File`, `XFile` | what a file promises; `pso/file.cpp` and the fseek call of `pso/kernel.cpp` |
| `XFileProofs` | theorems about `XFile`, the refinement of `File` among them |
| `Preprocessor` | includes, macros, conditions and the two passes of `xasm1.c`; the same functions in `xcc1.c`, `xcc2.c` |
| `PreprocessorProofs` | theorems about `Preprocessor` |
| `Assembler` | `xasm2.c`, `xasm3.c` and the output of `xasm1.c`, behind the preprocessor |
| `Tools` | `Assembler` and `Linker` in a row, and what a source means |
| `Isa` | the machine both emulators implement: operation codes, host arithmetic, `pushArgs` |
| `Xemu` | `run()` of `xemu.c` |
| `Cpu` | `CPU::tick()` of `pso` with ALU, MMU and context |
| `Emulators` | both, side by side |
| `EmulatorsProofs` | theorems about `Emulators` |
| `Handles` | PCB, the file calls of `supervisor()` and of `do_svc()`, side by side |
| `HandlesProofs` | theorems about `Handles` |
| `Codegen` | `xcc2.c`, `xcc3.c` and the output of `xcc1.c`, behind the preprocessor |
| `Compiler` | `Codegen` with `Xemu` as the machine, and what a program means |
| `MC...` | the instances for TLC |

**NameTable.**  `nchar` and `ntab` are the columns NCHAR and NTAB.  A call is a
sequence of steps, one per pass through a loop body: `NextChar` (the outer
loop: where the probe for the next character starts), then `Found`, `Insert`
or `Collide` (the three branches of the inner loop), then `Return`.  `bound`
and `spell` are auxiliary: what each identifier was given and what each slot
stands for.  No action's guard reads them.

**Linker.**  `in` is one invocation: arguments, object files (sequences of
REL commands, one record per command), libraries (sets of modules), options
and the order in which the slots of the name table list the symbols, which
the scan of a library follows.  `pc` says where `process()` is.  Actions
`File1Object`, `File1Library` and `Scan*` are its loops, `P1*` the cases of
`dopass1`, `P2*` those of `dopass2`, `doreloc` the placing of segments.
Symbols are looked up by name: the table behind them is NameTable.  Byte and
word forms of a command (REL_PUSHB/REL_PUSHW) are one command here, with the
value the linker reads; Assembler writes the value that the linker will read
back from a byte form.  A command that takes more than is on the stack reads
and writes in front of `stack[]`: it is reported, and the behaviour ends there
(`P2Underflow`).  Words wrap as in the compiled tool.

**Archive** has the three files, the tables in memory, and a step for each
write, unlink and rename.  An object is its name, its version, the symbols it
defines and its length; the bytes of a library are cells that say which byte
of which object they are, so that a wrong offset shows.  `Crash` may happen at
any step.  `Restore` is the user who, after a crash between the two renames,
renames the backup.  Until then no command is started (`Usable`): xar would
take the library for a new one and unlink the backup.  Offsets are as on the
host (ints wider than the words of the file).

**XFile** has one byte moved per step.  `disk` and `ospos` are the host's file.
`SeekOK` says which seeks programs do; each run chooses.  A program reading a
file open for writing, or the reverse, ends the emulator and is left out, as
is the byte-count arithmetic of `siz * cnt`.

**Preprocessor** has one step per source line.  A source is a main file and the
include files that exist; a line is a directive or a statement of one word,
and a macro stands for at most one word, which is enough for a macro to stand
for nothing, for another name, for itself, for a number or for `.END`.
`conds` (whether the branch of each open condition is taken) and `got` (the
statements delivered in each pass) are auxiliary.  `inchdl` survives the end
of a pass, as in `main()`.  Two things of the code that are easy to miss are
in the model: the name in a `#define` is itself expanded first, and
conditions are counted across files.  Comments over several lines (xcc only),
quotes and over-long lines are left out.

**Assembler** takes one statement per action, in pass 1 and again in pass 2.  An
expression is given as its operands and operators in the order in which
`xplng1()` and `primary()` finish them; that order is all the relocation code
depends on.  A label stands on a line of its own: behind a name that is
linked elsewhere (`LINK`) xasm ignores the rest of the line (xasm2.c:519), and
here there is no rest.  Integers are the host's and are cut where they are written.
`sto_data` and `sto_cmd` build the object out of the very records `Linker`
reads, so in **Tools** the object file is passed on as it is: byte forms of a
push (`REL_PUSHB` and its like) carry the byte that the linker will read back.
What a source means (`Place`, `Meaning`, `Contents`) is worked out from its
lines alone, without passes, relocation code or buffers.

**Isa, Xemu, Cpu, Emulators.**  A machine is a record; `step` and `tick` execute
one instruction.  A cell of memory is a byte, tagged with a mnemonic when it is
an operation code.  Xemu's registers are words; pso's are ints of the host,
cut only in memory and where the code masks them, so values outside of a word
survive in them.  `Differs` lists the instructions on which the emulators
cannot agree; `Lockstep` says that the list is complete.  Undefined behaviour
of the host ends the comparison.  Files are in Handles; here a call answers
something.

**Handles.**  One program, two emulators, each with its own disk.  A record is
the unit of data, and what is written waits in a buffer until it is flushed
(pso at any time, by XFILE; xemu by the host).  A call moves one item, of a
record or of nothing (`siz` is 1 or 0).  `log`, what was written to each file,
is auxiliary.  The contents of a file that the two are compared by are what is
on the disk followed by what waits.  The standard handles and OSINFO are left out.

**Codegen** has one action per point at which the parser of xcc does something:
an operand, an operator, the places between the parts of a statement.  The
locals `lval[]` of the active functions are the stack `vals`, their other
locals (labels, saved stack pointers) the stack `locals`.  Registers, locks,
label numbers, `csp`, the symbol table and the switch table are as in the
code.  **Compiler** turns program trees into those points, lays the emitted
instructions out in memory, runs them on `Xemu`, and compares with an
evaluator that works on the tree.  A label is its address there: how xasm
treats an equate is the business of Tools.

**Abstract specifications.**  `Library` is a set of objects without clashes;
`Archive` is shown to implement it (`ImplementsLibrary`) with the library on
disk, or the backup while the names change, as the contents.  `File` is a
sequence of bytes with a position; `XFile` is shown to implement it (`IsFile`)
with the host's file overlaid by the dirty window as the contents.

## Runs

| run | bounds | shows |
|---|---|---|
| `nametable` | 7 slots, 3 characters, 7 identifiers up to 3 characters | `UniqueValue`, `ValueStable`, `RoundTrip`, `OverflowOnlyWhenFull`, `CallEnds` |
| `linker` | main + 3 modules in 27 shapes, 5 command lines, 4 symbol orders, with and without -u; 14 odd objects; words of 256 values; FILEMAX 6, STACKMAX 3 | `LibraryClosed`, `PullsNeeded`, `CleanExit`, `InOwnSegment`, `CursorFollows`, `ImageFaithful`, `Terminates` |
| `xfile` | window of 2, files up to 5 bytes, words of 16 values; reads with seeks inside the file, writes in order | `IsFile`, `FilposExact`, `ReadsFile`, `SeekReturns` |
| `xfile_image` | seeks on files being written | violation: bytes already written change |
| `archive` | 3 modules, 2 versions each, 3 symbols | `ImplementsLibrary`, `IndexConsistent`, `ExtractFaithful` |
| `archive_table` | 4 modules, FILEMAX 4 | violation: the file table overflows |
| `preprocessor` | all sources of up to 5 conditional lines, up to 4 definitions and uses, 3 lines with 8 include files; MACMAX 3, MACQMAX 6 | `SkipExact`, `SamePasses`, `MacroStable`, `Terminates` |
| `tools` | sources with every statement, operand and error, in one module and in two that refer to each other; DATMAX 8, FILEMAX 4, STACKMAX 5, words of 256 values | `ImageMeans`, `PlacesAgree`, `StackBalanced`, `AssembledLinks` |
| `tools_equate` | an equate to a label further down | violation: the name is 0 |
| `emulators` | programs of up to 12 instructions over operands at the edges of a word; 4 registers, bytes of 4 bits, host ints of 16 | `Lockstep`, `PairRestores`, `ArgsInPlace` |
| `handles` | every sequence of calls with 2 names, 2 slots in pso, 3 in xemu, 2 files created, 2 records written | `SameFiles`, `SameReturns`, `NothingLost` |
| `compiler` | about 1,260 functions: every operator on operands in every place, conditions nested in each other in every position, calls, memory, blocks, switches, refusals; 11 registers, words of 1024 values | `CompiledMeans`, `CallerKeeps`, `RegistersReleased`, `LabelsOnce` |

Why the bounds are enough.  The name table needs one slot more than it has, so
every probe length, a full table and an overflow occur.  In the linker three
modules give every pattern of need that matters to the search (a chain, a
cycle, a need for an earlier slot, a clash with a symbol pulled along), and
four orders put each symbol before and after the others; one object is larger
than half the address space, so that its size has the sign bit.  A window of two
bytes has a first, a last and a middle position, and files of five bytes span
three windows.  Five conditional lines hold two nested conditions with an
`#else` of either and a line after it; both macro tables overflow in some
sources and just fit in others.  In the library three modules are the least in which deleting
one renumbers another and leaves a third alone.  In the tools a data buffer
of eight overflows in the middle of a word and of an instruction; two modules
give references forwards, backwards and across.  In the emulators a host int
has twice the bits of a word, as in the code, so a value can leave a word and
come back; the sign bit is reached by stack addresses and by arithmetic.  Two
slots are the least in which one can be reused while the other is open.  The
compiler's five free registers run out in some functions.

Fairness.  Every program is sequential; a step that can be taken is taken:
weak fairness of the whole next-state relation (Linker, Preprocessor), of the steps of a
call once it has begun (NameTable), of the seek loop (XFile).  Nothing is
assumed of users: no call ever has to be made.

Deadlock is checked in `archive` and `xfile`.  The other programs stop when
they are done, and the name table when it is full.

### Inputs that are left out of the passing runs

The models follow the code on these inputs too, but for the two of `for` below;
the properties do not hold on them.  The lines are those where it happens; the hazards in `PROJECT.json`
name them too.

* xlnk: `REL_DSB` with a count of 0x8000 or more is not skipped in the image
  (`CursorFollows`, xlnk2.c:499).
* XFILE: a seek to the end of the file makes one byte too many readable
  (`ReadsFile`, file.cpp:196); an offset with the sign bit never returns
  (`SeekReturns`, kernel.cpp:170).
* xar: a module whose offset has the sign bit is copied from elsewhere
  (`ExtractFaithful`, xar1.c:236).
* xasm: what follows an `.END` inside an include file is read by pass 2
  (`SamePasses`, xasm1.c:784); a negative constant that fits a byte and has a
  name is linked unsigned (`ImageMeans`, xasm1.c:908); an equate to an
  expression with names leaves its value on the linker's stack
  (`StackBalanced`, xasm2.c:504).
* emulators: the answers of fseek (pso the position, xemu 0, file.cpp:198) and
  of fread and fwrite of items of size 0 (pso -1, xemu 0, file.cpp:106 and 142)
  (`SameReturns`); ends of pso that close no file (`NothingLost`, kernel.cpp:93,
  file.cpp:110); the instructions of `Differs`; arguments larger than the room
  below the initial stack pointer, which `pushArgs` writes before the start of
  `image[]` (`ArgsInPlace`, xemu.c:205 and cpu.cpp:455).
* xcc: `f() + g()`; a comparison that waits while code is emitted; `break` and
  `continue` in `do`, `continue` in `for`; `for` without a condition, or
  with a third expression that has been a comparison and leaves its labels in
  the `lval[]` of the condition (xcc2.c:704; the model has no such `for` and
  keeps the labels of the condition); a `switch` without cases; `x && f(y);` as a
  statement; declarations behind the last statement of a block; prototypes;
  compound assignments to a char whose value is used (`CompiledMeans`,
  `LabelsOnce`, `CallerKeeps`; xcc2.c and xcc3.c at the lines of the hazards).

## Proofs

Proved with TLAPS, for every value of the constants.  A theorem named here is
in the module of its heading.

**NameTableProofs**: `TypeCorrect`, `ValuesUnique`, `ValuesStable`,
`OverflowsWhenFull`, `ReadsBack`.  Assumed: the size of the table is prime
(used by `OverflowsWhenFull` alone), character codes are between 1 and the
table's size, `?` is in no identifier, identifiers are not empty.  Uniqueness
alone is not inductive.  The invariant `IInv` adds that different used slots
spell different identifiers (`Spelling`), that a slot is found by its own
probe sequence, all slots before it being used (`Reachable`), that a running
probe has met only used slots that do not match (`Tried`), that the slot
reached so far spells the part consumed (`Running`), and that bound
identifiers are spelled by their slots (`Binding`).  The heart is
`NotYetThere`: when a probe meets a free slot, no used slot spells the
identifier wanted, because it would lie on the probed path before a free slot,
or have been met.  For the overflow, a probe that is back at its start has
taken as many steps as there are slots, and multiples of a step are distinct
modulo a prime (`Started`).  For the way back, following the parent slots
reaches a root (`Roots`).

**WordsProofs**: `UnsignedCompare`, `unsigned_GT(i, j)` is `i > j` for words of
every even byte size.  The linker's sizes rest on it.

**PreprocessorProofs**: `TypeCorrect`, `SkippingExact`, `MeaningsStable`,
`PassesAgree`.  Assumed: `.END` is an identifier, sources consist of lines.
The invariant is `TypeOK`, `SkipExact` and `FirstExists`: a name with entries
has a first one, which is what makes `findmac` a function of the entries
already there.  `SkipExact` is inductive because it speaks of all levels below
`skiplevel`, so that it says what is left when a level closes.  `PassesAgree`
has the hypothesis `EndsLast`: pass 1 does not stop in the middle of an
include file (see the inputs left out, above).  Its argument: what a line does
is a function `After` of the source and of what the preprocessor remembers
(`View`), so pass 1 leaves a trace, and pass 2, which starts in the same view,
walks along it (`SInv`).

**XFileProofs**: `FilposIsExact`, `ReadsTheFile`, `ImplementsFile`.  The first
needs that no seek goes before the start of a file (`ForwardSeeks`), the other
two that programs seek only inside files they read (`InputSeeks`); the
findings and the inputs left out say what happens otherwise.  The invariants
are `Exact` (the window starts where the position says, and `filpos` is where
the host is) and, per direction, `Reading` (the window is what the file holds
there) and `Writing` (the bytes not yet written are those behind the end).
`ImplementsFile` shows every step to be one of `File` or none at all, with the
refinement mapping of the runs.

**HandlesProofs**: `Durable` (`NothingLost`), `FilesAgree` (`SameFiles`),
`AnswersAgree` (`SameReturns`).  `SameFiles` includes the contents of every
file; `SameReturns` is about every call but fseek and those on items of size 0.
`HInv`: in each emulator a slot in use has a
file of its own, what is on the disk followed by what waits in the buffer is
what was written (`Sound`), and the two are `Alike` until pso refuses an open.

**LinkerProofs**: `LinkInvariant`, `LibrariesClosed`, `OnlyNeededPulled`,
`ExitIsClean`, for every input that satisfies `InputOK` (the objects are well
formed, no library defines a symbol twice).  `LInv` says where every symbol's
entry comes from (`Origin`), that all that was read is in the table (`Known`),
that a module pulled from a library has defined a symbol or has one still to
define further down (`Pulled`), and what the current scan has left behind
(`Scanning`).

`InsideItsSegment`, `CursorInStep` and `SegmentsApart` are about positions.
They need that no position wraps: `ObjectsFit` (no offset in an object passes
the end of a word, and the counts of `.DSB` are positive as ints) and
`ImageFits` (no segment that is written ends beyond the memory); the code
checks neither.  `Walk` gives the segment and offset of each command of an
object by itself.  `WInv`: in pass 1 the position of the current segment is
the one `Walk` gives, and what lies before is covered by a length or by a
position (`Reached`); a module read to its end has lengths that cover all its
offsets (`Measures`); in pass 2 the image position is base plus that offset
(`Follows`).  `doreloc` gives the n-th segment the sum of the lengths before
it, so that segments are apart (`Apart`).

`ImageIsFaithful` (`ImageFaithful`) is the end-to-end result.  It rests on
both invariants and, besides `ObjectsFit` and `ImageFits`, on `AllStoreOnce`:
no object fills a place twice, except with data over an earlier `.DSB` (of two
stores in one place the second wins, as `.ORG` allows).  The objects of the
run `linker` satisfy it.  `MInv`: until the segments are placed, a
definition that was read is its symbol's entry (`Values1`); afterwards its
value is offset plus base (`Values2`); behind a `REL_SYMBOL` that value is on
top of the stack (`Stacked`); what the commands of pass 2 carried out so far
were to store is in the image (`Writes`), and so is the jump (`Jump`).  A step
that writes disturbs nothing of it, because no two commands have a place in
common (`OwnPlace`): those of two segments by `Apart`, those of one segment of
one module by `AllStoreOnce`.

**ArchiveProofs**: `ArchiveInvariant`, `LibraryIndex`, `ExtractsModule`,
`ArchiveImplementsLibrary`, from `FitsInWords` (a library of FILEMAX modules
stays below half a word: xar checks nothing of the kind, see the inputs left
out).  `AInv`: the library and the backup are laid out as whole objects with
an index that leads to them (`Good`); while a command runs, the tables in
memory plan a library one command away from the present one (`Plan`, `StepTo`)
and the temporary file is that library's beginning (`Copied`).  Only the last
rename is a step of `Library`.

**EmulatorsProofs**: `Alikeness` (`Lockstep`), `PairsRestore`
(`PairRestores`), `ArgumentsArrive` (`ArgsInPlace`).

Assumed of the machine (`HostAssumption`): a byte has a multiple of `NREG`
values, so that a register's number is its low bits; a host int holds whole
words; a word has a bit for every register of a mask; a supervisor call
answers an int.  The code has 256, 16, 32 bits and 16 bits there.  Assumed of
an invocation (`InvocationAssumption`): the file fills the memory, `argv[]`
has the program's name at least, and the arguments fit below the stack pointer
they are pushed on (see the inputs left out).  TLC evaluates both.
`Alikeness` and `PairsRestore` have the hypothesis `BitsByBit`: the low word
of an OR, AND or XOR of two ints is that of the low words.  In C this is what
these operators mean; in the model they are the constant `Bits`, which the
instances define as a sum over the positions of the bits.  It ranges over all
pairs of ints, too many for TLC to evaluate on every run, so it is a
hypothesis of the theorems and no ASSUME.

`Lockstep` is nearly inductive.  `EInv` adds the types of both machines
(registers of xemu are words, those of pso ints of the host) and says `Alike`
for the whole state, the condition codes with it.  `LockStep` is the step: one
instruction executed by `Alike` machines, on which they do not differ, leaves
them `Alike`.  It goes through the classes of operation codes.  Arithmetic
respects congruence modulo a word (`SameSum`, `SameProduct`, ...), except for
division and right shift, which see the whole int, and that is what `Differs`
lists; the zero test of the ALU sees the whole int too, hence `Inexact`.  The
loops of PSHR and POPR are compared register by register (`LoopPshr`,
`LoopPopr`).

`PairRestores` is about every state, also those after the machines have come
apart.  In pso the k-th register pushed is k words below the old stack pointer
(`Saved`), no two of them in one place since the registers of a mask need less
than the memory, and the loop of POPR finds each where it was left
(`Restored`).  xemu is shown to do the same by running it next to a pso in the
same state.

For `ArgsInPlace` the strings, `argv[]` and the frame are shown to be next to
each other and disjoint (`Laid`, `Layout`), with the start of the k-th string
behind the strings before it (`Used`); a write in one part then leaves the
others as they are (`Args`).

Inductions.  The induction theorems of the library take an operator, which
none of the installed provers instantiates.  Where an induction over the
naturals is needed, it is made with a least counterexample (`LeastNat` in
WordsProofs, from `WFMin`); in this way a recursive function gets its equation
(`RunExists`), and `curpos`, `Walk`, `soutname`, `Used` and the loops of PSHR
and POPR are reasoned about.  Recursive operators remain out of
reach.

Only model-checked: liveness (`CallEnds`, `Terminates`, `SeekReturns`), which
needs ENABLED; and all of Tools and Compiler.  Compiler works out what a
program tree means with recursive operators, so no theorem can be stated there
(`CompiledMeans`, `CallerKeeps`, `RegistersReleased`, `LabelsOnce`).  Of
Tools, `StackBalanced` counts with a sum over a set that takes an operator;
`ImageMeans`, `PlacesAgree` and `AssembledLinks` follow recursive functions
through both passes of the assembler and on through the linker, and
`AssemblerTypeOK` has the assembler's statements as cases: none of these is
proved.

## Not modelled

Listings, messages, the monitor of the emulators and the text form of objects
(`-d`): they change no state.  `asm()` in xcc, which copies text.  OSINFO and
osprint.  The spelling of numbers and characters.  The run-time library `lib`:
pure functions on strings.  `PROJECT.json` gives the reason for each.

## Plan

All parts with a state of their own have a module.  Left:

1. Proofs: `AssemblerTypeOK` and `PlacesAgree`, from an invariant of
   `Assembler`; `RegistersReleased` from one of `Codegen`, stated in a module
   that leaves Compiler's recursive operators out.
2. `Compiler` with `Tools` between the code and the machine, so that equates
   are those of xasm.
