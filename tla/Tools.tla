------------------------------- MODULE Tools -------------------------------
(***************************************************************************)
(* xasm and xlnk in a row: every module of a program is assembled, and if  *)
(* no assembly reports an error the objects are linked.  This is what the  *)
(* makefiles do.  The object file is all that passes between the programs. *)
(*                                                                         *)
(* The properties compare the image, and the object on the way to it, with *)
(* what the source says, worked out here without passes, relocation code   *)
(* or buffers.                                                             *)
(***************************************************************************)
EXTENDS Linker, FiniteSetsExt

CONSTANTS
  DATMAX, JUNK, Fold(_, _, _),  \* see Assembler
  Programs                      \* sources by module name

\* The command byte of a run of data holds its length below its top bit.
ASSUME DatbufAssumption == DATMAX \in 1..(BYTE \div 2)

VARIABLES
  program,  \* what is being built: never changed
  module,   \* the module being assembled; NONE when linking has started
  src, asm  \* the assembler

A == INSTANCE Assembler

asmvars == <<program, module, src, asm>>
linkvars == <<pc, loops, file2, name, errflag, ip, curseg, pass2vars>>
allvars == <<vars, asmvars>>

Modules == [k \in DOMAIN in.args |-> in.args[k].file]

ToolsInit ==
  /\ program \in Programs
  /\ in \in {x \in Inputs : \A k \in DOMAIN x.args :
                              x.args[k].file \in DOMAIN program}
  /\ initialize
  /\ module = in.args[1].file
  /\ src = program[module]
  /\ asm = A!Fresh

\* One step of xasm.
Assemble == module # NONE /\ A!Next /\ UNCHANGED <<vars, program, module>>

\* A module without errors: its object is there, and the next one follows.
Position(m) == CHOOSE k \in DOMAIN Modules : Modules[k] = m

Assembled ==
  /\ module # NONE /\ asm.pc = "exit" /\ ~ asm.err
  /\ in' = [in EXCEPT !.obj = [m \in DOMAIN @ \cup {module} |->
                                 IF m = module THEN asm.obj ELSE @[m]]]
  /\ IF Position(module) < Len(Modules)
       THEN /\ module' = Modules[Position(module) + 1]
            /\ src' = program[module']
            /\ asm' = A!Fresh
       ELSE module' = NONE /\ UNCHANGED <<src, asm>>
  /\ UNCHANGED <<linkvars, program>>

Link == module = NONE /\ Next /\ UNCHANGED asmvars

ToolsNext == Assemble \/ Assembled \/ Link

ToolsSpec == ToolsInit /\ [][ToolsNext]_allvars

-----------------------------------------------------------------------------
(***************************************************************************)
(* What a source means.  Places and values are found from the statements   *)
(* alone: segment and offset of a line from the lines before it.           *)
(***************************************************************************)

LineOf(s, l) ==
  CHOOSE k \in DOMAIN s : s[k].k \in {"label", "equate"} /\ s[k].sym = l

DefinesName(s, l) ==
  \E k \in DOMAIN s : s[k].k \in {"label", "equate"} /\ s[k].sym = l

Length(l) ==
  CASE l.k = "opcode" -> A!SizeOf(l.opc)
    [] l.k = "dc" -> l.size * Len(l.items)
    [] l.k = "ds" -> l.size * l.e[1].v
    [] OTHER -> 0

\* Segment and offsets before line k.
Place(s) ==
  LET at[k \in 1..(Len(s) + 1)] ==
        IF k = 1 THEN [seg |-> "CODE", pos |-> Zero] ELSE
        LET p == at[k - 1]
            l == s[k - 1]
        IN  CASE l.k = "segment" -> [p EXCEPT !.seg = l.seg]
              [] l.k = "org" /\ l.e[1].t = "num" ->
                   [p EXCEPT !.pos[p.seg] = l.e[1].v]
              [] l.k = "org" /\ l.e[1].t = "sym" ->
                   LET q == at[LineOf(s, l.e[1].sym)] IN
                   [p EXCEPT !.seg = q.seg, !.pos[q.seg] = q.pos[q.seg]]
              [] OTHER -> [p EXCEPT !.pos[p.seg] = @ + Length(l)]
  IN  at

\* The address of offset pos of a segment of the m-th module linked.
Address(m, seg, pos) == Add(file2[m].base[seg], pos % WORD)

\* The exported label l of the program.
Exporter(l) ==
  CHOOSE m \in DOMAIN file2 : \E k \in DOMAIN program[file2[m].file] :
    LET s == program[file2[m].file] IN
    s[k].k = "label" /\ s[k].sym = l /\ s[k].ext

LabelAddress(m, l) ==
  LET s == program[file2[m].file]
      p == Place(s)[LineOf(s, l)]
  IN  Address(m, p.seg, p.pos[p.seg])

\* The word an expression on line k of module m stands for, ofs bytes into
\* what the line stores.  An equate is a number or another name.
Meaning(m, k, ofs, toks) ==
  LET s == program[file2[m].file]
      OfName(l) == IF DefinesName(s, l) THEN LabelAddress(m, l)
                   ELSE IF l \in Absolute THEN AddressOf(l)
                   ELSE LabelAddress(Exporter(l), l)
      OfSymbol(l) ==
        IF ~ DefinesName(s, l) \/ s[LineOf(s, l)].k = "label" THEN OfName(l)
        ELSE LET t == s[LineOf(s, l)].e[1]
             IN  IF t.t = "num" THEN t.v % WORD ELSE OfName(t.sym)
      Here == Place(s)[k]
      st[n \in 0..Len(toks)] ==
        IF n = 0 THEN <<>> ELSE
        LET o == st[n - 1]
            t == toks[n]
            d == Len(o)
        IN CASE t.t = "num" -> Append(o, t.v % WORD)
             [] t.t = "sym" -> Append(o, OfSymbol(t.sym))
             [] t.t = "point" ->
                  Append(o, Address(m, Here.seg, Here.pos[Here.seg] + ofs))
             [] t.t = "neg" -> Append(SubSeq(o, 1, d - 1), Sub(0, o[d]))
             [] t.t = "not" -> Append(SubSeq(o, 1, d - 1), Sub(WORD - 1, o[d]))
             [] t.t = "op" -> Append(SubSeq(o, 1, d - 2), Alu(t.f, o[d - 1], o[d]))
  IN  st[Len(toks)][1]

\* The bytes line k of module m puts into the image.
WordOf(m, k, toks) == Bytes(Meaning(m, k, 0, toks))

OperandBytes(m, k, shape, arg) ==
  CASE shape = "reg" -> <<Byte(arg.r)>>
    [] shape = "imm" -> WordOf(m, k, arg.e)
    [] shape = "mem" -> Append(IF arg.e = <<>> THEN Bytes(0) ELSE WordOf(m, k, arg.e),
                               Byte(arg.r))

ItemBytes(m, k, x) ==
  LET size == program[file2[m].file][k].size
      item == program[file2[m].file][k].items[x]
      w == IF item.t = "chr" THEN item.v % WORD
           ELSE Meaning(m, k, (x - 1) * size, item.e)
  IN  IF size = 1 THEN <<Byte(Lo(w))>> ELSE Bytes(w)

Concat(n, Piece(_)) ==
  LET all[k \in 0..n] == IF k = 0 THEN <<>> ELSE all[k - 1] \o Piece(k) IN all[n]

Contents(m, k) ==
  LET l == program[file2[m].file][k] IN
  CASE l.k = "opcode" ->
         <<<<"opc", l.opc>>>> \o
         Concat(Len(l.args), LAMBDA x : OperandBytes(m, k, A!Shape(l.opc)[x], l.args[x]))
    [] l.k = "dc" ->
         Concat(Len(l.items), LAMBDA x : ItemBytes(m, k, x))
    [] OTHER -> <<>>

-----------------------------------------------------------------------------
(***************************************************************************)
(* Properties                                                              *)
(***************************************************************************)

\* The data buffer never overflows, the runs of data that reach the object
\* have a length its command byte can hold, and a LINK leads to a name that
\* is no LINK, so that following it ends.
AssemblerTypeOK ==
  /\ asm.pass \in {1, 2} /\ asm.seg \in Seg /\ asm.pos \in [Seg -> Int]
  /\ asm.pc \in {"parse", "exit", "exit1"} /\ asm.err \in BOOLEAN
  /\ Len(asm.dat) <= DATMAX
  /\ \A k \in DOMAIN asm.obj : asm.obj[k].op = "data" =>
       Len(asm.obj[k].bytes) \in 1..DATMAX
  /\ \A s \in Symbols :
       asm.names[s].type = "LINK" =>
         asm.names[asm.names[s].link].type \in Seg \cup {"ABS"}

\* While pass 2 has found no error, the place the assembler believes to be
\* at is the place the linker will be at when it has read the object so far
\* (xasm counts in curpos[], xlnk adds up the commands), and every label
\* has the place of its line, whether pass 2 has reached it or not: pass 2
\* has no phase error to report.
PlacesAgree ==
  module # NONE /\ asm.pass = 2 /\ asm.pc = "parse" /\ ~ asm.err =>
    LET b == asm.obj \o <<[op |-> "data", bytes |-> asm.dat]>>
        n == Len(b) + 1
    IN  /\ SegAt(b, n) = asm.seg
        /\ OfsAt(b, n) = asm.pos[asm.seg]
        /\ asm.pos[asm.seg] = Place(src)[asm.ln].pos[asm.seg]
        /\ \A s \in Symbols : asm.names[s].type \in Seg =>
             asm.names[s].value
               = Place(src)[LineOf(src, s)].pos[asm.names[s].type]

\* How many values the first k commands of an object leave on the stack.
Depth(b, k) ==
  MapThenSumSet(LAMBDA x : CASE b[x].op \in {"push", "sym"} -> 1
                             [] b[x].op \in {"alu", "popb", "popw"} -> -1
                             [] OTHER -> 0, 1..k)

\* A statement leaves nothing on the linker's relocation stack and takes
\* nothing from below it.
StackBalanced ==
  ~ asm.err /\ asm.pc # "exit1" =>
    /\ Depth(asm.obj, Len(asm.obj)) = 0
    /\ \A k \in DOMAIN asm.obj : Depth(asm.obj, k) >= 0

\* Assembled and linked without a message, the image holds what the sources
\* say: every instruction with its operands and every constant, at the place
\* of its line, with labels of all modules resolved, whether an expression
\* was folded by xasm or computed by xlnk from relocation code.
ImageMeans ==
  pc = "exit" /\ ~ errflag =>
    \A m \in DOMAIN file2 :
      LET s == program[file2[m].file]
          p == Place(s)
      IN  \A k \in DOMAIN s :
            LET c == Contents(m, k)
                at == Address(m, p[k].seg, p[k].pos[p[k].seg])
            IN  \A n \in DOMAIN c : image[at + n - 1] = c[n]

\* Objects of assemblies without errors, all of whose names are defined,
\* link: xlnk does not stop over what xasm wrote.
AssembledLinks == module = NONE => pc \notin {"exit1", "undefined"}

=============================================================================
