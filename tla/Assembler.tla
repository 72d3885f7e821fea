----------------------------- MODULE Assembler -----------------------------
(***************************************************************************)
(* xasm, the assembler, behind its preprocessor.  The source is read       *)
(* twice: pass 1 gives every label its place, pass 2 writes the object: a  *)
(* sequence of the commands Linker reads.  One action takes one statement; *)
(* a label is a statement of its own.                                      *)
(*                                                                         *)
(* A statement is given as the parser sees it: names and operands, without *)
(* their spelling.  An expression is the sequence of its operands and      *)
(* operators in the order in which xplng1() and primary() finish them      *)
(* (postfix); the order of the relocation code depends on nothing else.    *)
(* The segment sizes, which are only listed, and -d, which writes the      *)
(* commands as text, are left out.                                         *)
(*                                                                         *)
(* Values are ints of the host and are cut to words where they are         *)
(* written.                                                                *)
(*                                                                         *)
(* Operators whose names start with Bug are slips the code could have had; *)
(* no specification uses them.  They show that a property notices.         *)
(***************************************************************************)
EXTENDS Words, Sequences

CONSTANTS
  DATMAX,        \* size of datbuf
  Symbols,       \* the names a source may define and use
  JUNK,          \* what an uninitialised int may hold
  Fold(_, _, _)  \* what the C operators of calc() give

VARIABLES
  src,  \* the statements of the source
  asm   \* the variables of the assembler, see Fresh

Seg == {"CODE", "DATA", "TEXT", "UDEF"}
NONE == "none"
BPW == 2
NOREG == -1   \* an operand that names no register

-----------------------------------------------------------------------------
(* Output                                                                  *)

Byte(v) == <<"num", v>>
ByteRange == -(BYTE \div 2)..((BYTE \div 2) - 1)

sto_flush(a) ==
  IF a.pass = 2 /\ a.dat # <<>>
    THEN [a EXCEPT !.obj = Append(@, [op |-> "data", bytes |-> a.dat]),
                   !.dat = <<>>]
    ELSE a

BugStoreFull(a, cell) ==
  LET f == IF Len(a.dat) > DATMAX THEN sto_flush(a) ELSE a
  IN  [f EXCEPT !.dat = Append(@, cell)]

StoreByte(a, cell) ==
  LET f == IF Len(a.dat) = DATMAX THEN sto_flush(a) ELSE a
  IN  [f EXCEPT !.dat = Append(@, cell)]

sto_data(a, v, size) ==
  LET w == v % WORD IN
  IF size = BPW THEN StoreByte(StoreByte(a, Byte(Hi(w))), Byte(Lo(w)))
  ELSE StoreByte(a, Byte(Lo(w)))

\* A command ends the run of data.  exit(1) has no commands after it.
sto_cmd(a, c) ==
  LET f == sto_flush(a) IN
  IF f.pass = 2 /\ f.pc = "parse" THEN [f EXCEPT !.obj = Append(@, c)] ELSE f

\* REL_xxxB for what fits a signed byte; the linker reads it without sign.
PushOf(seg, v) ==
  [op |-> "push", seg |-> seg, v |-> IF v \in ByteRange THEN v % BYTE ELSE v % WORD]

\* REL_NOT and REL_NEG are not among the commands sto_cmd() can write.
Unimplemented(a) ==
  IF a.pass = 2 THEN [sto_flush(a) EXCEPT !.pc = "exit1"] ELSE a

Plain(op) == [op |-> op]

error(a) == [a EXCEPT !.err = TRUE]

-----------------------------------------------------------------------------
(* Expressions                                                             *)

Constant(v) == [type |-> "CONSTANT", v |-> v]
Symbol(s) == [type |-> "SYMBOL", sym |-> s]
EXPRESSION == [type |-> "EXPRESSION"]

loadlval(a, lval) ==
  CASE lval.type = "CONSTANT" -> sto_cmd(a, PushOf(NONE, lval.v))
    [] lval.type = "SYMBOL" ->
         LET p == a.names[lval.sym]
         IN  sto_cmd(a, PushOf(IF p.type \in Seg THEN p.type ELSE NONE, p.value))
    [] OTHER -> a

\* calc() extends the sign of a 16-bit value, and only that.
SignExtend(v) == IF (v \div HALF) % 2 = 1 THEN (v % HALF) - HALF ELSE v
calc(oper, l, r) == Fold(oper, SignExtend(l), SignExtend(r))

BugNoSwap(a, oper, l, r) ==
  LET b == IF l.type # "EXPRESSION" /\ r.type = "EXPRESSION" THEN loadlval(a, l)
           ELSE IF l.type = "EXPRESSION" THEN loadlval(a, r)
           ELSE loadlval(loadlval(a, l), r)
  IN  sto_cmd(b, [op |-> "alu", f |-> oper])

BugForgetRight(a, oper, l, r) ==
  LET b == IF l.type # "EXPRESSION" /\ r.type = "EXPRESSION"
             THEN sto_cmd(loadlval(a, l), Plain("swap"))
             ELSE loadlval(a, l)
  IN  sto_cmd(b, [op |-> "alu", f |-> oper])

\* The code for one operator of xplng1(), unless both sides are constant.
Apply(a, oper, l, r) ==
  LET b == IF l.type # "EXPRESSION" /\ r.type = "EXPRESSION"
             THEN sto_cmd(loadlval(a, l), Plain("swap"))
           ELSE IF l.type = "EXPRESSION" THEN loadlval(a, r)
           ELSE loadlval(loadlval(a, l), r)
  IN  sto_cmd(b, [op |-> "alu", f |-> oper])

\* An equate to a symbol is a LINK; what it leads to is no LINK.
Follow(a, s) == IF a.names[s].type = "LINK" THEN a.names[s].link ELSE s

Mention(names, s) ==
  IF names[s].type = NONE THEN [names EXCEPT ![s].type = "UNDEF"] ELSE names

\* primary() on an identifier; reserved words are no operands.
Identifier(e, s) ==
  LET h == Follow(e.a, s)
      b == [e.a EXCEPT !.names = Mention(@, h)]
  IN  IF b.names[h].type = "UNDEF"
        THEN [a |-> sto_cmd(b, [op |-> "sym", sym |-> h]),
              st |-> Append(e.st, EXPRESSION)]
        ELSE [a |-> b, st |-> Append(e.st, Symbol(h))]

\* The state and the values after one more token.
Token(e, t) ==
  LET n == Len(e.st)
      top == e.st[n]
      Under(k) == SubSeq(e.st, 1, n - k)
  IN
  CASE t.t = "num" -> [e EXCEPT !.st = Append(@, Constant(t.v))]
    [] t.t = "sym" -> Identifier(e, t.sym)
    [] t.t = "point" ->
         [a |-> sto_cmd(e.a, PushOf(e.a.seg, e.a.pos[e.a.seg])),
          st |-> Append(e.st, EXPRESSION)]
    [] t.t = "word" -> [a |-> error(e.a), st |-> Append(e.st, Constant(t.junk))]
    [] t.t = "neg" /\ top.type = "CONSTANT" ->
         [e EXCEPT !.st = Append(Under(1), Constant(-top.v))]
    [] t.t = "not" /\ top.type = "CONSTANT" ->
         [e EXCEPT !.st = Append(Under(1), Constant(-top.v - 1))]
    [] t.t \in {"neg", "not"} /\ top.type # "CONSTANT" ->
         [a |-> Unimplemented(loadlval(e.a, top)),
          st |-> Append(Under(1), EXPRESSION)]
    [] t.t = "op" ->
         LET l == e.st[n - 1] IN
         IF l.type = "CONSTANT" /\ top.type = "CONSTANT"
           THEN [e EXCEPT !.st =
                   Append(Under(2), Constant(calc(t.f, l.v, top.v)))]
           ELSE [a |-> Apply(e.a, t.f, l, top),
                 st |-> Append(Under(2), EXPRESSION)]

expression(a, toks) ==
  LET eval[k \in 0..Len(toks)] ==
        IF k = 0 THEN [a |-> a, st |-> <<>>] ELSE Token(eval[k - 1], toks[k])
  IN  [a |-> eval[Len(toks)].a, lval |-> eval[Len(toks)].st[1]]

-----------------------------------------------------------------------------
(* Statements: each gives the state after it                               *)

Move(a, n) == [a EXCEPT !.pos[a.seg] = @ + n]

Defined(a, s, p) == [a EXCEPT !.names[s] = p]
Entry(type, value) == [type |-> type, value |-> value, link |-> NONE]

\* "name:" and "name::", on a line of its own: behind a LINK name xasm ignores
\* the rest of the line.
label(a, l) ==
  LET p == a.names[l.sym]
      Checked == IF p.type # a.seg \/ p.value # a.pos[a.seg] THEN error(a) ELSE a
  IN
  CASE p.type \in {NONE, "UNDEF"} ->
         Defined(a, l.sym, Entry(a.seg, a.pos[a.seg]))
    [] p.type \in Seg ->
         IF l.ext /\ a.pass = 2
           THEN sto_cmd(Checked, [op |-> "def", seg |-> p.type, sym |-> l.sym,
                                  ofs |-> p.value % WORD])
           ELSE Checked
    [] p.type = "ABS" -> error(a)
    [] p.type = "LINK" -> IF a.pass = 1 THEN error(a) ELSE a

\* "name = expression"
equate(a, l) ==
  LET p == a.names[l.sym]
      e == expression([a EXCEPT !.names = Mention(@, l.sym)], l.e)
  IN
  CASE p.type \in {NONE, "UNDEF"} ->
         CASE e.lval.type = "CONSTANT" ->
                Defined(e.a, l.sym, Entry("ABS", e.lval.v))
           [] e.lval.type = "SYMBOL" ->
                Defined(e.a, l.sym,
                  [type |-> "LINK", value |-> 0, link |-> e.lval.sym])
           [] OTHER -> IF a.pass = 1 THEN Defined(e.a, l.sym, Entry("ABS", 0))
                       ELSE error(e.a)
    [] p.type \in Seg \cup {"ABS"} -> IF a.pass = 1 THEN error(a) ELSE e.a
    [] p.type = "LINK" -> IF a.pass = 1 THEN error(a) ELSE a

\* The operands of an instruction.  Both passes have this table.
Shape(opc) ==
  CASE opc \in {"ILLEGAL", "RSB"} -> <<>>
    [] opc \in {"PSHR", "POPR", "SVC"} -> <<"imm">>
    [] opc \in {"PSHB", "PSHW", "PSHA", "JSB", "BEQ", "BNE", "BLT", "BLE", "BGT",
                "BGE", "JMP"} -> <<"mem">>
    [] opc \in {"NEG", "NOT"} -> <<"reg">>
    [] opc \in {"ADD", "SUB", "MUL", "DIV", "MOD", "OR", "XOR", "AND", "LSR",
                "LSL", "LDR", "CMP"} -> <<"reg", "reg">>
    [] opc \in {"LDB", "LDW", "LDA", "STB", "STW"} -> <<"reg", "mem">>

SizeOf(opc) ==
  CASE Shape(opc) = <<>> -> 1
    [] Shape(opc) = <<"reg">> -> 2
    [] Shape(opc) \in {<<"imm">>, <<"reg", "reg">>} -> 3
    [] Shape(opc) = <<"mem">> -> 4
    [] Shape(opc) = <<"reg", "mem">> -> 5

\* An operand that is not a register is reported and stored as R0.
need_reg(a, r) ==
  IF r = NOREG THEN sto_data(error(a), 0, 1) ELSE sto_data(a, r, 1)

need_imm(a, toks) ==
  LET e == expression(a, toks) IN
  IF e.lval.type = "CONSTANT" THEN sto_data(e.a, e.lval.v, BPW)
  ELSE sto_cmd(loadlval(e.a, e.lval), Plain("popw"))

need_mem(a, arg) ==
  need_reg(IF arg.e = <<>> THEN sto_data(a, 0, BPW) ELSE need_imm(a, arg.e), arg.r)

Operand(a, shape, arg) ==
  CASE shape = "reg" -> need_reg(a, arg.r)
    [] shape = "imm" -> need_imm(a, arg.e)
    [] shape = "mem" -> need_mem(a, arg)

BugShortPassOne(a, l) ==
  LET done[k \in 0..Len(l.args)] ==
        IF k = 0 THEN StoreByte(a, <<"opc", l.opc>>)
        ELSE Operand(done[k - 1], Shape(l.opc)[k], l.args[k])
  IN  IF a.pass = 1 THEN Move(a, 3) ELSE Move(done[Len(l.args)], SizeOf(l.opc))

\* Pass 1 does not look at the operands.
do_opcode(a, l) ==
  LET done[k \in 0..Len(l.args)] ==
        IF k = 0 THEN StoreByte(a, <<"opc", l.opc>>)
        ELSE Operand(done[k - 1], Shape(l.opc)[k], l.args[k])
  IN  IF a.pass = 1 THEN Move(a, SizeOf(l.opc))
      ELSE Move(done[Len(l.args)], SizeOf(l.opc))

\* A segment continues where it was left.
OrgOf(a) == [op |-> "org", seg |-> a.seg, ofs |-> a.pos[a.seg] % WORD]

segment(a, l) ==
  LET b == [a EXCEPT !.seg = l.seg] IN sto_cmd(b, OrgOf(b))

\* .DSB and .DSW; val is uninitialised when there is no constant.
reserve(a, l, junk) ==
  LET e == expression(a, l.e)
      Dsb(b, n) == sto_cmd(b, [op |-> "dsb", n |-> n % WORD])
  IN  IF e.lval.type = "CONSTANT"
        THEN Dsb(Move(e.a, e.lval.v * l.size), e.lval.v * l.size)
        ELSE Dsb(IF a.pass = 1 THEN error(e.a) ELSE e.a, junk * l.size)

\* One item of .DCB or .DCW: a character of a string, or an expression.
Item(a, l, item) ==
  IF item.t = "chr"
    THEN Move(IF a.pass = 2 THEN sto_data(a, item.v, l.size) ELSE a, l.size)
    ELSE LET e == expression(a, item.e)
             Stored ==
               CASE a.pass = 1 -> e.a
                 [] a.pass = 2 /\ e.lval.type # "CONSTANT" ->
                      sto_cmd(loadlval(e.a, e.lval),
                              Plain(IF l.size = 1 THEN "popb" ELSE "popw"))
                 [] a.pass = 2 /\ e.lval.type = "CONSTANT" ->
                      IF l.size = BPW \/ e.lval.v \in ByteRange
                        THEN sto_data(e.a, e.lval.v, l.size)
                        ELSE error(e.a)               \* constant out of range
         IN  Move(Stored, l.size)

constants(a, l) ==
  LET done[k \in 0..Len(l.items)] ==
        IF k = 0 THEN a ELSE Item(done[k - 1], l, l.items[k])
  IN  done[Len(l.items)]

\* .ORG: to a symbol's place it also takes the symbol's segment.
origin(a, l) ==
  LET e == expression(a, l.e)
      b == CASE e.lval.type = "CONSTANT" -> [e.a EXCEPT !.pos[a.seg] = e.lval.v]
             [] e.lval.type = "SYMBOL" ->
                  LET p == e.a.names[e.lval.sym]
                      s == IF p.type \in Seg THEN p.type ELSE a.seg
                  IN  [e.a EXCEPT !.seg = s, !.pos[s] = p.value]
             [] OTHER -> error(e.a)
  IN  sto_cmd(b, OrgOf(b))

-----------------------------------------------------------------------------
(* main() and parse()                                                      *)

Fresh ==
  [pass |-> 1, ln |-> 1, pc |-> "parse", seg |-> "CODE", pos |-> [s \in Seg |-> 0],
   names |-> [s \in Symbols |-> Entry(NONE, 0)], dat |-> <<>>, obj |-> <<>>,
   err |-> FALSE]

\* parse() ends at .END, or at the end of the source, which is only noted.
Parsing == asm.pc = "parse" /\ asm.ln <= Len(src) /\ src[asm.ln].k # "end"
Reading(k) == Parsing /\ src[asm.ln].k = k
Line == src[asm.ln]

Becomes(a) == asm' = [a EXCEPT !.ln = @ + 1] /\ UNCHANGED src

Label == Reading("label") /\ Becomes(label(asm, Line))
Equate == Reading("equate") /\ Becomes(equate(asm, Line))
Opcode == Reading("opcode") /\ Becomes(do_opcode(asm, Line))
Segment == Reading("segment") /\ Becomes(segment(asm, Line))
Reserve == Reading("ds") /\ \E junk \in JUNK : Becomes(reserve(asm, Line, junk))
Constants == Reading("dc") /\ Becomes(constants(asm, Line))
Origin == Reading("org") /\ Becomes(origin(asm, Line))

\* A line that starts with no known word is reported in pass 1.
Unknown ==
  /\ Reading("junk")
  /\ Becomes(IF asm.pass = 1 THEN error(asm) ELSE asm)

\* The source is opened again; the names stay.
PassTwo ==
  /\ asm.pc = "parse" /\ ~ Parsing /\ asm.pass = 1
  /\ asm' = [Fresh EXCEPT !.pass = 2, !.names = asm.names, !.err = asm.err]
  /\ UNCHANGED src

BugNoEnd ==
  /\ asm.pc = "parse" /\ ~ Parsing /\ asm.pass = 2
  /\ asm' = [sto_flush(asm) EXCEPT !.pc = "exit"]
  /\ UNCHANGED src

Finish ==
  /\ asm.pc = "parse" /\ ~ Parsing /\ asm.pass = 2
  /\ asm' = [sto_cmd(asm, Plain("end")) EXCEPT !.pc = "exit"]
  /\ UNCHANGED src

Next == Label \/ Equate \/ Opcode \/ Segment \/ Reserve \/ Constants \/ Origin
        \/ Unknown \/ PassTwo \/ Finish

=============================================================================
