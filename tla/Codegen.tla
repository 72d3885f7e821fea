------------------------------ MODULE Codegen ------------------------------
(***************************************************************************)
(* xcc, the compiler, behind its preprocessor: expressions (xcc3.c) and    *)
(* the statements of one function (xcc2.c), turned into instructions in    *)
(* one pass.                                                               *)
(*                                                                         *)
(* The recursive descent parser calls a piece of code at every point where *)
(* it has recognised something.  Those points, in the order in which they  *)
(* are passed, are the tokens of this module, and one action does what is  *)
(* done at one of them.  The local variables lval[] of the functions that  *)
(* are active form the stack vals; the other locals (labels, the saved     *)
(* stack pointer) form the stack locals.                                   *)
(*                                                                         *)
(* Operators whose names start with Bug are slips the code could have had; *)
(* no specification uses them.  They show that a property notices.         *)
(***************************************************************************)
EXTENDS Words, Sequences, FiniteSets

CONSTANTS
  NREG,          \* number of registers; the last four have a fixed use
  SYMMAX, SWMAX, \* sizes of syms[] and sw[]
  Calc(_, _, _)  \* what the C operators of calc() give

ASSUME RegistersAssumption == NREG \in Nat /\ NREG >= 7
ASSUME TablesAssumption == SYMMAX \in Nat \ {0} /\ SWMAX \in Nat \ {0}

VARIABLES
  toks,  \* what the parser passes: never changed
  gen    \* the variables of the compiler, see initialize

vars == <<toks, gen>>

BPW == 2
REG_0 == 0
REG_RETURN == 1
REG_SP == NREG - 1
REG_AP == NREG - 2
REG_BPW == NREG - 3
REG_1 == NREG - 4
Reserved == {REG_SP, REG_AP, REG_BPW, REG_1, REG_0, REG_RETURN}

NONAME == <<>>
Name(x) == <<"sym", x>>
Local(lbl) == <<"lbl", lbl>>
NOREG == -1

-----------------------------------------------------------------------------
(* Values: where an operand is                                             *)

Lval(type, ptr, size, name, value, r) ==
  [type |-> type, ptr |-> ptr, size |-> size, name |-> name, value |-> value,
   reg |-> r, op |-> "", ltrue |-> 0, lfalse |-> 0]

Constant(v) == Lval("ADDRESS", 0, 0, NONAME, v, 0)
Result(r) == Lval("ADDRESS", 0, BPW, NONAME, 0, r)

isConstant(l) == l.type = "ADDRESS" /\ l.name = NONAME /\ l.reg = 0
isRegister(l) == l.type = "ADDRESS" /\ l.name = NONAME /\ l.value = 0
isWORD(l) == l.ptr # 0 \/ l.size = BPW
isINTPTR(l) == l.ptr # 0 /\ l.size = BPW

negop(op) ==
  CASE op = "BEQ" -> "BNE" [] op = "BNE" -> "BEQ" [] op = "BGT" -> "BLE"
    [] op = "BLT" -> "BGE" [] op = "BGE" -> "BLT" [] op = "BLE" -> "BGT"

SignExtend(v) == IF (v \div HALF) % 2 = 1 THEN (v % HALF) - HALF ELSE v
calc(l, oper, r) == Calc(oper, SignExtend(l), SignExtend(r))

-----------------------------------------------------------------------------
(* Output, labels and registers.  c is the state of the compiler.          *)

Emit(c, i) == [c EXCEPT !.code = Append(@, i)]
gencode_R(c, op, l, r) == Emit(c, [k |-> "R", op |-> op, l |-> l, r |-> r])
gencode_L(c, op, lbl) == Emit(c, [k |-> "L", op |-> op, lbl |-> lbl])
gencode_M(c, op, l, name, ofs, r) ==
  Emit(c, [k |-> "M", op |-> op, l |-> l, name |-> name, ofs |-> SignExtend(ofs),
           r |-> r])
gencode_lval(c, op, r, l) == gencode_M(c, op, r, l.name, l.value, l.reg)
gencode_I(c, op, r, imm) == gencode_M(c, op, r, NONAME, imm, 0)
genlabel(c, lbl) == Emit(c, [k |-> "label", lbl |-> lbl])
genequ(c, lbl, to) == Emit(c, [k |-> "equ", lbl |-> lbl, to |-> to])

gencode_ADJSP(c, n) ==
  CASE n = BPW -> gencode_R(c, "ADD", REG_SP, REG_BPW)
    [] n = -BPW -> gencode_R(c, "SUB", REG_SP, REG_BPW)
    [] OTHER -> gencode_M(c, "LDA", REG_SP, NONAME, n, REG_SP)

\* A label that jumps lead to already, if there is one.
Landed(c, lbl) == IF lbl # 0 THEN genlabel(c, lbl) ELSE c

error(c) == [c EXCEPT !.err = TRUE]
fatal(c) == [c EXCEPT !.err = TRUE, !.fatal = TRUE]

\* ++nxtlabel: the label is c.nxt + 1
NewLabels(c, n) == [c EXCEPT !.nxt = @ + n]

\* A label that is adopted, or made when there is none.
Adopted(c, lbl) == IF lbl # 0 THEN lbl ELSE c.nxt + 1
Adopting(c, lbl) == IF lbl # 0 THEN c ELSE NewLabels(c, 1)

Free(c) == (2..(NREG - 1)) \ (c.regresvd \cup c.reguse)
NextReg(c) == IF Free(c) = {} THEN 2 ELSE CHOOSE r \in Free(c) : \A q \in Free(c) : r <= q

\* allocreg() returns NextReg and marks it.
allocreg(c) ==
  IF Free(c) = {} THEN error(c)
  ELSE [c EXCEPT !.reguse = @ \cup {NextReg(c)}, !.regsum = @ \cup {NextReg(c)}]

freereg(c, r) ==
  CASE r \in c.regresvd -> c
    [] r \in c.reguse -> [c EXCEPT !.reguse = @ \ {r}, !.reglock = @ \ {r}]
    [] OTHER -> error(c)

freelval(c, l) ==
  IF isConstant(l) \/ l.type = "BRANCH" \/ l.reg \in c.reglock THEN c
  ELSE freereg(c, l.reg)

-----------------------------------------------------------------------------
(* loadlval().  An operator gives the pair of the compiler's state and the *)
(* changed lval.                                                           *)

Pair(c, l) == [c |-> c, l |-> l]

InRegister(l, r) ==
  [l EXCEPT !.type = "ADDRESS", !.name = NONAME, !.value = 0, !.reg = r]

\* 1 and BPW are in registers already.
Relocate(l) ==
  CASE l.reg = 0 /\ l.value = 1 -> [l EXCEPT !.reg = REG_1, !.value = 0]
    [] l.reg = 0 /\ l.value = BPW -> [l EXCEPT !.reg = REG_BPW, !.value = 0]
    [] OTHER -> l

\* Nothing to do: in a register, and one that may be changed if it must.
InPlace(c, l, r) ==
  r <= 0 /\ l.name = NONAME /\ l.value = 0 /\ ~ (r = 0 /\ l.reg \in c.reglock)

\* The register asked for, or one that is free.
Target(c, r) == IF r > 0 THEN r ELSE NextReg(c)
Claimed(c, r) == IF r > 0 THEN c ELSE allocreg(c)

Fetched(c, op, l, r) ==
  Pair(gencode_lval(Claimed(c, r), op, Target(c, r), l), InRegister(l, Target(c, r)))
Copied(c, l, r) ==
  Pair(gencode_R(Claimed(c, r), "LDR", Target(c, r), l.reg), InRegister(l, Target(c, r)))

LoadAddress(c, l, r) ==
  CASE InPlace(c, l, r) -> Pair(c, l)
    [] l.name # NONAME \/ l.value # 0 -> Fetched(freelval(c, l), "LDA", l, r)
    [] OTHER -> Copied(IF r > 0 THEN freelval(c, l) ELSE c, l, r)

LoadMemory(c, l, r) ==
  Fetched(freelval(c, l), IF isWORD(l) THEN "LDW" ELSE "LDB", l, r)

\* A comparison becomes 0 or 1.
LoadBranch(c, l, r) ==
  LET Choice(b, to, lend, lfalse) ==
        LET yes == Landed(gencode_L(b, l.op, lfalse), l.ltrue)
            out == gencode_L(gencode_R(yes, "LDR", to, REG_1), "JMP", lend)
            no == gencode_R(genlabel(out, lfalse), "LDR", to, REG_0)
        IN  Pair(genlabel(no, lend), [InRegister(l, to) EXCEPT !.ptr = 0])
  IN  IF l.lfalse = 0
        THEN Choice(NewLabels(Claimed(c, r), 2), Target(c, r), c.nxt + 1, c.nxt + 2)
        ELSE Choice(NewLabels(Claimed(c, r), 1), Target(c, r), c.nxt + 1, l.lfalse)

\* r is a register, 0 for one that may be changed, NOREG for one to be read.
loadlval(c, l, r) ==
  CASE l.type = "ADDRESS" -> LoadAddress(c, Relocate(l), r)
    [] l.type = "MEMORY" -> LoadMemory(c, l, r)
    [] l.type = "BRANCH" -> LoadBranch(c, l, r)
    [] OTHER -> Pair(fatal(c), l)                      \* unimplemented

Branch(op) == [Constant(0) EXCEPT !.type = "BRANCH", !.op = op]

\* The value is tested by the instruction that leaves it in a register.
Tested(c, l, op) ==
  LET Test(p) == Pair(freelval(p.c, p.l), Branch(op)) IN Test(loadlval(c, l, 0))

AsBranch(c, l) == IF l.type = "BRANCH" THEN Pair(c, l) ELSE Tested(c, l, "BEQ")

-----------------------------------------------------------------------------
(* Expressions.  Each operator does one token and gives the new state.     *)

Top(c) == c.vals[Len(c.vals)]
Below(c) == c.vals[Len(c.vals) - 1]
Drop(c, n) == [c EXCEPT !.vals = SubSeq(@, 1, Len(@) - n)]
PushVal(c, l) == [c EXCEPT !.vals = Append(@, l)]
SetTop(p) == PushVal(Drop(p.c, 1), p.l)           \* the pair's lval is the top
SetBelow(p) == PushVal(Drop(p.c, 2), p.l)         \* two operands become one

Frame(c) == c.locals[Len(c.locals)]
Enter(c, f) == [c EXCEPT !.locals = Append(@, f)]
Leave(c) == [c EXCEPT !.locals = SubSeq(@, 1, Len(@) - 1)]

\* primary() on an identifier: the youngest declaration counts, locals move
\* with the stack, and a name that is not declared is a function elsewhere.
Identifier(c, x) ==
  LET at == {k \in DOMAIN c.syms : c.syms[k].x = x}
      l == c.syms[CHOOSE k \in at : \A j \in at : j <= k].l
  IN  PushVal(c, IF at = {} THEN Lval("FUNCTION", 0, BPW, Name(x), 0, 0)
                 ELSE IF l.reg = REG_SP THEN [l EXCEPT !.value = @ - c.csp]
                 ELSE l)

\* constant() on a string: the text goes to its own segment.
String(c, bytes) ==
  LET b == Emit(NewLabels(c, 1), [k |-> "text", lbl |-> c.nxt + 1, bytes |-> bytes])
  IN  PushVal(b, Lval("ADDRESS", 1, 1, Local(c.nxt + 1), 0, 0))

\* (2(AP)-BPW)/BPW
Argc(c) ==
  LET r == NextReg(c)
      b == gencode_M(allocreg(c), "LDW", r, NONAME, BPW, REG_AP)
  IN  PushVal(gencode_R(gencode_R(b, "SUB", r, REG_BPW), "DIV", r, REG_BPW), Result(r))

\* Pointer arithmetic: the index is scaled.
Times(p) == Pair(gencode_R(p.c, "MUL", p.l.reg, REG_BPW), p.l)
Scaled(c, r) ==
  IF isConstant(r) THEN Pair(c, [r EXCEPT !.value = @ * BPW]) ELSE Times(loadlval(c, r, 0))

\* xplng1()
Binary(c, opc) ==
  LET l == Below(c)
      Done(pl, pr) ==
        SetBelow(Pair(freelval(gencode_R(pr.c, opc, pl.l.reg, pr.l.reg), pr.l), pl.l))
      Right(pl, r) == Done(pl, loadlval(pl.c, r, NOREG))
      Left(s) ==
        IF isConstant(l) /\ isConstant(s.l)
          THEN SetBelow(Pair(s.c, [l EXCEPT !.value = calc(@, opc, s.l.value)]))
          ELSE Right(loadlval(s.c, l, 0), s.l)
  IN  Left(IF opc \in {"ADD", "SUB"} /\ isINTPTR(l) THEN Scaled(c, Top(c)) ELSE Pair(c, Top(c)))

\* xplng2(): the branch is the one that is taken when it does not hold.
Compare(c, opc) ==
  LET Done(pl, pr) ==
        LET b == gencode_R(pr.c, "CMP", pl.l.reg, pr.l.reg)
        IN  SetBelow(Pair(freelval(freelval(b, pl.l), pr.l), Branch(negop(opc))))
      Right(pl) == Done(pl, loadlval(pl.c, Top(c), NOREG))
  IN  IF isConstant(Below(c)) /\ isConstant(Top(c))
        THEN SetBelow(Pair(c, [Below(c) EXCEPT !.value = calc(@, opc, Top(c).value)]))
        ELSE Right(loadlval(c, Below(c), NOREG))

Opposite(op) == IF op = "ADD" THEN "SUB" ELSE "ADD"

\* step(): ++ and --, before or behind.
Step(c, opc, post) ==
  LET l == Top(c)
      by == IF isINTPTR(l) THEN REG_BPW ELSE REG_1
      Back(b, reg) == IF post THEN gencode_R(b, Opposite(opc), reg, by) ELSE b
      Register(b, r) ==
        IF post THEN SetTop(Pair(freelval(Back(gencode_R(allocreg(b), "LDR", r, l.reg), r), l),
                                 [l EXCEPT !.reg = r]))
        ELSE SetTop(Pair(b, l))
      Memory(p, r) ==
        LET b == gencode_R(p.c, opc, p.l.reg, by)
            st == gencode_lval(b, IF isWORD(l) THEN "STW" ELSE "STB", p.l.reg, l)
        IN  SetTop(Pair(Back(st, r), p.l))
      Loaded(b) == Memory(loadlval(allocreg(b), l, NextReg(b)), NextReg(b))
  IN  IF isRegister(l) THEN Register(gencode_R(c, opc, l.reg, by), NextReg(c))
      ELSE Loaded(IF l.type = "MEMORY" THEN c ELSE error(c))

\* "!" of a comparison is the opposite one, with the labels exchanged.
Inverted(c, l) ==
  Pair(c, [l EXCEPT !.op = negop(@), !.ltrue = l.lfalse, !.lfalse = l.ltrue])

\* "*" of a pointer to a function.
Pointed(c, l) ==
  LET f == freelval(c, l)
      r == NextReg(f)
  IN  Pair(gencode_lval(allocreg(f), "LDW", r, l),
           [l EXCEPT !.ptr = @ - 1, !.name = NONAME, !.value = 0, !.reg = r])

Unary(c, op) ==
  LET l == Top(c)
      Folded(v) == SetTop(Pair(c, [l EXCEPT !.value = v]))
      Changed(p) == SetTop(Pair(gencode_R(p.c, op, NOREG, p.l.reg), p.l))
      There(p) == SetTop(Pair(p.c, [p.l EXCEPT !.type = "MEMORY", !.ptr = @ - 1]))
  IN
  CASE op \in {"NOT", "NEG"} ->
         IF isConstant(l) THEN Folded(IF op = "NOT" THEN -l.value - 1 ELSE -l.value)
         ELSE Changed(loadlval(c, l, 0))
    [] op = "!" -> IF isConstant(l) THEN Folded(IF l.value = 0 THEN 1 ELSE 0)
                   ELSE IF l.type = "BRANCH" /\ l.ltrue = 0 THEN SetTop(Inverted(c, l))
                   ELSE SetTop(Tested(c, l, "BNE"))
    [] op = "*" -> IF l.ptr = 0 THEN error(c)
                   ELSE IF l.type = "FUNCTION" THEN SetTop(Pointed(c, l))
                   ELSE There(IF l.type = "MEMORY" THEN loadlval(c, l, 0) ELSE Pair(c, l))
    [] op = "&" -> IF l.type # "MEMORY" THEN error(c)
                   ELSE SetTop(Pair(c, [l EXCEPT !.type = "ADDRESS", !.ptr = @ + 1]))

\* lval[rval]
Index(c) ==
  LET l == Below(c)
      Element(b, e) == SetBelow(Pair(b, [e EXCEPT !.type = "MEMORY", !.ptr = @ - 1]))
      Sum(pl, r) == Element(freelval(gencode_R(pl.c, "ADD", pl.l.reg, r.reg), r), pl.l)
      At(b, base, r) ==
        IF base.reg = 0 THEN Element(b, [base EXCEPT !.reg = r.reg])
        ELSE Sum(IF base.reg \in b.reglock THEN loadlval(b, base, 0) ELSE Pair(b, base), r)
      Right(pr, base) == At(IF isINTPTR(base) THEN Times(pr).c ELSE pr.c, base, pr.l)
      Left(pl) ==
        IF isConstant(Top(c))
          THEN Element(pl.c, [pl.l EXCEPT !.value = @ + Top(c).value * l.size])
          ELSE Right(loadlval(pl.c, Top(c), 0), pl.l)
  IN  IF l.ptr = 0 THEN error(Drop(c, 1))
      ELSE Left(IF l.type = "MEMORY" THEN loadlval(c, l, 0) ELSE Pair(c, l))

\* f( : the name is on the stack of values.
CallOpen(c) ==
  Enter(IF Top(c).type = "FUNCTION" THEN c ELSE error(c), [argc |-> BPW, csp |-> c.csp])

BugNotDeeper(c) == [c EXCEPT !.locals[Len(c.locals)].argc = @ + BPW]

Deeper(c) == [c EXCEPT !.csp = @ - BPW, !.locals[Len(c.locals)].argc = @ + BPW]

\* An argument is pushed, and locals are that much further away.
CallArg(c) ==
  LET l == Top(c)
      op(a) == IF a.type # "MEMORY" THEN "PSHA" ELSE IF isWORD(a) THEN "PSHW" ELSE "PSHB"
      Passed(p) == Deeper(Drop(gencode_lval(freelval(p.c, p.l), op(p.l), NOREG, p.l), 1))
  IN  Passed(IF l.type = "BRANCH" THEN loadlval(c, l, 0) ELSE Pair(c, l))

CallClose(c) ==
  LET f == Frame(c)
      pushed == gencode_I(c, "PSHA", NOREG, f.argc)
      called == freelval(gencode_lval(pushed, "JSB", NOREG, Top(c)), Top(c))
      popped == gencode_M(called, "LDA", REG_SP, NONAME, f.argc, REG_SP)
  IN  [SetTop(Pair(Leave(popped), Result(REG_RETURN))) EXCEPT !.csp = f.csp]

BugNoCascade(c, from, to) == c

\* Jumps to one label go on to the other.
Cascade(c, from, to) == IF from # 0 THEN genequ(c, from, to) ELSE c

\* The jump over what follows when a condition does not hold.
Skipping(p) ==
  Landed(gencode_L(Adopting(p.c, p.l.lfalse), p.l.op, Adopted(p.c, p.l.lfalse)), p.l.ltrue)

\* The first "&&" behind an operand; the label is adopted or made.
AndFirst(c) ==
  LET First(p) == Enter(Drop(Skipping(p), 1), [label |-> Adopted(p.c, p.l.lfalse)])
  IN  First(AsBranch(c, Top(c)))

\* A further operand of "&&", and whether another follows.
AndNext(c, more) ==
  LET lfalse == Frame(c).label
      Then(b, l) == IF more THEN Drop(Landed(gencode_L(b, l.op, lfalse), l.ltrue), 1)
                    ELSE SetTop(Pair(Leave(b), l))
      Operand(p) == Then(Cascade(p.c, p.l.lfalse, lfalse), [p.l EXCEPT !.lfalse = lfalse])
  IN  Operand(AsBranch(c, Top(c)))

OrFirst(c) ==
  LET ltrue(p) == Adopted(p.c, p.l.ltrue)
      jump(p) == gencode_L(Adopting(p.c, p.l.ltrue), negop(p.l.op), ltrue(p))
      First(p) == Enter(Drop(Landed(jump(p), p.l.lfalse), 1), [label |-> ltrue(p)])
  IN  First(AsBranch(c, Top(c)))

OrNext(c, more) ==
  LET ltrue == Frame(c).label
      Then(b, l) == IF more THEN Drop(Landed(gencode_L(b, negop(l.op), ltrue), l.lfalse), 1)
                    ELSE SetTop(Pair(Leave(b), l))
      Operand(p) == Then(Cascade(p.c, p.l.ltrue, ltrue), [p.l EXCEPT !.ltrue = ltrue])
  IN  Operand(AsBranch(c, Top(c)))

\* cond ?
TernaryIf(c) ==
  LET First(p) == Enter(Drop(Skipping(p), 1), [lfalse |-> Adopted(p.c, p.l.lfalse)])
  IN  First(AsBranch(c, Top(c)))

\* cond ? yes : the register is allocated before the value leaves its own.
TernaryElse(c) ==
  LET Yes(p, r, lbl) ==
        LET b == genlabel(gencode_L(NewLabels(p.c, 1), "JMP", lbl), Frame(c).lfalse)
        IN  Drop([b EXCEPT !.locals[Len(c.locals)] = [reg |-> r, lbl |-> lbl]], 1)
      Loaded(p) == Yes(p, NextReg(c), p.c.nxt + 1)
  IN  Loaded(loadlval(allocreg(c), Top(c), NextReg(c)))

TernaryEnd(c) ==
  LET No(p) == SetTop(Pair(Leave(genlabel(p.c, Frame(c).lbl)),
                           [p.l EXCEPT !.type = "ADDRESS", !.ptr = 0]))
  IN  No(loadlval(c, Top(c), Frame(c).reg))

BugWriteBack(c, r, l) ==
  Pair(gencode_lval(c, IF isWORD(l) THEN "STW" ELSE "STB", r, l), InRegister(l, r))

\* The end of a compound assignment: the value stays in its register.
WriteBack(c, r, l) ==
  Pair(freelval(gencode_lval(c, IF isWORD(l) THEN "STW" ELSE "STB", r, l), l),
       InRegister(l, r))

\* expr_assign(); opc is LDR for "=".
Assign(c, opc) ==
  LET l == Below(c)
      checked == IF isRegister(l) \/ l.type = "MEMORY" THEN c ELSE error(c)
      Compound(p, r) ==
        LET b == gencode_lval(allocreg(p.c), IF isWORD(l) THEN "LDW" ELSE "LDB", r, l)
        IN  SetBelow(WriteBack(freelval(gencode_R(b, opc, r, p.l.reg), p.l), r, l))
      Plain(p, b) == SetBelow(Pair(freelval(b, p.l), l))
      To(p) ==
        CASE isRegister(l) -> Plain(p, gencode_R(p.c, opc, l.reg, p.l.reg))
          [] ~ isRegister(l) /\ opc = "LDR" ->
               Plain(p, gencode_lval(p.c, IF isWORD(l) THEN "STW" ELSE "STB", p.l.reg, l))
          [] OTHER -> Compound(p, NextReg(p.c))
  IN  To(IF opc \in {"ADD", "SUB"} /\ isINTPTR(l) THEN Times(loadlval(checked, Top(c), 0))
         ELSE loadlval(checked, Top(c), NOREG))

\* The comma operator, and the end of an expression that is a statement.
Discard(c) == Drop(freelval(c, Top(c)), 1)

-----------------------------------------------------------------------------
(* Declarations                                                            *)

AddSym(c, x, class, l) ==
  IF Len(c.syms) >= SYMMAX THEN fatal(c)
  ELSE [c EXCEPT !.syms = Append(@, [x |-> x, class |-> class, l |-> l])]

\* multidef() is an error and no more.
Declared(c, scope, x) == \E k \in (scope + 1)..Len(c.syms) : c.syms[k].x = x
Checked(c, scope, x) == IF Declared(c, scope, x) THEN error(c) ELSE c

Bytes(d) == IF d.ptr = 0 /\ d.size = 1 THEN d.cnt ELSE d.cnt * BPW

\* declvar(): d.array adds a level of indirection; d.cnt is 1 otherwise.
declvar(c, scope, d) ==
  LET type == IF d.array THEN "ADDRESS" ELSE IF d.func THEN "FUNCTION" ELSE "MEMORY"
      ptr == IF d.array THEN d.ptr + 1 ELSE d.ptr
      b == Checked(IF (d.array \/ d.func) /\ d.class = "REGISTER" THEN error(c) ELSE c,
                   scope, d.x)
      a == allocreg(b)
      At(name, value, r) == Lval(type, ptr, d.size, name, value, r)
  IN
  CASE d.class = "REGISTER" ->
         AddSym([a EXCEPT !.reglock = @ \cup {NextReg(b)}], d.x, d.class,
                Lval("ADDRESS", ptr, d.size, NONAME, 0, NextReg(b)))
    [] d.class = "SP_AUTO" ->
         AddSym([b EXCEPT !.csp = @ - Bytes(d)], d.x, d.class,
                At(NONAME, b.csp - Bytes(d), REG_SP))
    [] d.class = "EXTERNAL" -> AddSym(b, d.x, d.class, At(Name(d.x), 0, 0))
    [] OTHER -> AddSym(Emit(b, [k |-> "udef", name |-> d.x, n |-> Bytes(d)]),
                       d.x, d.class, At(Name(d.x), 0, 0))

\* declenum(): the value follows the one before, or is given (and on the
\* stack of values).
Enumerator(c, x, given) ==
  LET v == IF given THEN Top(c).value ELSE Frame(c).seqnr
      b == IF given THEN Drop(IF isConstant(Top(c)) THEN c ELSE error(c), 1) ELSE c
      sym == AddSym(Checked(b, Frame(c).scope, x), x, "EXTERNAL", Constant(v))
  IN  [sym EXCEPT !.locals[Len(c.locals)].seqnr = v + 1]

\* declarg(): argument k, before it is known how many there are.  What it
\* refuses it declares all the same.
Accepted(c, scope, d) ==
  Checked(IF d.func /\ d.class = "REGISTER" THEN error(c) ELSE c, scope, d.x)

Argument(d, k) ==
  Lval(IF d.func THEN "FUNCTION" ELSE "MEMORY", d.ptr, d.size, NONAME,
       (2 - k) * BPW + (IF d.size = 1 /\ d.ptr = 0 THEN BPW - 1 ELSE 0), REG_AP)

\* The caller has pushed n; a register parameter is loaded at the start.
Parameter(c, k, n) ==
  LET l == [c.syms[k].l EXCEPT !.value = @ + n * BPW]
      r == NextReg(c)
      b == gencode_lval(allocreg(c), IF isWORD(l) THEN "LDW" ELSE "LDB", r, l)
  IN  IF c.syms[k].class # "REGISTER" THEN [c EXCEPT !.syms[k].l = l]
      ELSE [b EXCEPT !.reglock = @ \cup {r}, !.syms[k].l = InRegister(l, r)]

NoLoop == [swbase |-> 1, brk |-> 0, cont |-> 0, bsp |-> 0, csp |-> 0]

\* declfunc() up to the body.  The first new entry of the table is taken for
\* the function's own, also if its name was there already.
declfunc(c, f, args) ==
  LET n == Len(args)
      scope == Len(c.syms)
      old == {k \in 1..scope : c.syms[k].x = f}
      own == Lval("FUNCTION", 0, 0, Name(f), 0, 0)
      b == [NewLabels(c, 2) EXCEPT !.reguse = {REG_AP}, !.regsum = {REG_AP},
              !.reglock = c.regresvd \cup {REG_AP}, !.csp = 0, !.swinx = 1,
              !.ctx = <<NoLoop>>]
      named == Emit(b, [k |-> "function", name |-> f])
      pushed == gencode_L(gencode_R(named, "LDR", REG_RETURN, REG_SP), "PSHR", c.nxt + 2)
      start == gencode_R(pushed, "LDR", REG_AP, REG_RETURN)
      added[k \in 0..n] ==
        IF k > 0
          THEN AddSym(Accepted(added[k - 1], scope, args[k]), args[k].x, args[k].class,
                      Argument(args[k], k))
        ELSE IF old = {} \/ scope >= SYMMAX THEN AddSym(start, f, "GLOBAL", own)
        ELSE [start EXCEPT !.syms[CHOOSE k2 \in old : \A o \in old : k2 <= o] =
                             [x |-> f, class |-> "GLOBAL", l |-> own]]
      last == Len(added[n].syms)
      loaded[k \in (scope + 1)..last] ==
        IF k = scope + 1 THEN added[n] ELSE Parameter(loaded[k - 1], k, n)
      ready == IF last > scope THEN loaded[last] ELSE added[n]
  IN  Enter(ready, [ret |-> c.nxt + 1, pshr |-> c.nxt + 2, scope |-> scope,
                    inireg |-> ready.reglock])

Truncated(c, scope) == [c EXCEPT !.syms = SubSeq(@, 1, scope)]

BugStillUsed(c) == c.reguse

\* The registers that were used are known now.
Saved(c) == c.regsum

\* They are what PSHR at the start saves: its mask is given here.
EndFunction(c) ==
  LET f == Frame(c)
      b == IF c.csp # 0 \/ c.reglock # f.inireg THEN error(c) ELSE c
      saved == Emit(genlabel(b, f.ret), [k |-> "mask", lbl |-> f.pshr, regs |-> Saved(c)])
      code == Emit(Emit(saved, [k |-> "POPR", regs |-> Saved(c)]), [k |-> "RSB"])
  IN  [Leave(Truncated(code, f.scope)) EXCEPT !.ctx = <<>>]

-----------------------------------------------------------------------------
(* Statements.  ctx has the arguments of the statement() that is active.   *)

Ctx(c) == c.ctx[Len(c.ctx)]
Inside(c, x) == [c EXCEPT !.ctx = Append(@, x)]
Outside(c) == [c EXCEPT !.ctx = SubSeq(@, 1, Len(@) - 1)]
Loop(c, brk, cont) ==
  Inside(c, [Ctx(c) EXCEPT !.brk = brk, !.cont = cont, !.bsp = c.csp, !.csp = c.csp])

Adjusted(c, n) == IF n = 0 THEN c ELSE gencode_ADJSP(c, n)

Open(c) ==
  Enter(c, [sav_csp |-> c.csp, last_csp |-> c.csp, scope |-> Len(c.syms)])

\* Before a statement of a block: room for what was declared.
Allocate(c) ==
  [Adjusted(c, c.csp - Frame(c).last_csp) EXCEPT
     !.locals[Len(c.locals)].last_csp = c.csp]

RegistersOf(c, scope) ==
  {c.syms[k].l.reg : k \in {j \in (scope + 1)..Len(c.syms) : c.syms[j].class = "REGISTER"}}

\* freereg() of each local register.
Freed(c, regs) ==
  LET mine == regs \ c.regresvd
      b == IF mine \subseteq c.reguse THEN c ELSE error(c)
  IN  [b EXCEPT !.reguse = @ \ mine, !.reglock = @ \ mine]

Unwind(c, sp) == [Adjusted(c, sp - c.csp) EXCEPT !.csp = sp]

\* Declarations behind the last statement have got no room: SP is too high.
Close(c) ==
  LET f == Frame(c)
      b == Unwind(c, f.sav_csp)
  IN  Leave(Truncated(Freed(b, RegistersOf(c, f.scope)), f.scope))

\* The branch over what a condition guards.
Condition(c) ==
  LET l == Top(c)
      cc == l.type = "BRANCH"
      Leap(p, lfalse) == gencode_L(Adopting(p.c, lfalse), IF cc THEN l.op ELSE "BEQ",
                                    Adopted(p.c, lfalse))
      Over(p, lfalse) ==
        [c |-> Drop(freelval(Landed(Leap(p, lfalse), IF cc THEN l.ltrue ELSE 0), p.l), 1),
         lfalse |-> Adopted(p.c, lfalse)]
  IN  IF cc THEN Over(Pair(c, l), l.lfalse) ELSE Over(loadlval(c, l, 0), 0)

If(c) == LET Then(p) == Enter(p.c, [label |-> p.lfalse]) IN Then(Condition(c))

Else(c) ==
  LET b == gencode_L(NewLabels(c, 1), "JMP", c.nxt + 1)
  IN  [genlabel(b, Frame(c).label) EXCEPT !.locals[Len(c.locals)].label = c.nxt + 1]

EndIf(c) == Leave(genlabel(c, Frame(c).label))

While(c) == Enter(genlabel(NewLabels(c, 1), c.nxt + 1), [lbl1 |-> c.nxt + 1, lfalse |-> 0])

WhileBody(c) ==
  LET Body(p) == [Loop(p.c, p.lfalse, Frame(c).lbl1) EXCEPT
                    !.locals[Len(c.locals)].lfalse = p.lfalse]
  IN  Body(Condition(c))

EndWhile(c) ==
  LET f == Frame(c)
  IN  Leave(Outside(genlabel(gencode_L(c, "JMP", f.lbl1), f.lfalse)))

\* A break leads to the condition and a continue to the body.
Do(c) ==
  Loop(Enter(genlabel(NewLabels(c, 2), c.nxt + 1), [lbl1 |-> c.nxt + 1, lbl2 |-> c.nxt + 2]),
       c.nxt + 2, c.nxt + 1)

DoWhile(c) == Outside(genlabel(c, Frame(c).lbl2))

EndDo(c) ==
  LET l == Top(c)
      lbl1 == Frame(c).lbl1
      jump == gencode_L(Cascade(c, l.ltrue, lbl1), negop(l.op), IF l.ltrue # 0 THEN l.ltrue ELSE lbl1)
      Nonzero(p) == freelval(gencode_L(p.c, "BNE", lbl1), p.l)
  IN  Leave(Drop(IF l.type = "BRANCH" THEN Landed(jump, l.lfalse)
                 ELSE Nonzero(loadlval(c, l, 0)), 1))

\* for ( ; the first expression is a Discard.
For(c) == Enter(NewLabels(c, 2), [lbl1 |-> c.nxt + 1, lbl2 |-> c.nxt + 2])

ForCondition(c) == genlabel(c, Frame(c).lbl1)

\* Behind the condition.
ForStep(c) ==
  LET l == Top(c)
      cc == l.type = "BRANCH"
      f == Frame(c)
      Labels(p, lfalse, ltrue) ==
        LET b == freelval(gencode_L(p.c, IF cc THEN l.op ELSE "BEQ", lfalse), p.l)
            out == genlabel(gencode_L(Drop(b, 1), "JMP", ltrue), f.lbl2)
        IN  [out EXCEPT !.locals[Len(c.locals)] =
               [lbl1 |-> f.lbl1, lbl2 |-> f.lbl2, ltrue |-> ltrue, lfalse |-> lfalse]]
      b1 == Adopting(c, l.lfalse)
  IN  IF cc THEN Labels(Pair(Adopting(b1, l.ltrue), l), Adopted(c, l.lfalse), Adopted(b1, l.ltrue))
      ELSE Labels(loadlval(NewLabels(c, 2), l, 0), c.nxt + 2, c.nxt + 1)

\* Behind the third expression, which is parsed into the lval of the
\* condition: one that has been a comparison would leave its own labels there.
\* The frame keeps those of the condition, so that such an expression, and a
\* condition that is left out, are not covered.  A continue leads to the
\* condition.
ForBody(c) ==
  LET f == Frame(c)
  IN  Loop(genlabel(gencode_L(c, "JMP", f.lbl1), f.ltrue), f.lfalse, f.lbl1)

EndFor(c) ==
  LET f == Frame(c)
  IN  Leave(Outside(genlabel(gencode_L(c, "JMP", f.lbl2), f.lfalse)))

Switch(c) ==
  LET sav == c.swinx
      Begin(b, lbl1) ==
        IF sav >= SWMAX THEN fatal(b)
        ELSE Inside(Enter([b EXCEPT !.sw[sav].label = 0, !.swinx = @ + 1],
                          [lbl1 |-> lbl1, lbl2 |-> lbl1 + 1, sav |-> sav]),
                    [Ctx(c) EXCEPT !.swbase = sav, !.brk = lbl1 + 1, !.bsp = c.csp])
      Loaded(p) == Begin(Drop(gencode_L(NewLabels(p.c, 2), "JMP", p.c.nxt + 1), 1), p.c.nxt + 1)
  IN  Loaded(loadlval(c, Top(c), REG_RETURN))

\* case v: and default:
Case(c) ==
  LET v == Top(c).value
      const == IF isConstant(Top(c)) THEN c ELSE error(c)
      twice == \E k \in (Ctx(c).swbase + 1)..(c.swinx - 1) : c.sw[k].case = v
      b == genlabel(NewLabels(Drop(IF twice THEN error(const) ELSE const, 1), 1), c.nxt + 1)
  IN  IF c.swinx >= SWMAX THEN fatal(b)
      ELSE [b EXCEPT !.sw[c.swinx] = [case |-> v, label |-> c.nxt + 1], !.swinx = @ + 1]

Default(c) ==
  LET base == Ctx(c).swbase
      b == IF c.sw[base].label # 0 THEN error(c) ELSE c
  IN  [genlabel(NewLabels(b, 1), c.nxt + 1) EXCEPT !.sw[base].label = c.nxt + 1]

\* Above the table is the default.
Above(c, j, n, default) ==
  gencode_L(gencode_R(gencode_I(c, "LDA", j, n), "CMP", REG_RETURN, j), "BGT", default)

\* dumpsw(): the table, and the code that jumps through it.
dumpsw(c, base, codlbl, endlbl) ==
  LET cases == (base + 1)..(c.swinx - 1)
      lo == CHOOSE v \in {c.sw[k].case : k \in cases} : \A k \in cases : v <= c.sw[k].case
      hi == CHOOSE v \in {c.sw[k].case : k \in cases} : \A k \in cases : v >= c.sw[k].case
      default == IF c.sw[base].label # 0 THEN c.sw[base].label ELSE endlbl
      map == [n \in 1..(hi - lo + 1) |->
                IF \E k \in cases : c.sw[k].case = lo + n - 1
                  THEN c.sw[CHOOSE k \in cases : c.sw[k].case = lo + n - 1].label
                  ELSE default]
      table == Emit(NewLabels(c, 1), [k |-> "map", lbl |-> c.nxt + 1, labels |-> map])
      code == genlabel(table, codlbl)
      j == NextReg(c)
      low == gencode_R(gencode_I(allocreg(code), "LDA", j, lo), "SUB", REG_RETURN, j)
      high == Above(gencode_L(low, "BLT", default), j, hi - lo, default)
      scaled == gencode_R(high, "MUL", REG_RETURN, REG_BPW)
      load == gencode_M(scaled, "LDW", j, Local(c.nxt + 1), 0, REG_RETURN)
  IN
  CASE cases # {} -> freereg(gencode_M(load, "JMP", NOREG, NONAME, 0, j), j)
    [] cases = {} /\ c.sw[base].label # 0 -> gencode_L(c, "JMP", c.sw[base].label)
    [] OTHER -> c

EndSwitch(c) ==
  LET f == Frame(c)
      b == dumpsw(gencode_L(c, "JMP", f.lbl2), f.sav, f.lbl1, f.lbl2)
  IN  [Leave(Outside(genlabel(b, f.lbl2))) EXCEPT !.swinx = f.sav]

\* The function's frame is the first one.
Return(c, value) ==
  LET Back(b) == gencode_L(Adjusted(b, -b.csp), "JMP", b.locals[1].ret)
  IN  Back(IF value THEN Drop(loadlval(c, Top(c), REG_RETURN).c, 1) ELSE c)

Jump(c, lbl, sp) ==
  gencode_L(Adjusted(IF lbl = 0 THEN error(c) ELSE c, sp - c.csp), "JMP", lbl)

-----------------------------------------------------------------------------
(* The parser, one token at a time.                                        *)

initialize ==
  [at |-> 1, code |-> <<>>, vals |-> <<>>, locals |-> <<>>, ctx |-> <<>>, syms |-> <<>>,
   reguse |-> {}, reglock |-> {}, regsum |-> {}, regresvd |-> Reserved, nxt |-> 0,
   csp |-> 0, sw |-> [k \in 1..SWMAX |-> [case |-> 0, label |-> 0]], swinx |-> 1,
   err |-> FALSE, fatal |-> FALSE]

Compiled == gen.at > Len(toks) \/ gen.fatal
Tok == toks[gen.at]
Is(k) == ~ Compiled /\ Tok.k = k
Becomes(c) == gen' = [c EXCEPT !.at = @ + 1] /\ UNCHANGED toks

Global == gen.ctx = <<>>

\* A register that is declared outside of all functions is lost to them.
DeclareGlobal ==
  /\ Is("decl") /\ Global
  /\ LET reg == Tok.class = "REGISTER"
         b == declvar(IF reg THEN [gen EXCEPT !.reglock = {}] ELSE gen, 0, Tok)
     IN  Becomes(IF reg THEN [b EXCEPT !.regresvd = @ \cup b.reglock] ELSE b)

Declare == Is("decl") /\ ~ Global /\ Becomes(declvar(gen, Frame(gen).scope, Tok))

Enum ==
  \/ /\ Is("enum")
     /\ LET scope == IF Global THEN 0 ELSE Frame(gen).scope
        IN  Becomes(Enter(gen, [seqnr |-> 0, scope |-> scope]))
  \/ Is("enumerator") /\ Becomes(Enumerator(gen, Tok.x, Tok.given))
  \/ Is("endenum") /\ Becomes(Leave(gen))

Function ==
  \/ Is("function") /\ Becomes(declfunc(gen, Tok.f, Tok.args))
  \/ Is("endfunction") /\ Becomes(EndFunction(gen))

Primary ==
  \/ Is("num") /\ Becomes(PushVal(gen, Constant(Tok.v)))
  \/ Is("id") /\ Becomes(Identifier(gen, Tok.x))
  \/ Is("str") /\ Becomes(String(gen, Tok.bytes))
  \/ Is("argc") /\ Becomes(Argc(gen))

Operator ==
  \/ Is("bin") /\ Becomes(Binary(gen, Tok.op))
  \/ Is("cmp") /\ Becomes(Compare(gen, Tok.op))
  \/ Is("un") /\ Becomes(Unary(gen, Tok.op))
  \/ Is("step") /\ Becomes(Step(gen, Tok.op, Tok.post))
  \/ Is("index") /\ Becomes(Index(gen))
  \/ Is("assign") /\ Becomes(Assign(gen, Tok.op))
  \/ Is("discard") /\ Becomes(Discard(gen))

Call ==
  \/ Is("call") /\ Becomes(CallOpen(gen))
  \/ Is("arg") /\ Becomes(CallArg(gen))
  \/ Is("endcall") /\ Becomes(CallClose(gen))

Logical ==
  \/ Is("and1") /\ Becomes(AndFirst(gen))
  \/ Is("and") /\ Becomes(AndNext(gen, Tok.more))
  \/ Is("or1") /\ Becomes(OrFirst(gen))
  \/ Is("or") /\ Becomes(OrNext(gen, Tok.more))
  \/ Is("ternary") /\ Becomes(TernaryIf(gen))
  \/ Is("colon") /\ Becomes(TernaryElse(gen))
  \/ Is("endternary") /\ Becomes(TernaryEnd(gen))

Block ==
  \/ Is("open") /\ Becomes(Open(gen))
  \/ Is("next") /\ Becomes(Allocate(gen))
  \/ Is("close") /\ Becomes(Close(gen))

Conditional ==
  \/ Is("if") /\ Becomes(If(gen))
  \/ Is("else") /\ Becomes(Else(gen))
  \/ Is("endif") /\ Becomes(EndIf(gen))

Loops ==
  \/ Is("while") /\ Becomes(While(gen))
  \/ Is("whilebody") /\ Becomes(WhileBody(gen))
  \/ Is("endwhile") /\ Becomes(EndWhile(gen))
  \/ Is("do") /\ Becomes(Do(gen))
  \/ Is("dowhile") /\ Becomes(DoWhile(gen))
  \/ Is("enddo") /\ Becomes(EndDo(gen))
  \/ Is("for") /\ Becomes(For(gen))
  \/ Is("forcond") /\ Becomes(ForCondition(gen))
  \/ Is("forstep") /\ Becomes(ForStep(gen))
  \/ Is("forbody") /\ Becomes(ForBody(gen))
  \/ Is("endfor") /\ Becomes(EndFor(gen))

Switches ==
  \/ Is("switch") /\ Becomes(Switch(gen))
  \/ Is("case") /\ Becomes(Case(gen))
  \/ Is("default") /\ Becomes(Default(gen))
  \/ Is("endswitch") /\ Becomes(EndSwitch(gen))

Jumps ==
  \/ Is("return") /\ Becomes(Return(gen, Tok.value))
  \/ Is("break") /\ Becomes(Jump(gen, Ctx(gen).brk, Ctx(gen).bsp))
  \/ Is("continue") /\ Becomes(Jump(gen, Ctx(gen).cont, Ctx(gen).csp))

Next ==
  \/ DeclareGlobal \/ Declare \/ Enum \/ Function
  \/ Primary \/ Operator \/ Call \/ Logical
  \/ Block \/ Conditional \/ Loops \/ Switches \/ Jumps

=============================================================================
