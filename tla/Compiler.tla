------------------------------ MODULE Compiler ------------------------------
(***************************************************************************)
(* xcc and the machine it compiles for: the code of Codegen is put into    *)
(* the memory of xemu and executed, and the outcome is compared with what  *)
(* the C program means, worked out here on the tree of the program without *)
(* registers, labels or a stack.                                           *)
(*                                                                         *)
(* Trees are records whose field k has the name of the token the parser    *)
(* passes last.  Between the code and the memory stand xasm and xlnk,      *)
(* which Tools is about; here a label is simply its address.               *)
(***************************************************************************)
EXTENDS Codegen, SequencesExt

CONSTANTS
  INTBITS, Bits(_, _, _), \* see Isa
  Programs,   \* programs: declarations, functions, a string, and calls of main()
  Fuel        \* instructions after which a program is given up

VARIABLE prog \* the program whose tokens are compiled: never changed

X == INSTANCE Xemu WITH Service <- LAMBDA id, r : 0

Wrap(v) == Signed(v % WORD)

-----------------------------------------------------------------------------
(* The tokens of a tree, in the order of the parser                        *)

T(k) == [k |-> k]

Joined(seq, F(_)) ==
  LET upto[n \in 0..Len(seq)] == IF n = 0 THEN <<>> ELSE upto[n - 1] \o F(seq[n])
  IN  upto[Len(seq)]

RECURSIVE Expr(_)
Expr(e) ==
  LET More(n) == [k |-> e.k, more |-> n < Len(e.of)]
      Chain(first) == Expr(e.of[1]) \o <<T(first)>> \o
        Joined([n \in 1..(Len(e.of) - 1) |-> n + 1],
               LAMBDA n : Append(Expr(e.of[n]), More(n)))
  IN
  CASE e.k \in {"num", "id", "str", "argc"} -> <<e>>
    [] e.k \in {"bin", "cmp", "assign"} ->
         Expr(e.a) \o Expr(e.b) \o <<[k |-> e.k, op |-> e.op]>>
    [] e.k = "index" -> Expr(e.a) \o Expr(e.b) \o <<T("index")>>
    [] e.k = "comma" -> Expr(e.a) \o <<T("discard")>> \o Expr(e.b)
    [] e.k = "un" -> Expr(e.a) \o <<[k |-> "un", op |-> e.op]>>
    [] e.k = "step" -> Expr(e.a) \o <<[k |-> "step", op |-> e.op, post |-> e.post]>>
    [] e.k = "and" -> Chain("and1")
    [] e.k = "or" -> Chain("or1")
    [] e.k = "ternary" -> Expr(e.a) \o <<T("ternary")>> \o Expr(e.b) \o <<T("colon")>>
                          \o Expr(e.c) \o <<T("endternary")>>
    [] e.k = "call" -> Expr(e.f) \o <<T("call")>>
                       \o Joined(e.args, LAMBDA a : Append(Expr(a), T("arg")))
                       \o <<T("endcall")>>

RECURSIVE Stmt(_)
Stmt(s) ==
  LET Item(t) == IF t.k \in {"decl", "enum"} THEN Stmt(t) ELSE <<T("next")>> \o Stmt(t) IN
  CASE s.k = "decl" -> <<s>>
    [] s.k = "enum" ->
         <<T("enum")>>
         \o Joined(s.of, LAMBDA m : m.e \o <<[k |-> "enumerator", x |-> m.x, given |-> m.e # <<>>]>>)
         \o <<T("endenum")>>
    [] s.k = "block" -> <<T("open")>> \o Joined(s.of, Item) \o <<T("close")>>
    [] s.k = "expr" -> Expr(s.e) \o <<T("discard")>>
    [] s.k = "if" -> Expr(s.e) \o <<T("if")>> \o Stmt(s.a) \o <<T("endif")>>
    [] s.k = "ifelse" -> Expr(s.e) \o <<T("if")>> \o Stmt(s.a) \o <<T("else")>> \o Stmt(s.b)
                         \o <<T("endif")>>
    [] s.k = "while" -> <<T("while")>> \o Expr(s.e) \o <<T("whilebody")>> \o Stmt(s.a)
                        \o <<T("endwhile")>>
    [] s.k = "do" -> <<T("do")>> \o Stmt(s.a) \o <<T("dowhile")>> \o Expr(s.e) \o <<T("enddo")>>
    [] s.k = "for" -> <<T("for")>> \o Expr(s.i) \o <<T("discard"), T("forcond")>> \o Expr(s.e)
                      \o <<T("forstep")>> \o Expr(s.n) \o <<T("discard"), T("forbody")>>
                      \o Stmt(s.a) \o <<T("endfor")>>
    [] s.k = "switch" -> Expr(s.e) \o <<T("switch")>> \o Stmt(s.a) \o <<T("endswitch")>>
    [] s.k = "case" -> Expr(s.e) \o <<T("case")>>
    [] s.k \in {"default", "break", "continue"} -> <<T(s.k)>>
    [] s.k = "return" -> Expr(s.e) \o <<[k |-> "return", value |-> TRUE]>>
    [] s.k = "returnvoid" -> <<[k |-> "return", value |-> FALSE]>>

Tokens(p) ==
  Joined(p.decls, Stmt)
  \o Joined(p.funcs, LAMBDA f : <<[k |-> "function", f |-> f.f, args |-> f.args]>>
                                \o Stmt(f.body) \o <<T("endfunction")>>)

-----------------------------------------------------------------------------
(* What a program means.  A store maps the name of an object to its        *)
(* elements, from 0; a pointer is a record of a name and an index, a       *)
(* function's name a record of its own.  Names are unique in a program.    *)

FunctionOf(f) == CHOOSE n \in DOMAIN prog.funcs : prog.funcs[n].f = f
IsFunction(x) == \E n \in DOMAIN prog.funcs : prog.funcs[n].f = x

\* Every declaration of the program, by name.
RECURSIVE Decls(_)
Decls(s) ==
  CASE s.k = "decl" -> {s}
    [] s.k = "block" -> UNION {Decls(s.of[n]) : n \in DOMAIN s.of}
    [] s.k \in {"if", "while", "do", "for", "switch"} -> Decls(s.a)
    [] s.k = "ifelse" -> Decls(s.a) \cup Decls(s.b)
    [] OTHER -> {}

AllDecls ==
  UNION {Decls(prog.decls[n]) : n \in DOMAIN prog.decls}
  \cup UNION {Decls(prog.funcs[n].body) : n \in DOMAIN prog.funcs}
  \cup UNION {Range(prog.funcs[n].args) : n \in DOMAIN prog.funcs}

DeclOf(x) == CHOOSE d \in AllDecls : d.x = x

Enums == UNION {IF prog.decls[n].k = "enum" THEN Range(prog.decls[n].of) ELSE {} :
                  n \in DOMAIN prog.decls}

IsChar(x) == DeclOf(x).size = 1 /\ DeclOf(x).ptr = 0
Cut(x, v) == IF IsChar(x) THEN X!Char(v % BYTE) ELSE v
Put(s, at, v) == [s EXCEPT ![at.x][at.i] = Cut(at.x, v)]

At(v, s) == [v |-> v, s |-> s]
Truth(b) == IF b THEN 1 ELSE 0

Relation(op, a, b) ==
  CASE op = "BEQ" -> a = b [] op = "BNE" -> a # b [] op = "BLT" -> a < b
    [] op = "BLE" -> a <= b [] op = "BGT" -> a > b [] op = "BGE" -> a >= b

\* Whether an expression is a pointer.
RECURSIVE Points(_)
Points(e) ==
  CASE e.k = "id" -> (\A m \in Enums : m.x # e.x) /\ (DeclOf(e.x).array \/ DeclOf(e.x).ptr > 0)
    [] e.k = "un" -> e.op = "&"
    [] e.k \in {"bin", "assign", "step"} -> Points(e.a)
    [] OTHER -> FALSE

\* An operation whose left operand is e, with the value a.
Operation(e, op, a, b) ==
  IF Points(e) THEN [a EXCEPT !.i = IF op = "ADD" THEN @ + b ELSE @ - b]
  ELSE Wrap(Calc(op, a, b))

\* Value(e, s, n): the value of an expression and the store, At(...); n is the
\* number of arguments of the function that is active.  Exec(c, s, n): what a
\* statement leads to, Goes(...).  Then(...) is what is done with the part
\* evaluated before.
RECURSIVE Value(_, _, _), Exec(_, _, _)

\* The place an expression stands for.
Place(e, s, n) ==
  LET Then(p, q) == At([p.v EXCEPT !.i = @ + q.v], q.s)
      Indexed(p) == Then(p, Value(e.b, p.s, n))
  IN  CASE e.k = "id" -> At([x |-> e.x, i |-> 0], s)
        [] e.k = "un" -> Value(e.a, s, n)
        [] e.k = "index" -> Indexed(Value(e.a, s, n))

\* What is found there.
Found(p) == At(p.s[p.v.x][p.v.i], p.s)

\* The operands of && and ||, until one has the sense.
Holds(of, sense, s, n) ==
  LET Then(p) == At((p.v # 0) = sense, p.s)
  IN  FoldLeft(LAMBDA p, e : IF p.v THEN p ELSE Then(Value(e, p.s, n)), At(FALSE, s), of)

Arguments(args, s, n) ==
  LET Then(v, p) == At(Append(v, p.v), p.s)
  IN  FoldLeft(LAMBDA q, e : Then(q.v, Value(e, q.s, n)), At(<<>>, s), args)

\* A name: a function, an enumerator, an array or a variable.
Named(x, s) ==
  IF IsFunction(x) THEN [x |-> x, i |-> 0]
  ELSE IF \E m \in Enums : m.x = x THEN (CHOOSE m \in Enums : m.x = x).v
  ELSE IF DeclOf(x).array THEN [x |-> x, i |-> 0]
  ELSE s[x][0]

\* A call: parameters are objects like others.  No function is recursive.
Invoke(f, args, s) ==
  LET fn == prog.funcs[FunctionOf(f)]
      Bound(x) == \E m \in DOMAIN fn.args : fn.args[m].x = x
      Position(x) == CHOOSE m \in DOMAIN fn.args : fn.args[m].x = x
      Then(r) == At(r.v, r.s)
  IN  Then(Exec(fn.body, [x \in DOMAIN s |-> IF Bound(x) THEN [i \in {0} |-> Cut(x, args[Position(x)])]
                                             ELSE s[x]], Len(args)))

Value(e, s, n) ==
  LET Unop(v) == CASE e.op = "NEG" -> Wrap(-v) [] e.op = "NOT" -> Wrap(-v - 1)
                     [] e.op = "!" -> Truth(v = 0)
      Answer(a, b) == IF e.k = "bin" THEN Operation(e.a, e.op, a, b)
                       ELSE IF e.k = "cmp" THEN Truth(Relation(e.op, a, b))
                       ELSE b
      Both(p, q) == At(Answer(p.v, q.v), q.s)
      One(p) ==
        CASE e.k \in {"bin", "cmp", "comma"} -> Both(p, Value(e.b, p.s, n))
          [] e.k = "ternary" -> Value(IF p.v # 0 THEN e.b ELSE e.c, p.s, n)
          [] e.k = "un" /\ e.op = "*" -> IF IsFunction(p.v.x) THEN p ELSE Found(p)
          [] OTHER -> At(Unop(p.v), p.s)
      Stored(at, t, old) == At(IF e.k = "step" /\ e.post THEN old ELSE t[at.x][at.i], t)
      Storing(at, t, old, b) ==
        Stored(at, Put(t, at, IF e.k = "assign" /\ e.op = "LDR" THEN b
                              ELSE Operation(e.a, e.op, old, b)), old)
      Into(at, q) == Storing(at, q.s, q.s[at.x][at.i], q.v)
      Changed(p) == Into(p.v, IF e.k = "step" THEN At(1, p.s) ELSE Value(e.b, p.s, n))
      Logic(p) == At(Truth(p.v = (e.k = "or")), p.s)
      Called(p, q) == Invoke(p.v.x, q.v, q.s)
      Callee(p) == Called(p, Arguments(e.args, p.s, n))
  IN
  CASE e.k = "num" -> At(Wrap(e.v), s)
    [] e.k = "argc" -> At(n, s)
    [] e.k = "str" -> At([x |-> "text", i |-> 0], s)
    [] e.k = "id" -> At(Named(e.x, s), s)
    [] e.k = "index" -> Found(Place(e, s, n))
    [] e.k = "un" /\ e.op = "&" -> Place(e.a, s, n)
    [] e.k \in {"bin", "cmp", "comma", "ternary"} \/ (e.k = "un" /\ e.op # "&") ->
         One(Value(e.a, s, n))
    [] e.k \in {"step", "assign"} -> Changed(Place(e.a, s, n))
    [] e.k \in {"and", "or"} -> Logic(Holds(e.of, e.k = "or", s, n))
    [] e.k = "call" -> Callee(Value(e.f, s, n))

\* A statement gives the store, the value returned and what follows.
Goes(how, v, s) == [how |-> how, v |-> v, s |-> s]

\* The statements of a block from m on.
Sequence(of, m, s, n) ==
  FoldLeft(LAMBDA r, c : IF r.how = "on" THEN Exec(c, r.s, n) ELSE r,
           Goes("on", 0, s), SubSeq(of, m, Len(of)))

\* A loop behind its body: the next turn is the loop without its first part.
Again(w, s, n) == Exec([w EXCEPT !.k = "while"], s, n)

Exec(c, s, n) ==
  LET On(t) == Goes("on", 0, t)
      Body(r) == CASE r.how = "return" -> r
                   [] r.how = "break" -> On(r.s)
                   [] OTHER -> Again(c, IF "n" \in DOMAIN c THEN Value(c.n, r.s, n).s ELSE r.s, n)
      Cases(v) == {m \in DOMAIN c.a.of :
                     c.a.of[m].k = "case" /\ Value(c.a.of[m].e, s, n).v = v}
      Defaults == {m \in DOMAIN c.a.of : c.a.of[m].k = "default"}
      Left(r) == IF r.how = "break" THEN On(r.s) ELSE r
      From(ms, t) == IF ms = {} THEN On(t) ELSE Left(Sequence(c.a.of, CHOOSE m \in ms : TRUE, t, n))
      Switched(ms, t) == From(IF ms # {} THEN ms ELSE Defaults, t)
      Then(p) ==
        CASE c.k = "expr" -> On(p.s)
          [] c.k = "return" -> Goes("return", p.v, p.s)
          [] c.k = "switch" -> Switched(Cases(p.v), p.s)
          [] c.k = "ifelse" -> Exec(IF p.v # 0 THEN c.a ELSE c.b, p.s, n)
          [] c.k = "if" -> IF p.v # 0 THEN Exec(c.a, p.s, n) ELSE On(p.s)
          [] c.k = "while" -> IF p.v # 0 THEN Body(Exec(c.a, p.s, n)) ELSE On(p.s)
  IN
  CASE c.k \in {"decl", "enum", "case", "default"} -> On(s)
    [] c.k = "block" -> Sequence(c.of, 1, s, n)
    [] c.k = "for" -> Again(c, Value(c.i, s, n).s, n)
    [] c.k = "do" -> Body(Exec(c.a, s, n))
    [] c.k \in {"break", "continue"} -> Goes(c.k, 0, s)
    [] c.k = "returnvoid" -> Goes("return", 0, s)
    [] OTHER -> Then(Value(c.e, s, n))

\* All objects, zero at first, and the one string of the program.
Objects == {d.x : d \in AllDecls}
Blank == [x \in Objects \cup {"text"} |->
            IF x = "text" THEN [i \in 0..(Len(prog.text) - 1) |-> X!Char(prog.text[i + 1])]
            ELSE [i \in 0..(DeclOf(x).cnt - 1) |-> 0]]

Meant(args) == Invoke("main", args, Blank)

-----------------------------------------------------------------------------
(* The code in memory.                                                     *)

IsCode(i) == i.k \notin {"text", "map", "udef"}
Items == SelectSeq(gen.code, IsCode)
         \o SelectSeq(gen.code, LAMBDA i : ~ IsCode(i))

Size(i) ==
  CASE i.k = "R" -> IF i.l >= 0 THEN 3 ELSE 2
    [] i.k = "L" -> IF i.op = "PSHR" THEN 3 ELSE 4
    [] i.k = "M" -> IF i.l >= 0 THEN 5 ELSE 4
    [] i.k = "POPR" -> 3
    [] i.k = "RSB" -> 1
    [] i.k = "text" -> Len(i.bytes) + 1
    [] i.k = "map" -> Len(i.labels) * BPW
    [] i.k = "udef" -> i.n
    [] OTHER -> 0

\* The code starts behind the call of main() and an illegal instruction.
START == 5

Addresses(items) ==
  LET at[n \in 1..(Len(items) + 1)] ==
        IF n = 1 THEN START ELSE at[n - 1] + Size(items[n - 1])
  IN  at

Mask(regs) ==
  LET sum[r \in 0..NREG] ==
        IF r = 0 THEN 0 ELSE sum[r - 1] + (IF r - 1 \in regs THEN 2^(r - 1) ELSE 0)
  IN  sum[NREG]

Defines(i, lbl) == i.k \in {"label", "equ", "mask", "text", "map"} /\ i.lbl = lbl
Names(i, x) == i.k \in {"function", "udef"} /\ i.name = x

RECURSIVE AddressOf(_, _, _)
AddressOf(items, at, lbl) ==
  LET n == CHOOSE n \in DOMAIN items : Defines(items[n], lbl) IN
  CASE items[n].k = "equ" -> AddressOf(items, at, items[n].to)
    [] items[n].k = "mask" -> Mask(items[n].regs)
    [] OTHER -> at[n]

NameAddress(items, at, x) == at[CHOOSE n \in DOMAIN items : Names(items[n], x)]

Mnemonic(op) == CASE op = "LSL" -> "ASL" [] op = "LSR" -> "ASR" [] OTHER -> op
Op(op) == <<<<Mnemonic(op), 0>>>>
Num(v) == <<X!Num(v)>>
WordBytes(w) == Num(Hi(w % WORD)) \o Num(Lo(w % WORD))

Encoded(items, at, n) ==
  LET i == items[n]
      base == CASE i.name = NONAME -> 0
                [] i.name # NONAME /\ i.name[1] = "lbl" -> AddressOf(items, at, i.name[2])
                [] OTHER -> NameAddress(items, at, i.name[2])
      address == WordBytes(base + i.ofs) \o Num(i.r)
  IN
  CASE i.k = "R" -> Op(i.op) \o (IF i.l >= 0 THEN Num(i.l) ELSE <<>>) \o Num(i.r)
    [] i.k = "L" -> Op(i.op) \o WordBytes(AddressOf(items, at, i.lbl))
                    \o (IF i.op = "PSHR" THEN <<>> ELSE Num(0))
    [] i.k = "M" -> Op(i.op) \o (IF i.l >= 0 THEN Num(i.l) ELSE <<>>) \o address
    [] i.k = "POPR" -> Op("POPR") \o WordBytes(Mask(i.regs))
    [] i.k = "RSB" -> Op("RSB")
    [] i.k = "text" -> Joined(i.bytes, Num) \o Num(0)
    [] i.k = "map" -> Joined(i.labels, LAMBDA l : WordBytes(AddressOf(items, at, l)))
    [] i.k = "udef" -> [m \in 1..i.n |-> X!Num(0)]
    [] OTHER -> <<>>

\* Above the stack pointer are the arguments, the last one lowest, below
\* them what says how many.
STACK == WORD - 64

Argued(args, v) == <<(Len(args) + 1) * BPW>> \o [n \in 1..Len(args) |-> v[Len(args) + 1 - n]]

\* What the caller of main() has in its registers.
Before == [r \in 0..(NREG - 1) |->
             CASE r = REG_0 -> 0 [] r = REG_1 -> 1 [] r = REG_BPW -> BPW [] r = REG_SP -> STACK
               [] OTHER -> 100 + r]

Machine(args) ==
  LET items == Items
      at == Addresses(items)
      words == Argued(args, args)
      code == Op("JSB") \o WordBytes(NameAddress(items, at, "main")) \o Num(0) \o Op("num")
              \o Joined([n \in DOMAIN items |-> n], LAMBDA n : Encoded(items, at, n))
      stack == Joined(words, WordBytes)
  IN  [regs |-> Before, pc |-> 0, cc |-> 0, status |-> "running", code |-> 0,
       image |-> [a \in Word |-> IF a < Len(code) THEN code[a + 1]
                                 ELSE IF a >= STACK /\ a - STACK < Len(stack)
                                   THEN stack[a - STACK + 1]
                                 ELSE X!Num(0)]]

RECURSIVE Run(_, _)
Run(m, n) == IF m.status # "running" \/ n = 0 THEN m ELSE Run(X!step(m), n - 1)

Outcome(args) == Run(Machine(args), Fuel)

-----------------------------------------------------------------------------
(***************************************************************************)
(* The compiler at work, and its properties                                *)
(***************************************************************************)

CompilerInit ==
  /\ prog \in Programs
  /\ toks = Tokens(prog)
  /\ gen = initialize

CompilerNext == Next /\ UNCHANGED prog

CompilerSpec == CompilerInit /\ [][CompilerNext]_<<vars, prog>>

Registers == 0..(NREG - 1)

\* The registers of the variables in scope.
Variables == RegistersOf(gen, 0) \ gen.regresvd

\* Between two statements of a block no register is in use but AP and those
\* of register variables, and exactly those are locked: no statement loses a
\* register or gives back one that is not its own.
RegistersReleased ==
  (Is("next") \/ Is("close")) /\ ~ gen.err =>
    /\ gen.vals = <<>>
    /\ gen.reguse = {REG_AP} \cup Variables
    /\ gen.reglock = gen.regresvd \cup {REG_AP} \cup Variables

Mentions(i) ==
  CASE i.k = "L" -> {i.lbl}
    [] i.k = "M" -> IF i.name # NONAME /\ i.name[1] = "lbl" THEN {i.name[2]} ELSE {}
    [] i.k = "map" -> Range(i.labels)
    [] i.k = "equ" -> {i.to}
    [] OTHER -> {}

\* Every local label that is mentioned is defined, and none twice: the
\* assembler finds nothing to complain about.
LabelsOnce ==
  Compiled /\ ~ gen.err =>
    /\ \A n \in DOMAIN gen.code : \A lbl \in Mentions(gen.code[n]) :
         \E m \in DOMAIN gen.code : Defines(gen.code[m], lbl)
    /\ \A n, m \in DOMAIN gen.code : \A lbl \in 1..gen.nxt :
         Defines(gen.code[n], lbl) /\ Defines(gen.code[m], lbl) => n = m

\* Objects outside of functions, after main().
Holding(m, x) ==
  LET d == DeclOf(x)
      l == gen.syms[CHOOSE k \in DOMAIN gen.syms : gen.syms[k].x = x].l
      a == NameAddress(Items, Addresses(Items), x)
  IN  IF d.class = "REGISTER" THEN [i \in {0} |-> Signed(m.regs[l.reg])]
      ELSE [i \in 0..(d.cnt - 1) |->
              IF IsChar(x) THEN X!Char(X!Val(m.image[a + i]))
              ELSE Signed(X!WordAt(m, a + i * BPW))]

\* A pointer is an address in the image and a place in the store: not compared.
Globals == {d.x : d \in {e \in Range(prog.decls) :
                            e.k = "decl" /\ e.class # "EXTERNAL" /\ e.ptr = 0}}

\* The compiled main(), on xemu, returns what the source says, and leaves in
\* the global variables what the source says, for every call.
CompiledMeans ==
  Compiled =>
    \A args \in prog.calls :
      LET m == Outcome(args)
          r == Meant(args)
      IN  /\ ~ gen.err
          /\ m.status = "stopped" /\ m.pc = START - 1
          /\ Signed(m.regs[REG_RETURN]) = r.v
          /\ \A x \in Globals : Holding(m, x) = r.s[x]

GlobalRegisters == gen.regresvd \ Reserved

\* A function gives its caller every register back, the stack pointer and
\* the argument pointer too; only R1 and the registers that belong to global
\* variables may differ.
CallerKeeps ==
  Compiled =>
    \A args \in prog.calls :
      \A r \in Registers \ ({REG_RETURN} \cup GlobalRegisters) :
        Outcome(args).regs[r] = Before[r]

=============================================================================
