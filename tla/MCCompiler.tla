----------------------------- MODULE MCCompiler -----------------------------
(* Functions of a few statements.  Eleven registers, of which five are     *)
(* free; words have 1024 values, bytes 32.                                 *)
EXTENDS Compiler, Bitwise

MCBits(f, a, b) ==
  CASE f = "OR" -> a | b [] f = "AND" -> a & b [] f = "XOR" -> a ^^ b

INT == 2^INTBITS
ToInt(u) == IF u >= INT \div 2 THEN u - INT ELSE u
MCCalc(op, a, b) ==
  CASE op = "ADD" -> a + b [] op = "SUB" -> a - b [] op = "MUL" -> a * b
    [] op = "DIV" -> X!Quotient(a, b) [] op = "MOD" -> a - b * X!Quotient(a, b)
    [] op = "LSL" -> a * 2^b [] op = "LSR" -> a \div 2^b
    [] op \in {"OR", "AND", "XOR"} -> ToInt(MCBits(op, a % INT, b % INT))
    [] op = "BEQ" -> Truth(a = b) [] op = "BNE" -> Truth(a # b) [] op = "BLT" -> Truth(a < b)
    [] op = "BLE" -> Truth(a <= b) [] op = "BGT" -> Truth(a > b) [] op = "BGE" -> Truth(a >= b)

\* Expressions
N(v) == [k |-> "num", v |-> v]
V(x) == [k |-> "id", x |-> x]
B(op, a, b) == [k |-> "bin", op |-> op, a |-> a, b |-> b]
C(op, a, b) == [k |-> "cmp", op |-> op, a |-> a, b |-> b]
U(op, a) == [k |-> "un", op |-> op, a |-> a]
S(op, post, a) == [k |-> "step", op |-> op, post |-> post, a |-> a]
Ix(a, b) == [k |-> "index", a |-> a, b |-> b]
As(op, a, b) == [k |-> "assign", op |-> op, a |-> a, b |-> b]
Set(a, b) == As("LDR", a, b)
Ands(of) == [k |-> "and", of |-> of]
Ors(of) == [k |-> "or", of |-> of]
Tern(a, b, c) == [k |-> "ternary", a |-> a, b |-> b, c |-> c]
Calls(f, args) == [k |-> "call", f |-> f, args |-> args]
Comma(a, b) == [k |-> "comma", a |-> a, b |-> b]
Text(bytes) == [k |-> "str", bytes |-> bytes]

\* Statements and declarations
Do1(e) == [k |-> "expr", e |-> e]
Ret(e) == [k |-> "return", e |-> e]
Blk(of) == [k |-> "block", of |-> of]
If1(e, a) == [k |-> "if", e |-> e, a |-> a]
IfElse(e, a, b) == [k |-> "ifelse", e |-> e, a |-> a, b |-> b]
Whl(e, a) == [k |-> "while", e |-> e, a |-> a]
DoW(a, e) == [k |-> "do", a |-> a, e |-> e]
ForL(i, e, n, a) == [k |-> "for", i |-> i, e |-> e, n |-> n, a |-> a]
Swi(e, of) == [k |-> "switch", e |-> e, a |-> Blk(of)]
Cas(v) == [k |-> "case", e |-> N(v)]
Word1(k) == [k |-> k]

D(class, x, size, ptr, array, cnt) ==
  [k |-> "decl", class |-> class, x |-> x, size |-> size, ptr |-> ptr, array |-> array,
   cnt |-> cnt, func |-> FALSE]
Auto(x) == D("SP_AUTO", x, BPW, 0, FALSE, 1)
Reg(x) == D("REGISTER", x, BPW, 0, FALSE, 1)
Arg(x) == D("AP_AUTO", x, BPW, 0, FALSE, 1)
Fn(f, args, of) == [f |-> f, args |-> args, body |-> Blk(of)]

\* f(a) and h(a, b), h with a register of its own.
F == Fn("f", <<Arg("fa")>>, <<Ret(B("ADD", B("MUL", V("fa"), N(2)), N(1)))>>)
H == Fn("h", <<Arg("ha"), Arg("hb")>>,
        <<Reg("hr"), Do1(Set(V("hr"), V("ha"))), Do1(As("SUB", V("hr"), V("hb"))), Ret(V("hr"))>>)

x == V("x")
y == V("y")
g == V("g")
Lt(a, b) == C("BLT", a, b)
Neg(a) == U("NEG", a)

GlobalInt(v) == D("GLOBAL", v, BPW, 0, FALSE, 1)
IntArray(class, v, n) == D(class, v, BPW, 0, TRUE, n)
CharArray(class, v, n) == D(class, v, 1, 0, TRUE, n)

Bytes3 == <<3, 9, 31>>
Given == {<<0, 5>>, <<2, 2>>, <<-9, 1>>}

\* main(int x, register int y), with the functions it calls.
Main(decls, funcs, of) ==
  [decls |-> decls, funcs |-> Append(funcs, Fn("main", <<Arg("x"), Reg("y")>>, of)),
   text |-> Bytes3, calls |-> Given]

Returns(e) == Main(<<GlobalInt("g")>>, <<>>, <<Ret(e)>>)

\* Every operator on operands in every place: a parameter in memory, one in
\* a register, a constant, one of the constants that are kept in registers.
Operands == {x, y, g, N(0), N(1), N(2), N(5)}
Divisors == {y, N(1), N(2), N(5)}
Arithmetic ==
  {B(op, a, b) : op \in {"ADD", "SUB", "MUL", "AND", "OR", "XOR"}, a \in Operands, b \in Operands}
  \cup {B(op, a, b) : op \in {"DIV", "MOD", "LSL", "LSR"}, a \in Operands, b \in Divisors}
  \cup {C(op, a, b) : op \in {"BEQ", "BNE", "BLT", "BLE", "BGT", "BGE"}, a \in {x, y, N(2)},
                      b \in {x, y, N(2)}}
  \cup {B("SUB", B("MUL", x, y), B("ADD", y, N(3))), B("SUB", x, Neg(y)), U("NOT", x), U("NOT", N(4)),
        B("ADD", B("ADD", x, y), Lt(x, y)), B("MUL", Lt(x, y), N(3)), C("BEQ", Lt(x, y), N(1)),
        B("SUB", B("ADD", x, N(1)), B("MUL", B("ADD", y, N(1)), B("SUB", x, y))), Comma(S("ADD", TRUE, x), x)}

\* Conditions: values, comparisons, and both nested in each other.
Conditions ==
  LET c == Lt(x, y)
      d == C("BEQ", x, N(2))
      e == C("BNE", y, N(1))
  IN  {x, N(0), N(3), c, U("!", x), U("!", c), B("ADD", x, N(9)), Set(x, y), S("SUB", TRUE, x),
       Ands(<<x, y>>), Ands(<<c, d>>), Ands(<<c, e, x>>), Ors(<<x, y>>), Ors(<<c, d>>),
       Ors(<<d, x, c>>), Ands(<<Ors(<<c, d>>), e>>), Ors(<<Ands(<<c, e>>), d>>),
       Ands(<<e, Ors(<<d, x>>)>>), Ors(<<d, Ands(<<x, c>>)>>), Ands(<<x, Ands(<<c, e>>)>>),
       Ors(<<d, Ors(<<x, c>>)>>), Ors(<<Ands(<<c, e>>), Ands(<<x, d>>)>>),
       Ands(<<Ors(<<d, c>>), Ors(<<x, e>>)>>),
       U("!", Ands(<<c, e>>)), U("!", Ors(<<c, d>>)), Ands(<<U("!", Ands(<<c, e>>)), y>>),
       Ors(<<U("!", Ors(<<c, d>>)), x>>), Ands(<<x, U("!", Ands(<<c, e>>))>>),
       Tern(c, x, y), Tern(Ands(<<c, e>>), d, Lt(y, x)), Tern(x, Tern(d, N(1), N(0)), y),
       Calls(V("f"), <<x>>), Calls(V("f"), <<c>>), C("BGT", Calls(V("f"), <<x>>), y)}

\* Where a condition can stand.
Uses(e) ==
  {<<Ret(e)>>, <<Ret(U("!", e))>>, <<If1(e, Ret(N(7))), Ret(N(8))>>,
   <<IfElse(e, Do1(Set(g, N(1))), Do1(Set(g, N(2)))), Ret(g)>>,
   <<Do1(Set(g, e)), Ret(B("ADD", g, N(1)))>>,
   <<Ret(Tern(e, B("ADD", x, N(1)), Neg(y)))>>,
   <<Ret(Calls(V("h"), <<e, y>>))>>,
   <<Whl(Ands(<<Lt(g, N(3)), e>>), Do1(S("ADD", FALSE, g))), Ret(g)>>,
   <<Whl(e, Blk(<<Auto("t"), Do1(Set(V("t"), g)), Do1(As("ADD", g, N(1))),
                  If1(C("BGE", V("t"), N(2)), Word1("break")), Word1("continue"), Ret(N(9))>>)), Ret(g)>>,
   <<DoW(Do1(S("ADD", TRUE, g)), Ands(<<Lt(g, N(3)), e>>)), Ret(g)>>,
   <<DoW(Do1(S("ADD", TRUE, g)), Ors(<<Ands(<<Lt(g, N(3)), e>>), Lt(g, N(2))>>)), Ret(g)>>,
   <<ForL(Set(g, N(0)), Ors(<<Lt(g, N(2)), Ands(<<Lt(g, N(4)), e>>)>>), S("ADD", FALSE, g),
          Do1(As("ADD", x, g))), Ret(x)>>,
   <<ForL(Set(g, N(0)), e, S("ADD", TRUE, g), If1(C("BEQ", g, N(2)), Word1("break"))), Ret(g)>>,
   <<Swi(e, <<Cas(0), Do1(Set(g, N(4))), Cas(2), Do1(S("ADD", TRUE, g)), Word1("break"),
              Cas(1), Ret(N(3))>>), Ret(g)>>}

Branching == {Main(<<GlobalInt("g")>>, <<F, H>>, u) : u \in UNION {Uses(e) : e \in Conditions}}

\* Calls: arguments that call, locals reached while arguments are pushed,
\* values that wait in registers meanwhile, a pointer to a function.
l == V("l")
r == V("r")
fx == Calls(V("f"), <<x>>)
CallExprs ==
  {fx, Calls(V("h"), <<fx, l>>), Calls(V("h"), <<l, fx>>), Calls(V("f"), <<Calls(V("h"), <<l, r>>)>>),
   Calls(V("h"), <<N(4), Calls(V("h"), <<l, y>>)>>), B("ADD", fx, l), B("ADD", l, fx),
   B("SUB", B("ADD", l, r), fx), B("SUB", B("ADD", l, r), B("MUL", Calls(V("f"), <<l>>), y)),
   Calls(V("h"), <<Lt(l, x), B("ADD", l, N(1))>>), Calls(V("q"), <<V("f"), l>>),
   Set(V("d"), Calls(V("h"), <<l, Set(r, N(6))>>)), Calls(V("h"), <<V("d"), [k |-> "argc"]>>),
   B("SUB", [k |-> "argc"], r), Tern(fx, l, Calls(V("f"), <<l>>))}
Q == Fn("q", <<[D("AP_AUTO", "qf", BPW, 1, FALSE, 1) EXCEPT !.func = TRUE], Arg("qx")>>,
        <<Ret(Calls(U("*", V("qf")), <<V("qx")>>))>>)
Calling ==
  {Main(<<GlobalInt("g")>>, <<F, H, Q>>,
        <<Auto("l"), Reg("r"), D("SP_AUTO", "d", 1, 0, FALSE, 1), Do1(Set(l, N(7))), Do1(Set(r, x)),
          Do1(Set(V("d"), Neg(N(3)))), Do1(Set(g, e)), Ret(B("ADD", B("MUL", l, N(9)), r))>>) :
     e \in CallExprs}

\* Memory: arrays of words and of bytes, pointers to both, every way to
\* change what is there.
Names3 == <<IntArray("GLOBAL", "a", 3), CharArray("STATIC", "b", 3), GlobalInt("g"),
            D("GLOBAL", "w", BPW, 1, FALSE, 1)>>
At1(v) == Ix(V(v), N(1))
i == V("i")
p == V("p")
MemExprs ==
  LET Places == {g, i, r, At1("a"), At1("b"), At1("m"), Ix(V("a"), i), Ix(V("b"), r),
                 Ix(V("m"), r), U("*", p), Ix(p, N(1)), Ix(p, i), U("*", U("&", g)),
                 U("*", V("o")), Ix(V("o"), i)}
  IN  {Set(e, N(20)) : e \in Places} \cup {S(op, post, e) : op \in {"ADD", "SUB"}, post \in BOOLEAN, e \in Places}
      \cup {Set(g, As(op, e, N(3))) : op \in {"ADD", "SUB", "MUL", "LSL", "DIV"},
                                      e \in {At1("a"), i, r, Ix(p, i), Ix(V("m"), r)}}
      \cup {Set(At1("a"), e) : e \in Places}
      \cup {Comma(Set(p, e), Set(U("*", p), N(11))) :
              e \in {U("&", At1("a")), B("ADD", V("a"), i), B("ADD", p, N(1)), B("SUB", B("ADD", p, r), N(1)),
                     S("ADD", FALSE, p), As("ADD", p, i), Comma(As("ADD", p, N(2)), As("SUB", p, N(1))), V("m")}}
      \cup {Set(U("*", S("ADD", TRUE, p)), N(5)), Set(g, Ix(Text(Bytes3), i)), Set(At1("b"), N(30)),
            Set(g, Set(At1("b"), N(30))), Comma(Set(V("w"), V("a")), Set(Ix(V("w"), N(2)), Lt(i, N(3)))),
            Set(i, B("ADD", At1("a"), Ix(V("a"), B("ADD", i, N(1))))), Set(g, Tern(i, At1("a"), At1("b")))}
Memory ==
  {Main(Names3, <<>>,
        <<Auto("i"), D(c.r, "r", BPW, 0, FALSE, 1), D(c.p, "p", BPW, 1, FALSE, 1),
          IntArray("SP_AUTO", "m", 2), D("SP_AUTO", "o", 1, 1, FALSE, 1),
          Do1(Set(i, Set(r, N(1)))), Do1(Set(p, V("a"))), Do1(Set(V("o"), V("b"))),
          Do1(Set(At1("m"), Set(At1("a"), x))), Do1(Set(At1("b"), y)), Do1(Set(Ix(V("m"), N(0)), N(6))), Do1(e),
          Do1(Set(Ix(V("a"), N(2)), At1("m"))), Ret(B("ADD", i, B("MUL", r, N(3))))>>) :
     e \in MemExprs, c \in {[r |-> "REGISTER", p |-> "SP_AUTO"], [r |-> "SP_AUTO", p |-> "REGISTER"]}}

\* Blocks with variables, left in every way, and switches in each other.
One == C("BEQ", x, N(2))
Nested ==
  {Blk(<<Auto("t"), Do1(Set(V("t"), x)), b, Do1(As("ADD", g, V("t")))>>) :
     b \in {If1(One, Ret(V("t"))), If1(One, Blk(<<Auto("u"), Auto("v"), Do1(Set(V("u"), N(3))), Ret(V("u"))>>)),
            Whl(Lt(g, N(4)), Blk(<<Auto("u"), Reg("v"), Do1(Set(V("v"), S("ADD", TRUE, g))), Do1(Set(V("u"), V("v"))),
                                   If1(One, Word1("break")), If1(C("BEQ", V("u"), N(1)), Word1("continue")),
                                   Do1(As("ADD", V("t"), V("u")))>>)),
            ForL(Set(g, N(0)), Lt(g, N(3)), S("ADD", TRUE, g),
                 Blk(<<IntArray("SP_AUTO", "u", 2), Do1(Set(Ix(V("u"), N(0)), g)),
                       If1(One, Word1("break")), Do1(As("ADD", V("t"), Ix(V("u"), N(0))))>>)),
            Whl(Lt(g, N(4)), Blk(<<Do1(S("ADD", TRUE, g)),
                  Swi(g, <<Cas(1), Word1("continue"), Cas(3), Ret(N(6)), Word1("default"), Word1("break")>>),
                  Do1(S("SUB", TRUE, V("t")))>>)),
            Blk(<<Reg("u"), Reg("v"), Do1(Set(V("u"), Set(V("v"), N(2)))), If1(One, Ret(V("v"))),
                  Do1(As("MUL", V("t"), V("u")))>>)}}
  \cup {Swi(e, <<Cas(5), Do1(Set(g, N(1))), Word1("break"), Word1("default"), Do1(Set(g, N(2))),
                 Swi(y, <<Cas(1), Do1(As("ADD", g, N(10))), Cas(2), Do1(As("ADD", g, N(20)))>>),
                 Cas(4), Do1(S("ADD", TRUE, g)), Word1("break")>>) :
          e \in {x, B("ADD", x, N(3)), B("ADD", x, N(5)), N(6), N(4)}}
  \cup {DoW(Blk(<<Auto("t"), Do1(Set(V("t"), S("ADD", FALSE, g))), If1(One, Ret(V("t")))>>), Lt(g, N(3)))}

Shape1 == {Main(<<GlobalInt("g"), [k |-> "enum", of |-> <<[x |-> "A", e |-> <<>>, v |-> 0],
                                   [x |-> "B", e |-> <<N(6)>>, v |-> 6], [x |-> "Z", e |-> <<>>, v |-> 7]>>]>>,
                <<>>, <<n, Ret(B("ADD", g, V(v)))>>) : n \in Nested, v \in {"A", "Z"}}

\* A global variable in a register, a parameter of one byte.
Shape2 == {Main(<<D("REGISTER", "k", BPW, 0, FALSE, 1), D("EXTERNAL", "g", BPW, 0, FALSE, 1), GlobalInt("n")>>,
                <<Fn("s", <<D("AP_AUTO", "sc", 1, 0, FALSE, 1), D("REGISTER", "sr", 1, 0, FALSE, 1)>>,
                     <<Do1(Set(V("k"), V("sc"))), Ret(B("ADD", V("sr"), N(1)))>>),
                  Fn("z", <<>>, <<Auto("zt"), If1(V("k"), [k |-> "returnvoid"]), Do1(Set(V("n"), N(5)))>>)>>,
                <<Do1(Set(V("k"), y)), Do1(Calls(V("z"), <<>>)), Do1(Set(V("k"), N(0))), Do1(Calls(V("z"), <<>>)), Do1(Set(V("k"), N(3))), Ret(B("ADD", Calls(V("s"), <<B("ADD", x, N(v)), y>>), V("k")))>>) :
             v \in {0, 30, 40}}

\* What the compiler refuses.
Bad ==
  {<<Auto("t"), Auto("t"), Ret(x)>>, <<Word1("break")>>, <<Word1("continue")>>, <<Ret(U("*", x))>>,
   <<Ret(U("&", y))>>, <<Ret(Ix(x, N(0)))>>, <<Do1(Set(B("ADD", x, y), N(1)))>>, <<Do1(Calls(x, <<>>))>>,
   <<Do1(S("ADD", TRUE, B("ADD", x, N(1))))>>, <<IntArray("REGISTER", "t", 2), Ret(x)>>, <<Ret(V("undeclared"))>>,
   <<Reg("t"), Reg("u"), Reg("v"), Reg("w"), Ret(x)>>, <<Reg("t"), Reg("u"), Reg("v"), Ret(B("ADD", x, N(1)))>>,
   <<Swi(x, <<Cas(1), Cas(1), Word1("default"), Word1("default")>>)>>,
   <<Swi(x, <<[k |-> "case", e |-> x]>>)>>,
   <<Swi(x, <<Cas(1), Cas(2), Cas(3), Cas(4), Cas(5)>>)>>,
   <<Swi(x, <<Cas(1), Cas(2), Cas(3), Cas(4), Swi(x, <<Cas(7)>>)>>)>>,
   [n \in 1..12 |-> Auto("t")]}
BadQ == [Q EXCEPT !.args = <<[@[1] EXCEPT !.class = "REGISTER"], @[2]>>]
Refused == {[Main(<<GlobalInt("g")>>, <<>>, b) EXCEPT !.calls = {}] : b \in Bad}
           \cup {[Main(<<>>, <<BadQ>>, <<Ret(x)>>) EXCEPT !.calls = {}]}

MCPrograms ==
  {Returns(e) : e \in Arithmetic} \cup Branching \cup Calling \cup Memory \cup Shape1 \cup Shape2 \cup Refused

=============================================================================
