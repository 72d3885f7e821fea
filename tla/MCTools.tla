------------------------------ MODULE MCTools ------------------------------
(* Programs of two modules, assembled and linked.  Words have 256 values,  *)
(* bytes 16; a run of data holds up to 8 bytes.                            *)
EXTENDS Tools, Bitwise

MCSymbols == {"___START", "f", "v", "t", "k", "q"}

Abs(x) == IF x < 0 THEN -x ELSE x
Quotient(a, b) ==
  IF (a < 0) = (b < 0) THEN Abs(a) \div Abs(b) ELSE -(Abs(a) \div Abs(b))

\* The operators of C on ints; INT stands for 2^32.
INT == WORD * WORD
ToInt(u) == IF u >= INT \div 2 THEN u - INT ELSE u
MCFold(f, a, b) ==
  CASE f = "ADD" -> a + b
    [] f = "SUB" -> a - b
    [] f = "MUL" -> a * b
    [] f = "DIV" -> Quotient(a, b)
    [] f = "MOD" -> a - b * Quotient(a, b)
    [] f = "LSR" -> a \div 2^b
    [] f = "LSL" -> a * 2^b
    [] f = "XOR" -> ToInt((a % INT) ^^ (b % INT))
    [] f = "AND" -> ToInt((a % INT) & (b % INT))
    [] f = "OR"  -> ToInt((a % INT) | (b % INT))

\* The same on the linker's words.
MCAlu(f, a, b) == MCFold(f, Signed(a), Signed(b)) % WORD

MCJunk == {-1, 0, 9}

\* Tokens, operands and statements.
N(v) == [t |-> "num", v |-> v]
S(s) == [t |-> "sym", sym |-> s]
Point == [t |-> "point"]
T(u) == [t |-> u]
O(f) == [t |-> "op", f |-> f]
NotOperand(junk) == [t |-> "word", junk |-> junk]

R(r) == [r |-> r]
Imm(e) == [e |-> e]
Mem(e, r) == [e |-> e, r |-> r]

Lbl(s) == [k |-> "label", sym |-> s, ext |-> FALSE]
Ext(s) == [k |-> "label", sym |-> s, ext |-> TRUE]
Equ(s, e) == [k |-> "equate", sym |-> s, e |-> e]
Op(opc, args) == [k |-> "opcode", opc |-> opc, args |-> args]
Sgm(s) == [k |-> "segment", seg |-> s]
Ds(size, e) == [k |-> "ds", size |-> size, e |-> e]
Dc(size, items) == [k |-> "dc", size |-> size, items |-> items]
At(e) == [k |-> "org", e |-> e]
Ex(e) == [t |-> "expr", e |-> e]
Chars(n) == [x \in 1..n |-> [t |-> "chr", v |-> x]]
End == [k |-> "end"]
Line0 == [k |-> "junk"]

Opcodes == <<"ADD", "SUB", "MUL", "DIV", "MOD", "LSR", "LSL", "XOR", "AND", "OR">>

\* Expressions: folded, relocated, and mixed in every order of sides.  f is
\* another module's, t is defined behind its use, v before it.
Exprs ==
  {<<N(0)>>, <<N(255)>>, <<N(8)>>, <<N(7)>>, <<N(9), T("neg")>>, <<N(1), T("neg")>>,
   <<N(6), T("not")>>, <<S("v")>>, <<S("t")>>, <<S("f")>>, <<S("k")>>, <<S("q")>>,
   <<Point>>, <<Point, S("v"), O("SUB")>>, <<S("t"), S("v"), O("SUB")>>,
   <<S("f"), S("v"), O("SUB")>>, <<S("v"), S("f"), O("SUB")>>,
   <<N(100), S("f"), O("SUB")>>, <<S("f"), N(100), O("SUB")>>,
   <<S("q"), N(9), T("neg"), O("ADD")>>, <<N(2), S("v"), S("k"), O("SUB"), O("SUB")>>,
   <<S("v"), N(3), S("f"), O("AND"), O("SUB")>>,
   <<S("v"), S("k"), O("ADD"), S("f"), O("SUB")>>,
   <<S("v"), S("f"), O("ADD"), S("t"), S("k"), O("SUB"), O("SUB")>>}
  \cup {<<N(13), N(3), O(o)>> : o \in {Opcodes[x] : x \in DOMAIN Opcodes}}
  \cup {<<N(200), N(2), O(o), N(3), O("ADD")>> : o \in {"SUB", "DIV", "LSR", "AND"}}
  \cup {<<S("f"), N(3), O(o)>> : o \in {Opcodes[x] : x \in DOMAIN Opcodes}}
  \cup {<<N(77), S("f"), O(o)>> : o \in {"SUB", "DIV", "MOD"}}

Main(e, n) ==
  <<Ext("___START"), Op("LDW", <<R(1), Mem(<<S("f")>>, 0)>>), Op("BEQ", <<Mem(<<S("t")>>, 0)>>),
    Equ("k", <<N(5)>>),
    Sgm("DATA"), Lbl("v"), Equ("q", <<S("v")>>), Dc(1, Chars(n)),
    Dc(2, <<Ex(<<N(3)>>), Ex(e), Ex(<<Point>>)>>), Ds(2, <<N(1)>>),
    Dc(1, <<Ex(<<S("k")>>), Ex(<<N(3)>>)>>),
    Sgm("CODE"), Op("PSHW", <<Mem(<<>>, 3)>>), Op("CMP", <<R(1), R(2)>>), Lbl("t"),
    Op("NOT", <<R(2)>>), Op("SVC", <<Imm(e)>>), Op("RSB", <<>>), End>>

Other(seg) ==
  <<Sgm("TEXT"), Dc(1, Chars(3)), Sgm("CODE"), Lbl("t"),
    Op("LDA", <<R(1), Mem(<<S("f"), N(2), O("ADD")>>, 2)>>), Sgm(seg), Ds(1, <<N(2)>>), Ext("f"),
    Ds(2, <<N(1)>>), Sgm("TEXT"), Dc(2, <<Ex(<<S("___START")>>), Ex(<<S("t")>>)>>)>>

\* .ORG, back into a gap and to a label.
Jumpy(e) ==
  <<Ext("___START"), Op("RSB", <<>>), At(<<N(9)>>), Lbl("t"), Ds(1, <<N(2)>>),
    At(<<N(4)>>), Dc(1, Chars(2)), Sgm("DATA"), Ds(1, <<N(6)>>), Lbl("v"),
    At(<<S("t")>>), Dc(2, <<Ex(e)>>), Op("JMP", <<Mem(<<S("f")>>, 0)>>),
    At(<<S("v")>>), Dc(2, <<Ex(<<S("t")>>)>>),
    Equ("k", <<N(12)>>), Equ("q", <<S("v")>>), At(<<N(10)>>), Dc(2, <<Ex(<<S("q")>>)>>)>>

\* Statements the assembler refuses, one way or the other.
Refused ==
  {<<Lbl("t"), Op("RSB", <<>>), Lbl("t"), End>>, <<Equ("t", <<N(1)>>), Lbl("t"), End>>,
   <<Lbl("t"), Sgm("DATA"), Lbl("t"), End>>, <<Lbl("t"), Equ("t", <<N(1)>>), End>>,
   <<Lbl("v"), Equ("t", <<S("v")>>), Equ("t", <<N(1)>>), Lbl("t"), End>>,
   <<Lbl("t"), Ds(1, <<S("t")>>), End>>, <<Ds(2, <<S("f"), N(1), O("ADD")>>), End>>,
   <<Dc(1, <<Ex(<<N(8)>>)>>), Dc(1, <<Ex(<<N(9), T("neg")>>)>>), End>>,
   <<At(<<S("f")>>), Lbl("v"), At(<<S("v"), N(1), O("ADD")>>), End>>,
   <<Equ("k", <<N(3)>>), At(<<S("k")>>), At(<<S("t")>>), Lbl("t"), End>>,
   <<Op("NEG", <<R(A!NOREG)>>), End>>, <<Op("SVC", <<Imm(<<NotOperand(9)>>)>>), End>>,
   <<Line0, End>>, <<Op("SVC", <<Imm(<<S("t"), T("neg")>>)>>), End>>,
   <<Equ("k", <<N(3)>>), Dc(2, <<Ex(<<S("k"), T("not")>>)>>), End>>}

MCPrograms ==
  {[main |-> Main(e, n), other |-> Other("TEXT")] : e \in Exprs, n \in 0..1}
  \cup {[main |-> Main(<<S("f")>>, n), other |-> Other(seg)] :
          n \in 2..10, seg \in {"CODE", "DATA", "TEXT", "UDEF"}}
  \cup {[main |-> Jumpy(e), other |-> Other("DATA")] : e \in Exprs}
  \cup {[main |-> s, other |-> s] : s \in Refused}

\* A name that stands for a label, defined before or behind it.
EquatePrograms ==
  {[main |-> s, other |-> <<End>>] :
     s \in {<<Ext("___START"), Lbl("t"), Equ("k", <<S("t")>>), Op("BEQ", <<Mem(<<S("k")>>, 0)>>), End>>,
            <<Ext("___START"), Equ("k", <<S("t")>>), Op("BEQ", <<Mem(<<S("k")>>, 0)>>), Lbl("t"), End>>}}

File(f) == [file |-> f, lib |-> NONE]

MCInputs ==
  {[args |-> l, obj |-> <<>>, lib |-> <<>>,
    order |-> <<"___START", "f", "v", "t", "k", "q">>, undef |-> FALSE,
    stksiz |-> 5] : l \in {<<File("main"), File("other")>>, <<File("other"), File("main")>>}}

=============================================================================
