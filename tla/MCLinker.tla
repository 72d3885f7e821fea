------------------------------ MODULE MCLinker ------------------------------
(* Small links: a main object, three modules that may need each other in a *)
(* cycle, two libraries.  Words have 256 values, bytes 16.                 *)
EXTENDS Linker, Bitwise

MCSymbols == {"f", "g", "v"}

\* REL_DIV and REL_MOD follow C: towards zero, on signed values.
Abs(x) == IF x < 0 THEN -x ELSE x
Quotient(a, b) ==
  IF (a < 0) = (b < 0) THEN Abs(a) \div Abs(b) ELSE -(Abs(a) \div Abs(b))
MCAlu(f, a, b) ==
  CASE f = "ADD" -> Add(a, b)
    [] f = "SUB" -> Sub(a, b)
    [] f = "MUL" -> (a * b) % WORD
    [] f = "DIV" -> Quotient(Signed(a), Signed(b)) % WORD
    [] f = "MOD" -> (Signed(a) - Signed(b) * Quotient(Signed(a), Signed(b))) % WORD
    [] f = "LSR" -> (Signed(a) \div 2^b) % WORD
    [] f = "LSL" -> (a * 2^b) % WORD
    [] f = "XOR" -> a ^^ b
    [] f = "AND" -> a & b
    [] f = "OR"  -> a | b

Data(d, n) == [op |-> "data", bytes |-> [b \in 1..n |-> <<d, b>>]]
Sym(s) == [op |-> "sym", sym |-> s]
PushC(seg, v) == [op |-> "push", seg |-> seg, v |-> v]
Op(f) == [op |-> "alu", f |-> f]
Plain(o) == [op |-> o]
Dsb(n) == [op |-> "dsb", n |-> n]
Def(seg, s, ofs) == [op |-> "def", seg |-> seg, sym |-> s, ofs |-> ofs]
Org(seg, ofs) == [op |-> "org", seg |-> seg, ofs |-> ofs]

\* main uses f, through an address and through an expression.
MainObj == <<Def("CODE", "___START", 1), Data("m", 2), Sym("f"), Plain("popw"),
             Org("DATA", 0), PushC("DATA", 1), PushC(NONE, 2), Op("ADD"),
             Plain("popw"), Org("CODE", 4), Data("n", 1), Plain("end")>>

\* A function d that uses u, with its data and a variable.
Fun(d, u, seg) ==
  <<Org("CODE", 0), Data(d, 1), Sym(u), Plain("popw"), Org(seg, 0), Dsb(2),
    Def(seg, d, 0), Org("CODE", 3), Data(d \o "x", 2), Plain("end")>>

\* A leaf without references, its definition in front or behind.
Leaf(d, seg) == <<Def(seg, d, 1), Org(seg, 0), Dsb(1), Dsb(1), Plain("end")>>
TextLeaf(d) == <<Org("TEXT", 0), Data(d, 3), Dsb(1), Data(d \o "z", 1),
                 Def("TEXT", d, 3), Plain("end")>>

\* Defines two symbols: pulling it for one may clash with the other.
Pair(d, e) == <<Data(d, 2), Def("CODE", d, 0), Def("CODE", e, 1), Plain("end")>>

FunA == [Fun("f", "g", "DATA") EXCEPT ![7] = Def("CODE", "f", 1)]

As == <<FunA, Pair("f", "v"), Pair("f", "g")>>
Bs == <<Fun("g", "v", "DATA"), Fun("g", "f", "TEXT"), Leaf("g", "UDEF")>>
Cs == <<Leaf("v", "UDEF"), TextLeaf("v"), Fun("v", "g", "DATA")>>

File(f) == [file |-> f, lib |-> NONE]
Lib(l) == [file |-> NONE, lib |-> l]

Lines == <<<<File("main"), Lib("L")>>,
           <<File("main"), Lib("K"), Lib("L")>>,
           <<File("main"), Lib("L"), File("c"), Lib("L")>>,
           <<File("c"), File("main"), File("a"), Lib("L")>>,
           <<Lib("L"), File("main"), Lib("K")>>>>

Libs == [L |-> {"a", "b", "c"}, K |-> {"b", "c"}]

Orders == <<<<"___START", "f", "g", "v">>, <<"v", "g", "f", "___START">>,
            <<"g", "___START", "v", "f">>, <<"f", "v", "g", "___START">>>>

Input(k) ==
  [args |-> Lines[k[1]],
   obj |-> [main |-> MainObj, a |-> As[k[2]], b |-> Bs[k[3]], c |-> Cs[k[4]]],
   lib |-> Libs, order |-> Orders[k[5]], undef |-> k[6], stksiz |-> 5]

Regular ==
  {x \in {Input(k) : k \in (1..5) \X (1..3) \X (1..3) \X (1..3) \X (1..4)
                          \X BOOLEAN} : InputOK(x)}

\* Objects that exercise every operation, or that an error ends or marks.
End == Plain("end")
Odd ==
  [ops     |-> <<Def("CODE", "___START", 0), PushC(NONE, 6), PushC(NONE, 3),
                 Op("ADD"), PushC(NONE, 5), Op("SUB"), PushC(NONE, 3), Op("MUL"),
                 PushC(NONE, 253), Op("DIV"), PushC(NONE, 3), Op("MOD"),
                 PushC(NONE, 1), Op("LSL"), PushC(NONE, 1), Op("LSR"),
                 PushC("CODE", 3), Plain("swap"), Op("XOR"), PushC(NONE, 9),
                 Op("AND"), PushC(NONE, 4), Op("OR"), Plain("neg"),
                 Plain("not"), Plain("popw"), Sym("v"), Plain("popb"), End>>,
   near    |-> <<Def("CODE", "v", 0), Dsb(1), End>>,
   far     |-> <<Def("CODE", "v", 3), Dsb(6), End>>,
   back    |-> <<Org("CODE", 3), Data("x", 2), Org("CODE", 0), Data("y", 2), End>>,
   large   |-> <<Dsb(100), Dsb(60), Org("CODE", 0), Data("x", 1), End>>,
   noend   |-> <<Data("x", 1)>>,
   unknown |-> <<Plain("unknown"), End>>,
   early   |-> <<Plain("unknown"), Def("CODE", "v", 0), End>>,
   udef    |-> <<Org("UDEF", 0), Data("x", 1), End>>,
   udefw   |-> <<Org("UDEF", 0), PushC(NONE, 1), Plain("popw"), End>>,
   udefb   |-> <<Org("UDEF", 0), PushC(NONE, 1), Plain("popb"), End>>,
   left    |-> <<PushC(NONE, 1), End>>,
   under   |-> <<PushC(NONE, 1), Op("ADD"), Plain("popw"), End>>,
   empty   |-> <<Plain("popb"), End>>,
   deep    |-> <<PushC(NONE, 1), PushC(NONE, 1), Sym("v"), Op("ADD"), Op("ADD"),
                 Plain("popw"), End>>,
   base    |-> <<Def("DATA", "___DATABASE", 0), Sym("___UDEFLEN"),
                 Plain("popw"), End>>]

OddLines ==
  {<<File("near"), File("ops")>>, <<File("far"), File("ops")>>,
   <<File("ops"), Lib("big")>>, <<File("nosuch")>>, <<Lib("nosuch")>>,
   <<Lib("empty")>>, <<File("deep"), Lib("bad")>>}
  \cup {<<File("near"), File(o)>> : o \in DOMAIN Odd}
  \cup {[n \in 1..k |-> File("near")] : k \in 5..7}

MCInputs == Regular \cup
  {[args |-> l, obj |-> Odd, lib |-> [big |-> DOMAIN Odd \ {"far", "base", "early"},
    empty |-> {}, bad |-> {"early"}], order |-> Orders[1], undef |-> u, stksiz |-> 5] :
     l \in OddLines, u \in BOOLEAN}

=============================================================================
