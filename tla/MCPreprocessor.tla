--------------------------- MODULE MCPreprocessor ---------------------------
(* Small sources: every nest of conditions up to five lines, every short    *)
(* sequence of definitions and uses, and includes that hold half of a       *)
(* condition, a definition, another include or an .END.                     *)
EXTENDS Preprocessor

MCIdents == {"A", "B", END}
MCOthers == {"1"}
MCFiles == {"f", "g"}

L(o) == [op |-> o]
If(o, w) == [op |-> o, id |-> w]
Def(w, to) == [op |-> "define", id |-> w, to |-> to]
Text(w) == [op |-> "text", id |-> w]
Inc(f) == [op |-> "include", file |-> f]

UpTo(n, S) == UNION {[1..k -> S] : k \in 0..n}

NoFiles == <<>>

\* Conditions.
CondLines == {If("ifdef", "A"), If("ifndef", "A"), L("else"), L("endif"), Text("A")}
CondSources == [main : UpTo(5, CondLines), inc : {NoFiles}]

\* Definitions: empty, to another name, to itself, to a number, of a number.
DefLines == {Def("A", <<>>), Def("A", <<"B">>), Def("B", <<"1">>), Def("A", <<"A">>),
             Text("A"), If("ifndef", "A"), L("endif")}
DefSources == [main : UpTo(4, DefLines), inc : {NoFiles}]

\* Includes.
IncFiles == {<<>>, <<L("endif"), Text("B")>>, <<Def("A", <<"B">>), Text("A")>>,
             <<Inc("f"), Text("B")>>, <<Inc("f")>>, <<L("else")>>,
             <<If("ifdef", "A")>>, <<Text(END)>>}
IncLines == {Inc("f"), Inc("g"), Inc(NONE), If("ifdef", "A"), If("ifdef", "1"),
             L("endif"), Text("A"), Text(END), Def("A", <<END>>)}
IncSources == [main : UpTo(3, IncLines),
               inc : {[f \in {"f"} |-> x] : x \in IncFiles}]

MCSources == CondSources \cup DefSources \cup IncSources

=============================================================================
