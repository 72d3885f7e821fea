----------------------------- MODULE MCArchive -----------------------------
(* Three modules, one of them in two versions, and objects that clash.     *)
EXTENDS Archive

Object(m, v, d, n) == [mod |-> m, id |-> v, defs |-> d, len |-> n]

MCSymbols == {"f", "g", "h"}

MCObjects == {Object("a", 1, <<"f">>, 2), Object("a", 2, <<"f", "g">>, 3),
              Object("b", 1, <<"g">>, 1), Object("b", 2, <<"g">>, 4),
              Object("c", 1, <<"h">>, 2), Object("c", 2, <<"h", "h">>, 2)}

FourModules == {Object(m, 1, <<>>, 1) : m \in {"a", "b", "c", "d"}}

=============================================================================
