------------------------------ MODULE Library ------------------------------
(***************************************************************************)
(* What a library is to the users of xar: a set of named modules, no two   *)
(* of which define the same symbol.  Adding a module replaces the one of   *)
(* the same name; a module that would define a symbol a second time is     *)
(* refused and changes nothing.                                            *)
(***************************************************************************)
EXTENDS Integers, Sequences

CONSTANT Objects   \* records [mod, id, defs, len]: module name, which version
                   \* of it, the symbols it defines in order, its length

VARIABLE contents  \* the objects in the library

DefinedBy(o) == {o.defs[k] : k \in DOMAIN o.defs}

Single(o) == \A k, l \in DOMAIN o.defs : o.defs[k] = o.defs[l] => k = l

Others(m) == {o \in contents : o.mod # m}

Init == contents = {}

Create == contents' = {}

Add(o) ==
  /\ Single(o)
  /\ \A p \in Others(o.mod) : DefinedBy(p) \cap DefinedBy(o) = {}
  /\ contents' = Others(o.mod) \cup {o}

Delete(m) == contents' = Others(m)

Next ==
  \/ Create
  \/ \E o \in Objects : Add(o) \/ Delete(o.mod)

Spec == Init /\ [][Next]_contents

=============================================================================
