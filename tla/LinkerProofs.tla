---------------------------- MODULE LinkerProofs ----------------------------
(* Proofs about the symbols, the positions and the image of a link, for    *)
(* every set of objects and libraries, command line and order of the       *)
(* symbol table.                                                           *)
EXTENDS Linker, WordsProofs, SequenceTheorems, FiniteSetTheorems, WellFoundedInduction, TLAPS

\* A sequence of anything.
Row(s) == s \in Seq({s[k] : k \in DOMAIN s})

\* An entry of file2, an entry of the symbol table.
Entry(fp) ==
  \E b, p, l : fp = [file |-> fp.file, lib |-> fp.lib, base |-> b, pos |-> p, len |-> l]
Symbol(e) ==
  \E v : e = [type |-> e.type, module |-> e.module, value |-> v]

Obj(m) == in.obj[file2[m].file]

\* In these states the last module need not have been read to its end.
Partial == {"pass1", "exit1", "toomany"}
Seen(m, k) == k < ip \/ m < Len(file2) \/ pc \notin Partial

Shape ==
  /\ in \in Inputs /\ i \in Nat /\ j \in Nat \ {0} /\ ip \in Nat \ {0}
  /\ Row(file2)
  /\ \A m \in DOMAIN file2 : Entry(file2[m]) /\ file2[m].file \in DOMAIN in.obj
  /\ DOMAIN name = Named /\ \A s \in Named : Symbol(name[s])

Kinds ==
  \A s \in Named :
    /\ name[s].type \in Seg \cup {NONE, "UNDEF", "ABS"}
    /\ name[s].type = "ABS" <=> s \in Absolute

\* A symbol that has a segment has it from a module that defines it.
Origin ==
  \A s \in Named : name[s].type \in Seg =>
    name[s].module \in DOMAIN file2 /\ Defines(Obj(name[s].module), s)

\* What was read is in the table: uses, and definitions unless there was an
\* error.
Known ==
  \A m \in DOMAIN file2 : \A k \in DOMAIN Obj(m) : Seen(m, k) =>
    LET c == Obj(m)[k] IN
    /\ c.op = "sym" => name[c.sym].type # NONE
    /\ c.op = "def" /\ ~ errflag =>
         name[c.sym].type \in Seg /\ name[c.sym].module = m

\* A module from a library has given a symbol its definition, or it is being
\* read and has yet to do so.
Claimed(m) == \E s \in Named : name[s].type \in Seg /\ name[s].module = m
Pulled ==
  \A m \in DOMAIN file2 : file2[m].lib # NONE =>
    \/ Claimed(m)
    \/ /\ m = Len(file2) /\ pc \in Partial
       /\ pc = "pass1" => \E k \in DOMAIN Obj(m) :
            k >= ip /\ Obj(m)[k].op = "def" /\ name[Obj(m)[k].sym].type = "UNDEF"

\* A scan that has found nothing leaves nothing behind that it could find.
Nothing(s) == name[s].type = "UNDEF" => lbnlib(file1[i].lib, s) = NONE
Scanning ==
  /\ pc = "scan" /\ ~ found =>
       \A k \in DOMAIN in.order : k < j => Nothing(in.order[k])
  /\ pc = "scan" => file1[i].lib \in DOMAIN in.lib
  /\ pc = "pass1" /\ file1[i].lib # NONE => found /\ file1[i].lib \in DOMAIN in.lib
  /\ pc \in {"scan", "pass1", "file1"} => i >= 1
  /\ pc = "pass1" => Len(file2) >= 1

Reported ==
  pc \in {"prefix", "file2", "pass2", "exit"} /\ ~ errflag =>
    in.undef \/ \A s \in Named : name[s].type # "UNDEF"

LInv ==
  /\ Shape /\ Kinds /\ Origin /\ Known /\ Pulled /\ Scanning /\ Reported
  /\ LibraryClosed

-----------------------------------------------------------------------------
(* Sequences of anything, and the records of both tables                   *)

LEMMA RowLen ==
  ASSUME NEW s, Row(s)
  PROVE  Len(s) \in Nat /\ DOMAIN s = 1..Len(s)
<1> DEFINE T == {s[k] : k \in DOMAIN s}
<1>1. s \in Seq(T)
  BY DEF Row
<1> HIDE DEF T
<1>2. QED
  BY <1>1

LEMMA RowMade ==
  ASSUME NEW n \in Nat, NEW s, s = [k \in 1..n |-> s[k]]
  PROVE  Row(s) /\ Len(s) = n
<1> DEFINE T == {s[k] : k \in DOMAIN s}
<1>1. DOMAIN s = 1..n
  OBVIOUS
<1>2. \A k \in 1..n : s[k] \in T
  BY <1>1
<1> HIDE DEF T
<1>3. s \in [1..n -> T]
  BY <1>2
<1>4. s \in Seq(T)
  BY <1>3, IsASeq
<1>5. Len(s) = n
  BY <1>1, <1>4, LenProperties
<1>6. QED
  BY <1>4, <1>5 DEF Row, T

LEMMA RowAppend ==
  ASSUME NEW s, Row(s), NEW e
  PROVE  /\ Row(Append(s, e)) /\ Len(Append(s, e)) = Len(s) + 1
         /\ Append(s, e)[Len(s) + 1] = e
         /\ \A k \in DOMAIN s : Append(s, e)[k] = s[k]
<1> DEFINE T == {s[k] : k \in DOMAIN s} \cup {e}
           a == Append(s, e)
<1>1. s \in Seq(T) /\ e \in T
  <2>1. s \in Seq({s[k] : k \in DOMAIN s})
    BY DEF Row
  <2>2. \A k \in 1..Len(s) : s[k] \in T
    BY RowLen
  <2>3. Len(s) \in Nat /\ DOMAIN s = 1..Len(s)
    BY RowLen
  <2> DEFINE U == {s[k] : k \in DOMAIN s}
  <2>4. s \in Seq(U) /\ e \in T
    BY <2>1
  <2> HIDE DEF U, T
  <2>5. s \in [1..Len(s) -> T]
    BY <2>2, <2>3, <2>4
  <2>6. QED
    BY <2>3, <2>4, <2>5, IsASeq
<1> HIDE DEF T
<1>2. /\ a \in Seq(T) /\ Len(a) = Len(s) + 1 /\ a[Len(s) + 1] = e
      /\ \A k \in 1..Len(s) : a[k] = s[k]
  BY <1>1, AppendProperties
<1>3. Len(s) \in Nat /\ DOMAIN s = 1..Len(s)
  BY RowLen
<1> HIDE DEF a
<1>4. a = [k \in 1..(Len(s) + 1) |-> a[k]]
  BY <1>2, <1>3
<1>5. Row(a)
  BY <1>3, <1>4, RowMade
<1>6. QED
  BY <1>2, <1>3, <1>5 DEF a

LEMMA RowExcept ==
  ASSUME NEW s, Row(s), NEW c, NEW e
  PROVE  LET t == [s EXCEPT ![c] = e] IN
         /\ Row(t) /\ Len(t) = Len(s)
         /\ \A k \in DOMAIN s : t[k] = IF k = c THEN e ELSE s[k]
<1> DEFINE t == [s EXCEPT ![c] = e]
<1>1. Len(s) \in Nat /\ DOMAIN s = 1..Len(s)
  BY RowLen
<1>2. s = [k \in 1..Len(s) |-> s[k]]
  <2> DEFINE T == {s[k] : k \in DOMAIN s}
  <2>1. s \in Seq(T)
    BY DEF Row
  <2> HIDE DEF T
  <2>2. QED
    BY <1>1, <2>1
<1>3. t = [k \in 1..Len(s) |-> t[k]] /\ \A k \in 1..Len(s) : t[k] = IF k = c THEN e ELSE s[k]
  BY <1>1, <1>2
<1> HIDE DEF t
<1>4. QED
  BY <1>1, <1>3, RowMade DEF t

Keeps(e, fp) == Entry(e) /\ e.file = fp.file /\ e.lib = fp.lib

SetPos(fp, x, y) == [fp EXCEPT !.pos[x] = y]
SetBase(fp, y) == [fp EXCEPT !.base = y]
SetLen(fp, y) == [fp EXCEPT !.len = y]

LEMMA EntryUpdates ==
  ASSUME NEW fp, Entry(fp), NEW x, NEW y
  PROVE  Keeps(SetPos(fp, x, y), fp) /\ Keeps(SetBase(fp, y), fp) /\ Keeps(SetLen(fp, y), fp)
<1> DEFINE a == fp.file
           z == fp.lib
<1>1. PICK b, p, l : fp = [file |-> a, lib |-> z, base |-> b, pos |-> p, len |-> l]
  BY DEF Entry
<1> HIDE DEF a, z
<1> DEFINE Is(g, bb, pp, ll) ==
             g = [file |-> a, lib |-> z, base |-> bb, pos |-> pp, len |-> ll]
<1>2. \A g, bb, pp, ll : Is(g, bb, pp, ll) => Entry(g) /\ g.file = a /\ g.lib = z
  <2> SUFFICES ASSUME NEW g, NEW bb, NEW pp, NEW ll, Is(g, bb, pp, ll)
               PROVE  Entry(g) /\ g.file = a /\ g.lib = z
    OBVIOUS
  <2>1. g.file = a /\ g.lib = z
    OBVIOUS
  <2>2. g = [file |-> g.file, lib |-> g.lib, base |-> bb, pos |-> pp, len |-> ll]
    BY <2>1
  <2>3. QED
    BY <2>1, <2>2 DEF Entry
<1>3. Is(SetPos(fp, x, y), b, [p EXCEPT ![x] = y], l)
  BY <1>1 DEF SetPos
<1>4. Is(SetBase(fp, y), y, p, l)
  BY <1>1 DEF SetBase
<1>5. Is(SetLen(fp, y), b, p, y)
  BY <1>1 DEF SetLen
<1> HIDE DEF Is
<1>6. QED
  BY <1>2, <1>3, <1>4, <1>5 DEF a, z, Keeps

-----------------------------------------------------------------------------
(* Steps that leave alone which modules are linked and what is known of    *)
(* the symbols                                                             *)

SameMods ==
  /\ Row(file2') /\ Len(file2') = Len(file2)
  /\ \A m \in DOMAIN file2 : Keeps(file2'[m], file2[m])

SameNames ==
  /\ DOMAIN name' = Named
  /\ \A s \in Named :
       Symbol(name'[s]) /\ name'[s].type = name[s].type /\ name'[s].module = name[s].module

Quiet ==
  /\ in' = in /\ SameMods /\ SameNames
  /\ errflag => errflag'

Counters ==
  i' \in Nat /\ j' \in Nat \ {0} /\ ip' \in Nat \ {0}

LEMMA MovedKeeps ==
  ASSUME NEW fp, Entry(fp)
  PROVE  Keeps(Moved(fp), fp)
<1> DEFINE v == Add(fp.pos[curseg], Size(cmd))
<1>1. Moved(fp) = SetPos(fp, curseg, v)
  BY DEF Moved, SetPos
<1> HIDE DEF v
<1>2. QED
  BY <1>1, EntryUpdates

LEMMA SavedKeeps ==
  ASSUME NEW fp, Entry(fp)
  PROVE  Keeps(save_seg_size(fp), fp)
<1> DEFINE v == [s \in Seg |-> IF unsigned_GT(fp.pos[s], fp.len[s]) THEN fp.pos[s] ELSE fp.len[s]]
<1>1. save_seg_size(fp) = SetLen(fp, v)
  BY DEF save_seg_size, SetLen
<1> HIDE DEF v
<1>2. QED
  BY <1>1, EntryUpdates

LEMMA OrgKeeps ==
  ASSUME NEW fp, Entry(fp), NEW x, NEW y
  PROVE  Keeps(SetPos(fp, x, y), fp) /\ Keeps(SetPos(save_seg_size(fp), x, y), fp)
<1> DEFINE g == save_seg_size(fp)
<1>1. Keeps(g, fp)
  BY SavedKeeps
<1> HIDE DEF g
<1>2. Entry(g) /\ g.file = fp.file /\ g.lib = fp.lib
  BY <1>1 DEF Keeps
<1>3. Keeps(SetPos(g, x, y), fp)
  BY <1>2, EntryUpdates DEF Keeps
<1>4. Keeps(SetPos(fp, x, y), fp)
  BY EntryUpdates
<1>5. QED
  BY <1>3, <1>4 DEF g

\* One entry of file2 changes, and keeps its file and its library.
LEMMA ModsExcept ==
  ASSUME Shape, NEW c, NEW e, c \in DOMAIN file2 => Keeps(e, file2[c]),
         file2' = [file2 EXCEPT ![c] = e]
  PROVE  SameMods
<1>1. Row(file2) /\ \A m \in DOMAIN file2 : Entry(file2[m])
  BY DEF Shape
<1>2. \A m \in DOMAIN file2 : Keeps(file2[m], file2[m])
  BY <1>1 DEF Keeps
<1>3. /\ Row(file2') /\ Len(file2') = Len(file2)
      /\ \A m \in DOMAIN file2 : file2'[m] = IF m = c THEN e ELSE file2[m]
  BY <1>1, RowExcept
<1>4. QED
  BY <1>2, <1>3 DEF SameMods

LEMMA ModsUnchanged ==
  ASSUME Shape, UNCHANGED file2
  PROVE  SameMods
BY DEF Shape, SameMods, Keeps

LEMMA NamesUnchanged ==
  ASSUME Shape, UNCHANGED name
  PROVE  SameNames
BY DEF Shape, SameNames

LEMMA SameModules ==
  ASSUME Shape, in' = in, SameMods
  PROVE  /\ DOMAIN file2' = DOMAIN file2 /\ Len(file2') = Len(file2)
         /\ DOMAIN file2 = 1..Len(file2) /\ Len(file2) \in Nat
         /\ \A m \in DOMAIN file2 : Obj(m)' = Obj(m) /\ file2'[m].lib = file2[m].lib
<1>1. Row(file2) /\ Row(file2') /\ Len(file2') = Len(file2)
  BY DEF Shape, SameMods
<1>2. /\ Len(file2) \in Nat /\ DOMAIN file2 = 1..Len(file2) /\ DOMAIN file2' = 1..Len(file2')
  BY <1>1, RowLen
<1>3. QED
  BY <1>1, <1>2 DEF SameMods, Keeps, Obj

LEMMA QuietShape ==
  ASSUME Shape, Quiet, Counters
  PROVE  Shape'
<1>1. /\ DOMAIN file2' = DOMAIN file2
      /\ \A m \in DOMAIN file2 : Entry(file2'[m]) /\ file2'[m].file = file2[m].file
  BY SameModules DEF Quiet, SameMods, Keeps
<1>2. Row(file2')
  BY DEF Quiet, SameMods
<1>3. \A m \in DOMAIN file2' : Entry(file2'[m]) /\ file2'[m].file \in DOMAIN in'.obj
  BY <1>1 DEF Shape, Quiet
<1>4. DOMAIN name' = Named /\ \A s \in Named : Symbol(name'[s])
  BY DEF Quiet, SameNames
<1>5. in' \in Inputs
  BY DEF Shape, Quiet
<1>6. QED
  BY <1>2, <1>3, <1>4, <1>5 DEF Shape, Counters

\* What becomes known to be read is neither a use nor a definition.
NothingRead ==
  \A m \in DOMAIN file2 : \A k \in DOMAIN Obj(m) :
    Seen(m, k)' => Seen(m, k) \/ Obj(m)[k].op \notin {"sym", "def"}

LEMMA QuietTables ==
  ASSUME Shape, Kinds, Origin, Known, Quiet, NothingRead
  PROVE  (Kinds /\ Origin /\ Known)'
<1>1. /\ DOMAIN file2' = DOMAIN file2 /\ Len(file2') = Len(file2)
      /\ \A m \in DOMAIN file2 : Obj(m)' = Obj(m)
  BY SameModules DEF Quiet
<1>2. \A s \in Named : name'[s].type = name[s].type /\ name'[s].module = name[s].module
  BY DEF Quiet, SameNames
<1>3. Kinds'
  BY <1>2 DEF Kinds
<1>4. Origin'
  <2> SUFFICES ASSUME NEW s \in Named, name'[s].type \in Seg
               PROVE  (name[s].module \in DOMAIN file2 /\ Defines(Obj(name[s].module), s))'
    BY DEF Origin
  <2>1. name[s].module \in DOMAIN file2 /\ Defines(Obj(name[s].module), s)
    BY <1>2 DEF Origin
  <2>2. name'[s].module = name[s].module
    BY <1>2
  <2>3. QED
    BY <1>1, <2>1, <2>2 DEF Obj
<1>5. Known'
  <2> SUFFICES ASSUME NEW m \in DOMAIN file2', NEW k \in DOMAIN Obj(m)', Seen(m, k)'
               PROVE  LET c == Obj(m)'[k] IN
                      /\ c.op = "sym" => name'[c.sym].type # NONE
                      /\ c.op = "def" /\ ~ errflag' =>
                           name'[c.sym].type \in Seg /\ name'[c.sym].module = m
    BY DEF Known
  <2>1. m \in DOMAIN file2 /\ k \in DOMAIN Obj(m) /\ Obj(m)' = Obj(m)
    BY <1>1
  <2>2. Seen(m, k) \/ Obj(m)[k].op \notin {"sym", "def"}
    BY <2>1 DEF NothingRead
  <2> DEFINE c == Obj(m)[k]
  <2>3. /\ c.op = "sym" => name[c.sym].type # NONE
        /\ c.op = "def" /\ ~ errflag => name[c.sym].type \in Seg /\ name[c.sym].module = m
    BY <2>1, <2>2 DEF Known
  <2>4. c.op \in {"sym", "def"} => c.sym \in Named
    BY <2>1, InputAssumption DEF Shape, InputOK, ObjectOK, Obj
  <2>5. errflag => errflag'
    BY DEF Quiet
  <2> HIDE DEF c
  <2>6. /\ c.op = "sym" => name'[c.sym].type # NONE
        /\ c.op = "def" /\ ~ errflag' => name'[c.sym].type \in Seg /\ name'[c.sym].module = m
    BY <1>2, <2>3, <2>4, <2>5
  <2>7. QED
    BY <2>1, <2>6 DEF c
<1>6. QED
  BY <1>3, <1>4, <1>5

LEMMA QuietClaims ==
  ASSUME Quiet, NEW m, Claimed(m)
  PROVE  Claimed(m)'
BY DEF Quiet, SameNames, Claimed

\* Nobody is in the middle of a module after the step, or the program ends
\* in the middle of one.
LEMMA QuietPulled ==
  ASSUME Shape, Pulled, Quiet, pc' # "pass1", pc \in Partial => pc' \in Partial
  PROVE  Pulled'
<1> SUFFICES ASSUME NEW m \in DOMAIN file2', file2'[m].lib # NONE
             PROVE  Claimed(m)' \/ (m = Len(file2') /\ pc' \in Partial)
  BY DEF Pulled
<1>1. m \in DOMAIN file2 /\ file2[m].lib # NONE /\ Len(file2') = Len(file2)
  BY SameModules DEF Quiet
<1>2. Claimed(m) \/ (m = Len(file2) /\ pc \in Partial)
  BY <1>1 DEF Pulled
<1>3. QED
  BY <1>1, <1>2, QuietClaims

-----------------------------------------------------------------------------
(* The steps outside dopass1                                               *)

\* Unless a module has just begun or is still being read, everything that
\* was linked has been read.
LEMMA Settled ==
  ASSUME Shape, Kinds, Origin, Known, Pulled, Quiet, Counters,
         pc \notin Partial, pc' # "pass1"
  PROVE  (Shape /\ Kinds /\ Origin /\ Known /\ Pulled)'
<1>1. NothingRead
  BY DEF NothingRead, Seen
<1>2. (Kinds /\ Origin /\ Known)'
  BY <1>1, QuietTables
<1>3. QED
  BY <1>2, QuietShape, QuietPulled

LEMMA Unscanned ==
  ASSUME pc' \notin {"scan", "pass1", "file1"}
  PROVE  Scanning' /\ LibraryClosed'
BY DEF Scanning, LibraryClosed

LEMMA Unreported ==
  ASSUME pc' \notin {"prefix", "file2", "pass2", "exit"}
  PROVE  Reported'
BY DEF Reported

LEMMA LateStep ==
  ASSUME LInv, Quiet, Counters, pc \in {"prefix", "file2", "pass2"},
         pc' \in {"file2", "pass2", "exit", "exit1", "undefined"}
  PROVE  LInv'
<1>1. (Shape /\ Kinds /\ Origin /\ Known /\ Pulled)'
  BY Settled DEF LInv, Partial
<1>2. Scanning' /\ LibraryClosed'
  BY Unscanned
<1>3. Reported'
  BY DEF Reported, LInv, Quiet, SameNames
<1>4. QED
  BY <1>1, <1>2, <1>3 DEF LInv

LEMMA InitLInv ==
  ASSUME Init
  PROVE  LInv
<1> USE DEF Init, initialize
<1>1. Row(file2) /\ DOMAIN file2 = {}
  BY DEF Row
<1>2. DOMAIN name = Named /\ \A s \in Named : name[s] =
        [type |-> IF s \in Absolute THEN "ABS"
                  ELSE IF s = "___START" THEN "UNDEF" ELSE NONE,
         module |-> 0, value |-> 0]
  OBVIOUS
<1>3. \A s \in Named :
        /\ name[s].type = IF s \in Absolute THEN "ABS"
                          ELSE IF s = "___START" THEN "UNDEF" ELSE NONE
        /\ name[s].module = 0
        /\ name[s] = [type |-> name[s].type, module |-> name[s].module, value |-> 0]
  BY <1>2
<1>4. \A s \in Named : Symbol(name[s])
  BY <1>3 DEF Symbol
<1>5. Shape
  BY <1>1, <1>2, <1>4 DEF Shape
<1>6. Kinds /\ Origin
  BY <1>3 DEF Kinds, Origin, Seg, NONE
<1>7. Known /\ Pulled
  BY <1>1 DEF Known, Pulled
<1>8. Scanning /\ Reported /\ LibraryClosed
  BY DEF Scanning, Reported, LibraryClosed
<1>9. QED
  BY <1>5, <1>6, <1>7, <1>8 DEF LInv

LEMMA Unmoved ==
  ASSUME Shape, UNCHANGED <<in, file2, name>>, errflag => errflag'
  PROVE  Quiet
BY ModsUnchanged, NamesUnchanged DEF Quiet

LEMMA StartEffect ==
  ASSUME i \in Nat, startup \/ main
  PROVE  /\ UNCHANGED <<in, file2, name, errflag, j, ip>> /\ pc = "startup"
         /\ i' \in Nat /\ pc' \in {"startup", "toomany", "file1"}
         /\ pc' = "file1" => i' = 1
<1> USE DEF startup, main
<1>1. UNCHANGED <<in, file2, name, errflag, j, ip>> /\ pc = "startup"
  OBVIOUS
<1>2. \/ pc' = "toomany" /\ i' = i
      \/ pc' = pc /\ i' = i + 1
      \/ pc' = "file1" /\ i' = 1
  OBVIOUS
<1>3. QED
  BY <1>1, <1>2

LEMMA StartStep ==
  ASSUME LInv, UNCHANGED <<in, file2, name, errflag, j, ip>>, pc = "startup",
         i' \in Nat, pc' \in {"startup", "toomany", "file1"},
         pc' = "file1" => i' = 1
  PROVE  LInv'
<1>1. Quiet
  BY Unmoved DEF LInv
<1>2. Counters
  BY DEF LInv, Shape, Counters
<1>3. (Shape /\ Kinds /\ Origin /\ Known /\ Pulled)'
  BY <1>1, <1>2, Settled DEF LInv, Partial
<1>4. Reported'
  BY Unreported
<1>5. Scanning'
  BY DEF Scanning
<1>6. ~ (pc' = "file1" /\ i' > 1)
  OBVIOUS
<1>7. QED
  BY <1>3, <1>4, <1>5, <1>6 DEF LInv, LibraryClosed

\* A library is opened, or a file is missing.
LEMMA OpenStep ==
  ASSUME LInv,
         \/ File1Library
         \/ File1Object /\ file1[i].file \notin DOMAIN in.obj
  PROVE  LInv'
<1>1. Quiet
  BY Unmoved DEF LInv, Shape, File1Library, File1Object, Exit1, loops
<1>2. Counters /\ pc = "file1" /\ pc' \in {"exit1", "scan"}
  BY DEF LInv, Shape, Counters, File1Library, File1Object, Exit1, loops
<1>3. (Shape /\ Kinds /\ Origin /\ Known /\ Pulled)'
  BY <1>1, <1>2, Settled DEF LInv, Partial
<1>4. Reported'
  BY <1>2, Unreported
<1>5. LibraryClosed'
  BY <1>2 DEF LibraryClosed
<1>6. pc' = "scan" => /\ in' = in /\ file1' = file1 /\ i' = i /\ j' = 1
                      /\ file1[i].lib \in DOMAIN in.lib
  BY DEF File1Library, File1Object, Exit1, loops
<1>7. i >= 1
  BY <1>2 DEF LInv, Scanning
<1>8. Scanning'
  <2>1. in.order \in Seq(Named)
    BY InputAssumption DEF LInv, Shape, InputOK
  <2>2. DOMAIN in.order \subseteq Nat \ {0}
    BY <2>1
  <2>3. QED
    BY <1>2, <1>6, <1>7, <2>2 DEF Scanning
<1>9. QED
  BY <1>3, <1>4, <1>5, <1>8 DEF LInv

LEMMA ScanStep ==
  ASSUME LInv, ScanSkip \/ ScanAgain \/ ScanDone
  PROVE  LInv'
<1>1. Quiet
  BY Unmoved DEF LInv, Shape, ScanSkip, ScanAgain, ScanDone
<1>2. Counters /\ pc = "scan" /\ pc' \in {"file1", "scan"}
  BY DEF LInv, Shape, Counters, ScanSkip, ScanAgain, ScanDone
<1>3. (Shape /\ Kinds /\ Origin /\ Known /\ Pulled)'
  BY <1>1, <1>2, Settled DEF LInv, Partial
<1>4. Reported'
  BY <1>2, Unreported
<1>5. /\ in.order \in Seq(Named)
      /\ {in.order[k] : k \in DOMAIN in.order} = Symbols \cup {"___START"}
  BY InputAssumption DEF LInv, Shape, InputOK
<1>6. Len(in.order) \in Nat /\ DOMAIN in.order = 1..Len(in.order)
  BY <1>5
<1>7. i \in Nat /\ i >= 1 /\ j \in Nat \ {0} /\ file1[i].lib \in DOMAIN in.lib
  BY <1>2 DEF LInv, Shape, Scanning
<1>8. CASE ScanSkip
  <2>1. Nothing(in.order[j])
    BY <1>8 DEF ScanSkip, Wanted, Offered, Nothing
  <2>2. /\ j' = j + 1 /\ in' = in /\ name' = name /\ file1' = file1 /\ i' = i
        /\ found' = found /\ pc' = "scan"
    BY <1>8 DEF ScanSkip
  <2>3. ~ found => \A k \in DOMAIN in.order : k < j => Nothing(in.order[k])
    BY <1>2 DEF LInv, Scanning
  <2>4. ~ found => \A k \in DOMAIN in.order : k < j + 1 => Nothing(in.order[k])
    BY <1>6, <1>7, <2>1, <2>3
  <2>5. \A s : Nothing(s)' <=> Nothing(s)
    BY <2>2 DEF Nothing, lbnlib
  <2>6. Scanning'
    BY <1>7, <2>2, <2>4, <2>5 DEF Scanning
  <2>7. QED
    BY <1>3, <1>4, <2>2, <2>6 DEF LInv, LibraryClosed
<1>9. CASE ScanAgain
  <2>1. j' = 1 /\ in' = in /\ file1' = file1 /\ i' = i /\ pc' = "scan"
    BY <1>9 DEF ScanAgain
  <2>2. Scanning'
    BY <1>6, <1>7, <2>1 DEF Scanning
  <2>3. QED
    BY <1>3, <1>4, <2>1, <2>2 DEF LInv, LibraryClosed
<1>10. CASE ScanDone
  <2>1. /\ i' = i + 1 /\ in' = in /\ file1' = file1 /\ name' = name
        /\ pc' = "file1" /\ ~ found /\ j > Len(in.order)
    BY <1>10 DEF ScanDone
  <2>2. \A k \in DOMAIN in.order : Nothing(in.order[k])
    BY <1>2, <1>6, <1>7, <2>1 DEF LInv, Scanning
  <2>3. \A s \in Symbols \cup {"___START"} : Nothing(s)
    BY <1>5, <2>2
  <2>4. i' - 1 = i
    BY <1>7, <2>1
  <2>5. \A s \in Symbols \cup {"___START"} :
          name'[s].type = "UNDEF" => lbnlib(file1[i - 1].lib, s)' = NONE
    BY <2>1, <2>3, <2>4 DEF Nothing, lbnlib
  <2>6. LibraryClosed'
    BY <2>5 DEF LibraryClosed
  <2>7. Scanning'
    BY <1>7, <2>1 DEF Scanning
  <2>8. QED
    BY <1>3, <1>4, <2>6, <2>7 DEF LInv
<1>11. QED
  BY <1>8, <1>9, <1>10

-----------------------------------------------------------------------------
(* dopass1                                                                 *)

LEMMA NewModule ==
  ASSUME LInv, pc \notin Partial, NEW file \in DOMAIN in.obj, NEW lib,
         dopass1(file, lib), UNCHANGED <<in, name, errflag>>, i' \in Nat, j' \in Nat \ {0},
         lib # NONE => \E k \in DOMAIN in.obj[file] :
           in.obj[file][k].op = "def" /\ name[in.obj[file][k].sym].type = "UNDEF"
  PROVE  /\ (Shape /\ Kinds /\ Origin /\ Known /\ Pulled)'
         /\ pc' \in {"pass1", "toomany"} /\ Len(file2') >= 1
<1> DEFINE e == [file |-> file, lib |-> lib, base |-> Zero, pos |-> Zero, len |-> Zero]
<1>1. file2' = Append(file2, e) /\ ip' = 1 /\ pc' \in {"pass1", "toomany"}
  BY DEF dopass1
<1>2. Entry(e) /\ e.file = file /\ e.lib = lib
  <2>1. e.file = file /\ e.lib = lib
    OBVIOUS
  <2>2. \E b, p, l : e = [file |-> e.file, lib |-> e.lib, base |-> b, pos |-> p, len |-> l]
    BY <2>1
  <2>3. QED
    BY <2>1, <2>2 DEF Entry
<1> HIDE DEF e
<1>3. Row(file2)
  BY DEF LInv, Shape
<1>4. /\ Row(file2') /\ Len(file2') = Len(file2) + 1 /\ file2'[Len(file2) + 1] = e
      /\ \A m \in DOMAIN file2 : file2'[m] = file2[m]
  BY <1>1, <1>3, RowAppend
<1>5. /\ Len(file2) \in Nat /\ DOMAIN file2 = 1..Len(file2)
      /\ DOMAIN file2' = 1..(Len(file2) + 1)
  BY <1>3, <1>4, RowLen
<1>6. \A m \in DOMAIN file2' : m \in DOMAIN file2 \/ (m = Len(file2) + 1 /\ m \notin DOMAIN file2)
  BY <1>5
<1>7. \A m \in DOMAIN file2 : m \in DOMAIN file2' /\ Obj(m)' = Obj(m)
  BY <1>4, <1>5 DEF Obj
<1>8. Shape'
  <2>1. \A m \in DOMAIN file2' : Entry(file2'[m]) /\ file2'[m].file \in DOMAIN in.obj
    BY <1>2, <1>4, <1>6 DEF LInv, Shape
  <2>2. QED
    BY <1>1, <1>4, <2>1 DEF LInv, Shape
<1>9. Kinds'
  BY DEF LInv, Kinds
<1>10. Origin'
  BY <1>7 DEF LInv, Origin
<1>11. Known'
  <2> SUFFICES ASSUME NEW m \in DOMAIN file2', NEW k \in DOMAIN Obj(m)', Seen(m, k)'
               PROVE  LET c == Obj(m)'[k] IN
                      /\ c.op = "sym" => name[c.sym].type # NONE
                      /\ c.op = "def" /\ ~ errflag =>
                           name[c.sym].type \in Seg /\ name[c.sym].module = m
    BY DEF Known
  <2>1. pc' \in Partial
    BY <1>1 DEF Partial
  <2>2. m \in DOMAIN file2
    <3>1. SUFFICES ASSUME m = Len(file2) + 1
                   PROVE  FALSE
      BY <1>6
    <3>2. k < 1
      BY <1>1, <1>4, <1>5, <2>1, <3>1 DEF Seen
    <3>3. ObjectOK(Obj(m)')
      BY <1>8, InputAssumption DEF Shape, Obj, InputOK
    <3>4. QED
      <4> DEFINE b == Obj(m)'
                 T == {b[x] : x \in DOMAIN b}
      <4>1. b \in Seq(T)
        BY <3>3 DEF ObjectOK
      <4> HIDE DEF T
      <4>2. k \in 1..Len(b)
        BY <4>1
      <4>3. QED
        BY <3>2, <4>2
  <2>3. Obj(m)' = Obj(m) /\ Seen(m, k)
    BY <1>7, <2>2 DEF Seen
  <2>4. QED
    BY <2>2, <2>3 DEF LInv, Known
<1>12. Pulled'
  <2> SUFFICES ASSUME NEW m \in DOMAIN file2', file2'[m].lib # NONE
               PROVE  \/ Claimed(m)'
                      \/ /\ m = Len(file2') /\ pc' \in Partial
                         /\ pc' = "pass1" => \E k \in DOMAIN Obj(m)' :
                              k >= ip' /\ Obj(m)'[k].op = "def"
                              /\ name'[Obj(m)'[k].sym].type = "UNDEF"
    BY DEF Pulled
  <2>1. CASE m \in DOMAIN file2
    <3>1. Claimed(m)
      BY <1>4, <2>1 DEF LInv, Pulled
    <3>2. QED
      BY <3>1 DEF Claimed
  <2>2. CASE m = Len(file2) + 1
    <3>1. Obj(m)' = in.obj[file] /\ lib # NONE
      BY <1>2, <1>4, <2>2 DEF Obj
    <3>2. PICK k \in DOMAIN in.obj[file] :
            in.obj[file][k].op = "def" /\ name[in.obj[file][k].sym].type = "UNDEF"
      BY <3>1
    <3>3. ObjectOK(in.obj[file])
      BY InputAssumption DEF LInv, Shape, InputOK
    <3>4. k >= ip'
      <4> DEFINE b == in.obj[file]
                 T == {b[x] : x \in DOMAIN b}
      <4>1. b \in Seq(T)
        BY <3>3 DEF ObjectOK
      <4> HIDE DEF T
      <4>2. k \in 1..Len(b)
        BY <4>1
      <4>3. QED
        BY <1>1, <4>2
    <3>5. m = Len(file2') /\ pc' \in Partial
      BY <1>1, <1>4, <2>2 DEF Partial
    <3>6. QED
      BY <3>1, <3>2, <3>4, <3>5
  <2>3. QED
    BY <1>6, <2>1, <2>2
<1>13. QED
  BY <1>1, <1>4, <1>5, <1>8, <1>9, <1>10, <1>11, <1>12

\* A module named on the command line, or one from a library.
LEMMA LoadStep ==
  ASSUME LInv, \/ File1Object /\ file1[i].file \in DOMAIN in.obj
               \/ ScanLoad
  PROVE  LInv'
<1>1. CASE File1Object /\ file1[i].file \in DOMAIN in.obj
  <2>1. /\ pc = "file1" /\ file1[i].lib = NONE /\ dopass1(file1[i].file, NONE)
        /\ UNCHANGED <<in, name, errflag, file1, i, j, found>>
    BY <1>1 DEF File1Object, loops
  <2>2. i \in Nat /\ j \in Nat \ {0} /\ i >= 1
    BY <2>1 DEF LInv, Shape, Scanning
  <2>3. /\ (Shape /\ Kinds /\ Origin /\ Known /\ Pulled)'
        /\ pc' \in {"pass1", "toomany"} /\ Len(file2') >= 1
    BY <1>1, <2>1, <2>2, NewModule DEF Partial
  <2>4. Scanning' /\ LibraryClosed'
    BY <2>1, <2>2, <2>3 DEF Scanning, LibraryClosed
  <2>5. QED
    BY <2>3, <2>4, Unreported DEF LInv
<1>2. CASE ScanLoad
  <2>1. /\ pc = "scan" /\ j <= Len(in.order) /\ Wanted /\ Offered # NONE
        /\ dopass1(Offered, file1[i].lib)
        /\ UNCHANGED <<in, name, errflag, file1, i>>
        /\ found' = TRUE /\ j' = j + 1
    BY <1>2 DEF ScanLoad
  <2>2. i \in Nat /\ j \in Nat \ {0} /\ i >= 1 /\ file1[i].lib \in DOMAIN in.lib
    BY <2>1 DEF LInv, Shape, Scanning
  <2>3. Offered \in in.lib[file1[i].lib] /\ Defines(in.obj[Offered], in.order[j])
    BY <2>1 DEF Offered, lbnlib
  <2>4. Offered \in DOMAIN in.obj
    BY <2>2, <2>3, InputAssumption DEF LInv, Shape, InputOK
  <2>5. \E k \in DOMAIN in.obj[Offered] :
          in.obj[Offered][k].op = "def" /\ name[in.obj[Offered][k].sym].type = "UNDEF"
    BY <2>1, <2>3 DEF Defines, Wanted
  <2>6. i' \in Nat /\ j' \in Nat \ {0}
    BY <2>1, <2>2
  <2>7. /\ (Shape /\ Kinds /\ Origin /\ Known /\ Pulled)'
        /\ pc' \in {"pass1", "toomany"} /\ Len(file2') >= 1
    BY <2>1, <2>4, <2>5, <2>6, NewModule DEF Partial
  <2>8. Scanning' /\ LibraryClosed'
    BY <2>1, <2>2, <2>7 DEF Scanning, LibraryClosed
  <2>9. QED
    BY <2>7, <2>8, Unreported DEF LInv
<1>3. QED
  BY <1>1, <1>2

\* The object being read in pass 1.
LEMMA Here ==
  ASSUME LInv, pc = "pass1"
  PROVE  /\ cur = Len(file2) /\ cur \in DOMAIN file2 /\ body = Obj(cur) /\ ObjectOK(body)
         /\ Len(body) \in Nat /\ DOMAIN body = 1..Len(body)
<1>1. Len(file2) \in Nat /\ DOMAIN file2 = 1..Len(file2) /\ Len(file2) >= 1
  BY RowLen DEF LInv, Shape, Scanning
<1>2. cur = Len(file2) /\ cur \in DOMAIN file2 /\ body = Obj(cur)
  BY <1>1 DEF cur, body, Obj
<1>3. ObjectOK(body)
  BY <1>2, InputAssumption DEF LInv, Shape, Obj, InputOK
<1>4. Row(body)
  BY <1>3 DEF ObjectOK, Row
<1>5. QED
  BY <1>2, <1>3, <1>4, RowLen

LEMMA HereReading ==
  ASSUME LInv, Reading("pass1")
  PROVE  /\ ip \in DOMAIN body /\ cmd = Obj(cur)[ip] /\ ip \in Nat \ {0} /\ pc = "pass1"
         /\ cmd.op \in {"def", "sym"} => cmd.sym \in Named
         /\ cmd.op = "def" => cmd.seg \in Seg
         /\ cmd.op = "end" => ip = Len(body)
<1>1. pc = "pass1" /\ ip <= Len(body) /\ ip \in Nat \ {0}
  BY DEF LInv, Shape, Reading
<1>2. body = Obj(cur) /\ ObjectOK(body) /\ Len(body) \in Nat /\ DOMAIN body = 1..Len(body)
  BY <1>1, Here
<1>3. ip \in DOMAIN body /\ cmd = body[ip]
  BY <1>1, <1>2 DEF cmd
<1>4. QED
  BY <1>1, <1>2, <1>3 DEF ObjectOK

\* One more command has been read.
LEMMA OneMore ==
  ASSUME LInv, Reading("pass1"), Len(file2') = Len(file2), ip' = ip + 1, pc' = "pass1",
         NEW m \in DOMAIN file2, NEW k \in DOMAIN Obj(m), Seen(m, k)'
  PROVE  Seen(m, k) \/ (m = cur /\ k = ip)
<1>1. cur = Len(file2) /\ ip \in Nat /\ pc = "pass1"
  BY Here, HereReading
<1>2. Len(file2) \in Nat /\ DOMAIN file2 = 1..Len(file2)
  BY RowLen DEF LInv, Shape
<1>3. k \in Nat
  <2>1. ObjectOK(Obj(m))
    BY InputAssumption DEF LInv, Shape, Obj, InputOK
  <2>2. Row(Obj(m))
    BY <2>1 DEF ObjectOK, Row
  <2>3. QED
    BY <2>2, RowLen
<1>4. QED
  BY <1>1, <1>2, <1>3 DEF Seen, Partial

LEMMA StillReading ==
  ASSUME LInv, pc = "pass1", pc' = "pass1", UNCHANGED <<in, file1, i, found>>,
         Len(file2') = Len(file2)
  PROVE  Scanning' /\ Reported' /\ LibraryClosed'
BY DEF LInv, Scanning, Reported, LibraryClosed

\* Commands that are neither a use nor a definition.
LEMMA ReadStep ==
  ASSUME LInv, Reading("pass1"), Quiet, UNCHANGED <<pc, file1, i, j, found>>,
         ip' = ip + 1, cmd.op \notin {"sym", "def"}
  PROVE  LInv'
<1>1. pc = "pass1" /\ pc' = "pass1" /\ ip \in Nat \ {0} /\ ip \in DOMAIN body /\ cmd = Obj(cur)[ip]
  BY HereReading
<1>2. Counters
  BY <1>1 DEF LInv, Shape, Counters
<1>3. /\ DOMAIN file2' = DOMAIN file2 /\ Len(file2') = Len(file2)
      /\ \A m \in DOMAIN file2 : Obj(m)' = Obj(m) /\ file2'[m].lib = file2[m].lib
  BY SameModules DEF LInv, Quiet
<1>4. NothingRead
  BY <1>1, <1>3, OneMore DEF NothingRead
<1>5. (Shape /\ Kinds /\ Origin /\ Known)'
  BY <1>2, <1>4, QuietShape, QuietTables DEF LInv
<1>6. Pulled'
  <2> SUFFICES ASSUME NEW m \in DOMAIN file2', file2'[m].lib # NONE
               PROVE  \/ Claimed(m)'
                      \/ /\ m = Len(file2') /\ pc' \in Partial
                         /\ \E k \in DOMAIN Obj(m)' :
                              k >= ip' /\ Obj(m)'[k].op = "def"
                              /\ name'[Obj(m)'[k].sym].type = "UNDEF"
    BY DEF Pulled
  <2>1. m \in DOMAIN file2 /\ file2[m].lib # NONE /\ Obj(m)' = Obj(m)
    BY <1>3
  <2>2. CASE Claimed(m)
    BY <2>2, QuietClaims
  <2>3. CASE ~ Claimed(m)
    <3>1. m = Len(file2) /\ pc \in Partial
      BY <2>1, <2>3 DEF LInv, Pulled
    <3>2. PICK k \in DOMAIN Obj(m) :
            k >= ip /\ Obj(m)[k].op = "def" /\ name[Obj(m)[k].sym].type = "UNDEF"
      BY <1>1, <2>1, <2>3 DEF LInv, Pulled
    <3>3. cur = m /\ body = Obj(m) /\ ObjectOK(body) /\ DOMAIN body \subseteq Nat
      BY <1>1, <3>1, Here
    <3>4. k # ip
      BY <1>1, <3>2, <3>3
    <3>5. k >= ip'
      BY <1>1, <3>2, <3>3, <3>4
    <3>6. Obj(m)[k].sym \in Named
      BY <3>2, <3>3 DEF ObjectOK
    <3>7. name'[Obj(m)[k].sym].type = "UNDEF"
      BY <3>2, <3>6 DEF Quiet, SameNames
    <3>8. QED
      BY <1>1, <1>3, <2>1, <3>1, <3>2, <3>5, <3>7
  <2>4. QED
    BY <2>2, <2>3
<1>7. Scanning' /\ Reported' /\ LibraryClosed'
  BY <1>1, <1>3, StillReading DEF Quiet
<1>8. QED
  BY <1>5, <1>6, <1>7 DEF LInv

LEMMA P1QuietSteps ==
  ASSUME LInv, P1Skip \/ P1Advance \/ P1Org
  PROVE  LInv'
<1>1. Shape
  BY DEF LInv
<1>2. /\ Reading("pass1") /\ ip' = ip + 1
      /\ UNCHANGED <<in, name, errflag, pc, file1, i, j, found>>
      /\ cmd.op \notin {"sym", "def"}
  BY DEF P1Skip, P1Advance, P1Org, loops
<1>3. cur \in DOMAIN file2 /\ Entry(file2[cur])
  BY <1>1, <1>2, Here, HereReading DEF Shape
<1>4. SameMods
  <2>1. CASE P1Skip
    BY <1>1, <2>1, ModsUnchanged DEF P1Skip
  <2>2. CASE P1Advance
    <3>1. file2' = [file2 EXCEPT ![cur] = Moved(file2[cur])]
      BY <2>2 DEF P1Advance
    <3>2. Keeps(Moved(file2[cur]), file2[cur])
      BY <1>3, MovedKeeps
    <3>3. QED
      BY <1>1, <3>1, <3>2, ModsExcept
  <2>3. CASE P1Org
    <3>1. file2' = [file2 EXCEPT ![cur] = SetPos(save_seg_size(file2[cur]), cmd.seg, cmd.ofs)]
      BY <2>3 DEF P1Org, SetPos
    <3>2. Keeps(SetPos(save_seg_size(file2[cur]), cmd.seg, cmd.ofs), file2[cur])
      BY <1>3, OrgKeeps
    <3>3. QED
      BY <1>1, <3>1, <3>2, ModsExcept
  <2>4. QED
    BY <2>1, <2>2, <2>3
<1>5. Quiet
  BY <1>1, <1>2, <1>4, NamesUnchanged DEF Quiet
<1>6. QED
  BY <1>2, <1>5, ReadStep

\* The program ends in the middle of an object.
LEMMA P1Stops ==
  ASSUME LInv, P1MissingEnd \/ P1Unknown
  PROVE  LInv'
<1>1. /\ pc = "pass1" /\ pc' = "exit1" /\ (errflag => errflag')
      /\ UNCHANGED <<in, file2, name, i, j, ip>>
  BY DEF P1MissingEnd, P1Unknown, Exit1, Reading, loops
<1>2. Quiet
  BY <1>1, Unmoved DEF LInv
<1>3. Counters
  BY <1>1 DEF LInv, Shape, Counters
<1>4. NothingRead
  BY <1>1 DEF NothingRead, Seen, Partial
<1>5. (Shape /\ Kinds /\ Origin /\ Known /\ Pulled)'
  BY <1>1, <1>2, <1>3, <1>4, QuietShape, QuietTables, QuietPulled DEF LInv, Partial
<1>6. QED
  BY <1>1, <1>5, Unscanned, Unreported DEF LInv

\* REL_END is the last command: the module has been read, and what it was
\* taken for has been found.
LEMMA P1EndStep ==
  ASSUME LInv, P1End
  PROVE  LInv'
<1>1. /\ Reading("pass1") /\ cmd.op = "end" /\ file2' = [file2 EXCEPT ![cur] = save_seg_size(file2[cur])]
      /\ UNCHANGED <<in, name, errflag, file1, j, found, ip>>
      /\ \/ file1[i].lib = NONE /\ pc' = "file1" /\ i' = i + 1
         \/ file1[i].lib # NONE /\ pc' = "scan" /\ i' = i
  BY DEF P1End
<1>2. /\ ip \in DOMAIN body /\ cmd = Obj(cur)[ip] /\ ip \in Nat \ {0} /\ pc = "pass1"
      /\ ip = Len(body)
  BY <1>1, HereReading
<1>3. /\ cur = Len(file2) /\ cur \in DOMAIN file2 /\ body = Obj(cur)
      /\ Len(body) \in Nat /\ DOMAIN body = 1..Len(body)
  BY <1>2, Here
<1>4. Quiet
  <2>1. Shape /\ Entry(file2[cur])
    BY <1>3 DEF LInv, Shape
  <2>2. Keeps(save_seg_size(file2[cur]), file2[cur])
    BY <2>1, SavedKeeps
  <2>3. SameMods
    BY <1>1, <2>1, <2>2, ModsExcept
  <2>4. QED
    BY <1>1, <2>1, <2>3, NamesUnchanged DEF Quiet
<1>5. i \in Nat /\ j \in Nat \ {0} /\ i >= 1
  BY <1>2 DEF LInv, Shape, Scanning
<1>6. Counters
  BY <1>1, <1>2, <1>5 DEF Counters
<1>7. DOMAIN file2 = 1..Len(file2) /\ Len(file2) \in Nat
  BY RowLen DEF LInv, Shape
<1>8. NothingRead
  <2> SUFFICES ASSUME NEW m \in DOMAIN file2, NEW k \in DOMAIN Obj(m), ~ Seen(m, k)
               PROVE  Obj(m)[k].op \notin {"sym", "def"}
    BY DEF NothingRead
  <2>1. m = cur
    BY <1>3, <1>7 DEF Seen
  <2>2. k = ip
    BY <1>2, <1>3, <2>1 DEF Seen
  <2>3. QED
    BY <1>1, <1>2, <2>1, <2>2
<1>9. (Shape /\ Kinds /\ Origin /\ Known)'
  BY <1>4, <1>6, <1>8, QuietShape, QuietTables DEF LInv
<1>10. Pulled'
  <2> SUFFICES ASSUME NEW m \in DOMAIN file2', file2'[m].lib # NONE
               PROVE  Claimed(m)'
    BY DEF Pulled
  <2>1. m \in DOMAIN file2 /\ file2[m].lib # NONE
    BY <1>4, SameModules DEF LInv, Quiet
  <2>2. Claimed(m)
    <3> SUFFICES ASSUME ~ Claimed(m)
                 PROVE  FALSE
      OBVIOUS
    <3>1. m = Len(file2) /\ \E k \in DOMAIN Obj(m) : k >= ip /\ Obj(m)[k].op = "def"
      BY <1>2, <2>1 DEF LInv, Pulled
    <3>2. QED
      BY <1>1, <1>2, <1>3, <3>1
  <2>3. QED
    BY <1>4, <2>2, QuietClaims
<1>11. Scanning'
  BY <1>1, <1>2, <1>5 DEF LInv, Scanning
<1>12. LibraryClosed'
  <2>1. pc' = "file1" => i' - 1 = i
    BY <1>1, <1>5
  <2>2. QED
    BY <1>1, <2>1 DEF LibraryClosed
<1>13. QED
  BY <1>1, <1>9, <1>10, <1>11, <1>12, Unreported DEF LInv

LEMMA P1SymbolStep ==
  ASSUME LInv, P1Symbol
  PROVE  LInv'
<1> DEFINE s0 == cmd.sym
           v == Mention(s0)
<1>1. /\ Reading("pass1") /\ cmd.op = "sym" /\ name' = [name EXCEPT ![s0].type = v]
      /\ ip' = ip + 1 /\ UNCHANGED <<in, pc, file1, i, j, found, file2, errflag>>
  BY DEF P1Symbol, loops
<1>2. /\ ip \in DOMAIN body /\ cmd = Obj(cur)[ip] /\ ip \in Nat \ {0} /\ pc = "pass1"
      /\ s0 \in Named
  BY <1>1, HereReading
<1>3. /\ cur = Len(file2) /\ cur \in DOMAIN file2 /\ body = Obj(cur)
      /\ DOMAIN body = 1..Len(body) /\ Len(body) \in Nat
  BY <1>2, Here
<1>4. v = IF name[s0].type = NONE THEN "UNDEF" ELSE name[s0].type
  BY DEF Mention
<1> HIDE DEF s0, v
<1>5. /\ DOMAIN name' = Named
      /\ \A s \in Named : /\ Symbol(name'[s]) /\ name'[s].module = name[s].module
                          /\ name'[s].type = IF s = s0 THEN v ELSE name[s].type
  <2>1. DOMAIN name = Named /\ \A s \in Named : Symbol(name[s])
    BY DEF LInv, Shape
  <2>2. DOMAIN name' = Named /\ \A s \in Named : s # s0 => name'[s] = name[s]
    BY <1>1, <2>1
  <2> DEFINE e == name[s0]
  <2>3. name'[s0] = [e EXCEPT !.type = v]
    BY <1>1, <1>2, <2>1
  <2> DEFINE y == e.module
  <2>4. PICK x : e = [type |-> e.type, module |-> y, value |-> x]
    BY <1>2, <2>1 DEF Symbol
  <2> HIDE DEF e
  <2>5. [e EXCEPT !.type = v] = [type |-> v, module |-> y, value |-> x]
    BY <2>4
  <2> HIDE DEF y
  <2>6. name'[s0].type = v /\ name'[s0].module = y
    BY <2>3, <2>5
  <2>7. Symbol(name'[s0])
    BY <2>3, <2>5, <2>6 DEF Symbol
  <2>8. QED
    BY <2>1, <2>2, <2>6, <2>7 DEF e, y
<1>6. /\ \A m : Obj(m)' = Obj(m)
  BY <1>1 DEF Obj
<1>7. Shape'
  BY <1>1, <1>2, <1>5 DEF LInv, Shape
<1>8. \A s \in Named : /\ name'[s].type \in Seg <=> name[s].type \in Seg
                       /\ name[s].type = "UNDEF" => name'[s].type = "UNDEF"
                       /\ name[s].type # NONE => name'[s].type = name[s].type
                       /\ name'[s0].type # NONE
  BY <1>2, <1>4, <1>5 DEF Seg, NONE
<1>9. Kinds'
  BY <1>4, <1>5 DEF LInv, Kinds, NONE
<1>10. Origin'
  BY <1>1, <1>5, <1>6, <1>8 DEF LInv, Origin
<1>11. Known'
  <2> SUFFICES ASSUME NEW m \in DOMAIN file2', NEW k \in DOMAIN Obj(m)', Seen(m, k)'
               PROVE  LET c == Obj(m)'[k] IN
                      /\ c.op = "sym" => name'[c.sym].type # NONE
                      /\ c.op = "def" /\ ~ errflag' =>
                           name'[c.sym].type \in Seg /\ name'[c.sym].module = m
    BY DEF Known
  <2>1. m \in DOMAIN file2 /\ k \in DOMAIN Obj(m) /\ Obj(m)' = Obj(m)
    BY <1>1, <1>6
  <2>2. Seen(m, k) \/ (m = cur /\ k = ip)
    BY <1>1, <1>2, <2>1, OneMore
  <2> DEFINE c == Obj(m)[k]
  <2>3. c.op \in {"sym", "def"} => c.sym \in Named
    BY <2>1, InputAssumption DEF LInv, Shape, InputOK, ObjectOK, Obj
  <2>4. CASE Seen(m, k)
    <3>1. /\ c.op = "sym" => name[c.sym].type # NONE
          /\ c.op = "def" /\ ~ errflag => name[c.sym].type \in Seg /\ name[c.sym].module = m
      BY <2>1, <2>4 DEF LInv, Known
    <3> HIDE DEF c
    <3>2. /\ c.op = "sym" => name'[c.sym].type # NONE
          /\ c.op = "def" /\ ~ errflag' => name'[c.sym].type \in Seg /\ name'[c.sym].module = m
      BY <1>1, <1>5, <1>8, <2>3, <3>1
    <3>3. QED
      BY <2>1, <3>2 DEF c
  <2>5. CASE m = cur /\ k = ip
    <3>1. c = cmd /\ c.sym = s0 /\ c.op = "sym"
      BY <1>1, <1>2, <2>5 DEF s0
    <3>2. QED
      BY <1>2, <1>8, <2>1, <3>1
  <2>6. QED
    BY <2>2, <2>4, <2>5
<1>12. Pulled'
  <2> SUFFICES ASSUME NEW m \in DOMAIN file2, file2[m].lib # NONE
               PROVE  \/ Claimed(m)'
                      \/ /\ m = Len(file2)
                         /\ \E k \in DOMAIN Obj(m) :
                              k >= ip + 1 /\ Obj(m)[k].op = "def"
                              /\ name'[Obj(m)[k].sym].type = "UNDEF"
    BY <1>1, <1>2, <1>6 DEF Pulled, Partial
  <2>1. CASE Claimed(m)
    BY <2>1, <1>5, <1>8 DEF Claimed
  <2>2. CASE ~ Claimed(m)
    <3>1. m = Len(file2)
      BY <2>2 DEF LInv, Pulled
    <3>2. PICK k \in DOMAIN Obj(m) :
            k >= ip /\ Obj(m)[k].op = "def" /\ name[Obj(m)[k].sym].type = "UNDEF"
      BY <1>2, <2>2 DEF LInv, Pulled
    <3>3. k # ip /\ k \in Nat
      BY <1>1, <1>2, <1>3, <3>1, <3>2
    <3>4. Obj(m)[k].sym \in Named
      BY <3>2, InputAssumption DEF LInv, Shape, InputOK, ObjectOK, Obj
    <3>5. QED
      BY <1>2, <1>8, <3>1, <3>2, <3>3, <3>4
  <2>3. QED
    BY <2>1, <2>2
<1>13. Scanning' /\ Reported' /\ LibraryClosed'
  BY <1>1, <1>2, StillReading
<1>14. QED
  BY <1>7, <1>9, <1>10, <1>11, <1>12, <1>13 DEF LInv

\* A definition: the first one gives the symbol to this module, and whoever
\* had defined it before would have given it a segment.
LEMMA P1FirstDefinition ==
  ASSUME LInv, P1Define, Mention(cmd.sym) = "UNDEF"
  PROVE  LInv'
<1> DEFINE s0 == cmd.sym
           e == [type |-> cmd.seg, module |-> cur, value |-> cmd.ofs]
<1>1. /\ Reading("pass1") /\ cmd.op = "def" /\ name' = [name EXCEPT ![s0] = e]
      /\ ip' = ip + 1 /\ UNCHANGED <<in, pc, file1, i, j, found, file2, errflag>>
  BY DEF P1Define, loops
<1>2. /\ ip \in DOMAIN body /\ cmd = Obj(cur)[ip] /\ ip \in Nat \ {0} /\ pc = "pass1"
      /\ s0 \in Named /\ cmd.seg \in Seg
  BY <1>1, HereReading
<1>3. /\ cur = Len(file2) /\ cur \in DOMAIN file2 /\ body = Obj(cur)
  BY <1>2, Here
<1>4. name[s0].type \in {NONE, "UNDEF"} /\ name[s0].type \notin Seg /\ s0 \notin Absolute
  BY <1>2 DEF Mention, Seg, NONE, LInv, Kinds
<1>5. e.type \in Seg /\ e.module = cur /\ Symbol(e)
  BY <1>2 DEF Symbol
<1> HIDE DEF s0, e
<1>6. /\ DOMAIN name' = Named /\ name'[s0] = e
      /\ \A s \in Named : s # s0 => name'[s] = name[s]
  BY <1>1, <1>2 DEF LInv, Shape
<1>7. \A m : Obj(m)' = Obj(m)
  BY <1>1 DEF Obj
<1>8. Shape'
  BY <1>1, <1>2, <1>5, <1>6 DEF LInv, Shape
<1>9. Kinds'
  <2>1. "ABS" \notin Seg
    BY DEF Seg
  <2>2. QED
    BY <1>4, <1>5, <1>6, <2>1 DEF LInv, Kinds
<1>10. Origin'
  <2>1. Defines(Obj(cur), s0)
    BY <1>1, <1>2, <1>3 DEF Defines, s0
  <2> SUFFICES ASSUME NEW s \in Named, name'[s].type \in Seg
               PROVE  (name[s].module \in DOMAIN file2 /\ Defines(Obj(name[s].module), s))'
    BY DEF Origin
  <2>2. name'[s].module \in DOMAIN file2 /\ Defines(Obj(name'[s].module), s)
    BY <1>3, <1>5, <1>6, <2>1 DEF LInv, Origin
  <2>3. QED
    BY <1>1, <2>2 DEF Obj
<1>11. Known'
  <2> SUFFICES ASSUME NEW m \in DOMAIN file2', NEW k \in DOMAIN Obj(m)', Seen(m, k)'
               PROVE  LET c == Obj(m)'[k] IN
                      /\ c.op = "sym" => name'[c.sym].type # NONE
                      /\ c.op = "def" /\ ~ errflag' =>
                           name'[c.sym].type \in Seg /\ name'[c.sym].module = m
    BY DEF Known
  <2>1. m \in DOMAIN file2 /\ k \in DOMAIN Obj(m) /\ Obj(m)' = Obj(m)
    BY <1>1, <1>7
  <2>2. Seen(m, k) \/ (m = cur /\ k = ip)
    BY <1>1, <1>2, <2>1, OneMore
  <2> DEFINE c == Obj(m)[k]
  <2>3. c.op \in {"sym", "def"} => c.sym \in Named
    BY <2>1, InputAssumption DEF LInv, Shape, InputOK, ObjectOK, Obj
  <2>4. e.type # NONE
    BY <1>5 DEF Seg, NONE
  <2>5. CASE Seen(m, k)
    <3>1. /\ c.op = "sym" => name[c.sym].type # NONE
          /\ c.op = "def" /\ ~ errflag => name[c.sym].type \in Seg /\ name[c.sym].module = m
      BY <2>1, <2>5 DEF LInv, Known
    <3> HIDE DEF c
    <3>2. /\ c.op = "sym" => name'[c.sym].type # NONE
          /\ c.op = "def" /\ ~ errflag' => name'[c.sym].type \in Seg /\ name'[c.sym].module = m
      BY <1>1, <1>4, <1>5, <1>6, <2>3, <2>4, <3>1
    <3>3. QED
      BY <2>1, <3>2 DEF c
  <2>6. CASE m = cur /\ k = ip
    <3>1. c = cmd /\ c.sym = s0
      BY <1>1, <1>2, <2>6 DEF s0
    <3>2. QED
      BY <1>5, <1>6, <2>1, <2>6, <2>4, <3>1
  <2>7. QED
    BY <2>2, <2>5, <2>6
<1>12. Pulled'
  <2> SUFFICES ASSUME NEW m \in DOMAIN file2, file2[m].lib # NONE
               PROVE  Claimed(m)'
    BY <1>1 DEF Pulled
  <2>1. CASE m = cur
    BY <1>2, <1>5, <1>6, <2>1 DEF Claimed
  <2>2. CASE m # cur
    <3>1. Claimed(m)
      BY <1>3, <2>2 DEF LInv, Pulled
    <3>2. QED
      BY <1>4, <1>6, <3>1 DEF Claimed
  <2>3. QED
    BY <2>1, <2>2
<1>13. Scanning' /\ Reported' /\ LibraryClosed'
  BY <1>1, <1>2, StillReading
<1>14. QED
  BY <1>8, <1>9, <1>10, <1>11, <1>12, <1>13 DEF LInv

LEMMA P1SecondDefinition ==
  ASSUME LInv, P1Define, Mention(cmd.sym) # "UNDEF"
  PROVE  LInv'
<1>1. /\ Reading("pass1") /\ cmd.op = "def" /\ errflag' = TRUE
      /\ ip' = ip + 1 /\ UNCHANGED <<in, pc, file1, i, j, found, file2, name>>
  BY DEF P1Define, loops
<1>2. /\ ip \in DOMAIN body /\ cmd = Obj(cur)[ip] /\ ip \in Nat \ {0} /\ pc = "pass1"
  BY <1>1, HereReading
<1>3. /\ cur = Len(file2) /\ body = Obj(cur)
      /\ DOMAIN body = 1..Len(body) /\ Len(body) \in Nat
  BY <1>2, Here
<1>4. \A m : Obj(m)' = Obj(m)
  BY <1>1 DEF Obj
<1>5. (Shape /\ Kinds /\ Origin)'
  BY <1>1, <1>2, <1>4 DEF LInv, Shape, Kinds, Origin
<1>6. Known'
  <2> SUFFICES ASSUME NEW m \in DOMAIN file2, NEW k \in DOMAIN Obj(m), Seen(m, k)',
                      Obj(m)[k].op = "sym"
               PROVE  name[Obj(m)[k].sym].type # NONE
    BY <1>1, <1>4 DEF Known
  <2>1. Seen(m, k) \/ (m = cur /\ k = ip)
    BY <1>1, <1>2, OneMore
  <2>2. Seen(m, k)
    BY <1>1, <1>2, <2>1
  <2>3. QED
    BY <2>2 DEF LInv, Known
<1>7. Pulled'
  <2> SUFFICES ASSUME NEW m \in DOMAIN file2, file2[m].lib # NONE, ~ Claimed(m)
               PROVE  /\ m = Len(file2)
                      /\ \E k \in DOMAIN Obj(m) :
                           k >= ip + 1 /\ Obj(m)[k].op = "def"
                           /\ name[Obj(m)[k].sym].type = "UNDEF"
    BY <1>1, <1>2, <1>4 DEF Pulled, Partial, Claimed
  <2>1. m = Len(file2)
    BY DEF LInv, Pulled
  <2>2. PICK k \in DOMAIN Obj(m) :
          k >= ip /\ Obj(m)[k].op = "def" /\ name[Obj(m)[k].sym].type = "UNDEF"
    BY <1>2 DEF LInv, Pulled
  <2>3. name[cmd.sym].type # "UNDEF"
    BY DEF Mention
  <2>4. k # ip /\ k \in Nat
    BY <1>2, <1>3, <2>1, <2>2, <2>3
  <2>5. QED
    BY <1>2, <2>1, <2>2, <2>4
<1>8. Scanning' /\ Reported' /\ LibraryClosed'
  BY <1>1, <1>2, StillReading
<1>9. QED
  BY <1>5, <1>6, <1>7, <1>8 DEF LInv

-----------------------------------------------------------------------------
(* doreloc(), the undefined symbols and pass 2                             *)

SetValue(e, y) == [e EXCEPT !.value = y]

LEMMA SymbolUpdates ==
  ASSUME NEW e, Symbol(e), NEW y
  PROVE  Symbol(SetValue(e, y)) /\ SetValue(e, y).type = e.type /\ SetValue(e, y).module = e.module
<1> DEFINE a == e.type
           z == e.module
           g == SetValue(e, y)
<1>1. PICK x : e = [type |-> a, module |-> z, value |-> x]
  BY DEF Symbol
<1> HIDE DEF a, z
<1>2. g = [type |-> a, module |-> z, value |-> y]
  BY <1>1 DEF SetValue
<1> HIDE DEF g
<1>3. g.type = a /\ g.module = z
  BY <1>2
<1>4. Symbol(g)
  BY <1>2, <1>3 DEF Symbol
<1>5. QED
  BY <1>3, <1>4 DEF a, z, g

LEMMA doreloc_Quiet ==
  ASSUME Shape, doreloc
  PROVE  Quiet
<1> DEFINE b(m) == [s \in Seg |-> curpos[PlaceOf(s, m) - 1]]
           w(s) == AbsoluteValue(s)
           u(s) == Add(name[s].value, file2'[name[s].module].base[name[s].type])
<1>1. /\ file2' = [m \in DOMAIN file2 |-> SetBase(file2[m], b(m))]
      /\ in' = in /\ errflag' = errflag
  BY DEF doreloc, SetBase
<1>2. name' = [s \in Named |-> IF s \in Absolute THEN SetValue(name[s], w(s))
                               ELSE IF name[s].type \in Seg THEN SetValue(name[s], u(s))
                               ELSE name[s]]
  BY DEF doreloc, SetValue
<1> HIDE DEF b, w, u
<1>3. SameMods
  <2>1. /\ Row(file2) /\ Len(file2) \in Nat /\ DOMAIN file2 = 1..Len(file2)
        /\ \A m \in DOMAIN file2 : Entry(file2[m])
    BY RowLen DEF Shape
  <2>2. file2' = [m \in 1..Len(file2) |-> file2'[m]]
    BY <1>1, <2>1
  <2>3. Row(file2') /\ Len(file2') = Len(file2)
    BY <2>1, <2>2, RowMade
  <2>4. \A m \in DOMAIN file2 : file2'[m] = SetBase(file2[m], b(m))
    BY <1>1
  <2>5. \A m \in DOMAIN file2 : Keeps(file2'[m], file2[m])
    BY <2>1, <2>4, EntryUpdates
  <2>6. QED
    BY <2>3, <2>5 DEF SameMods
<1>4. SameNames
  <2>1. \A s \in Named : Symbol(name[s])
    BY DEF Shape
  <2>2. /\ DOMAIN name' = Named
        /\ \A s \in Named : \/ name'[s] = SetValue(name[s], w(s))
                            \/ name'[s] = SetValue(name[s], u(s))
                            \/ name'[s] = name[s]
    BY <1>2
  <2>3. QED
    BY <2>1, <2>2, SymbolUpdates DEF SameNames
<1>5. QED
  BY <1>1, <1>3, <1>4 DEF Quiet

LEMMA RelocStep ==
  ASSUME LInv, doreloc \/ TestUndef
  PROVE  LInv'
<1>1. Shape
  BY DEF LInv
<1>2. CASE doreloc
  <2>1. pc = "file1" /\ pc' = "undef" /\ UNCHANGED <<i, j, ip>>
    BY <1>2 DEF doreloc, LastObject, loops
  <2>2. Quiet /\ Counters
    BY <1>1, <1>2, <2>1, doreloc_Quiet DEF Shape, Counters
  <2>3. (Shape /\ Kinds /\ Origin /\ Known /\ Pulled)'
    BY <2>1, <2>2, Settled DEF LInv, Partial
  <2>4. QED
    BY <2>1, <2>3, Unscanned, Unreported DEF LInv
<1>3. CASE TestUndef
  <2>1. /\ pc = "undef" /\ pc' = "prefix" /\ UNCHANGED <<in, file2, name, i, j, ip>>
        /\ errflag' = (errflag \/ (~ in.undef /\ \E s \in Named : name[s].type = "UNDEF"))
    BY <1>3 DEF TestUndef, loops
  <2>2. Quiet /\ Counters
    BY <1>1, <2>1, Unmoved DEF Shape, Counters
  <2>3. (Shape /\ Kinds /\ Origin /\ Known /\ Pulled)'
    BY <2>1, <2>2, Settled DEF LInv, Partial
  <2>4. Reported'
    BY <2>1 DEF Reported
  <2>5. QED
    BY <2>1, <2>3, <2>4, Unscanned DEF LInv
<1>4. QED
  BY <1>2, <1>3

\* Pass 2 moves positions and raises errflag; it links no module and defines
\* no symbol.
LEMMA Pass2Step ==
  ASSUME LInv, Prefix \/ Pass2
  PROVE  LInv'
<1>1. Shape /\ i \in Nat /\ j \in Nat \ {0} /\ ip \in Nat \ {0}
  BY DEF LInv, Shape
<1>2. cur \in DOMAIN file2 => Entry(file2[cur])
  BY <1>1 DEF Shape
<1> DEFINE Ok == /\ pc \in {"prefix", "file2", "pass2"}
                 /\ pc' \in {"file2", "pass2", "exit", "exit1", "undefined"}
                 /\ UNCHANGED <<in, name, j>>
                 /\ i' \in Nat /\ ip' \in Nat \ {0}
                 /\ \/ UNCHANGED file2
                    \/ file2' = [file2 EXCEPT ![cur] = Moved(file2[cur])]
                    \/ file2' = [file2 EXCEPT ![cur] = SetPos(file2[cur], cmd.seg, cmd.ofs)]
<1>3. Ok
  <2>1. CASE Prefix \/ dopass2 \/ Return
    BY <1>1, <2>1 DEF Prefix, dopass2, Return, loops
  <2>2. CASE P2Data \/ P2PopByte \/ P2PopWord
    <3>1. Reading("pass2") /\ Stored /\ UNCHANGED <<in, loops, name>>
      BY <2>2 DEF P2Data, P2PopByte, P2PopWord
    <3>2. QED
      BY <1>1, <3>1 DEF Stored, Exit1, Reading, loops
  <2>3. CASE P2Alu \/ P2Not \/ P2Neg \/ P2Swap
    BY <1>1, <2>3 DEF P2Alu, P2Not, P2Neg, P2Swap, P2Stack, Reading, loops
  <2>4. CASE P2Push \/ P2Symbol
    <3>1. Reading("pass2") /\ ip' = ip + 1 /\ UNCHANGED <<in, pc, loops, file2, name>>
      BY <2>4 DEF P2Push, P2Symbol
    <3>2. QED
      BY <1>1, <3>1 DEF Reading, loops
  <2>5. CASE P2Skip \/ P2Define
    BY <1>1, <2>5 DEF P2Skip, P2Define, Reading, loops
  <2>6. CASE P2Org
    BY <1>1, <2>6 DEF P2Org, Reading, loops, SetPos
  <2>7. CASE P2End
    BY <1>1, <2>7 DEF P2End, Reading, Exit1
  <2>8. CASE P2Underflow
    BY <1>1, <2>8 DEF P2Underflow, Reading, loops
  <2>9. QED
    BY <2>1, <2>2, <2>3, <2>4, <2>5, <2>6, <2>7, <2>8 DEF Pass2
<1>4. SameMods
  <2>1. CASE UNCHANGED file2
    BY <1>1, <2>1, ModsUnchanged
  <2>2. CASE file2' = [file2 EXCEPT ![cur] = Moved(file2[cur])]
    <3>1. cur \in DOMAIN file2 => Keeps(Moved(file2[cur]), file2[cur])
      BY <1>2, MovedKeeps
    <3>2. QED
      BY <1>1, <2>2, <3>1, ModsExcept
  <2>3. CASE file2' = [file2 EXCEPT ![cur] = SetPos(file2[cur], cmd.seg, cmd.ofs)]
    <3>1. cur \in DOMAIN file2 => Keeps(SetPos(file2[cur], cmd.seg, cmd.ofs), file2[cur])
      BY <1>2, OrgKeeps
    <3>2. QED
      BY <1>1, <2>3, <3>1, ModsExcept
  <2>4. QED
    BY <1>3, <2>1, <2>2, <2>3
<1>5. errflag => errflag'
  BY Zenon DEF Prefix, Pass2, dopass2, Return, P2Data, P2Alu, P2Not, P2Neg, P2Swap, P2Push,
     P2Symbol, P2PopByte, P2PopWord, P2Underflow, P2Skip, P2Define, P2Org, P2End, P2Stack, Push
<1>6. Quiet /\ Counters
  BY <1>1, <1>3, <1>4, <1>5, NamesUnchanged DEF Quiet, Counters
<1>7. QED
  BY <1>3, <1>6, LateStep

LEMMA LInvStep ==
  ASSUME LInv, [Next]_vars
  PROVE  LInv'
<1>1. CASE startup \/ main
  BY <1>1, StartEffect, StartStep DEF LInv, Shape
<1>2. CASE File1Object \/ File1Library
  BY <1>2, OpenStep, LoadStep
<1>3. CASE ScanSkip \/ ScanLoad \/ ScanAgain \/ ScanDone
  BY <1>3, ScanStep, LoadStep
<1>4. CASE P1MissingEnd \/ P1Skip \/ P1Advance \/ P1Symbol \/ P1Define \/ P1Org
           \/ P1Unknown \/ P1End
  BY <1>4, P1Stops, P1QuietSteps, P1SymbolStep, P1FirstDefinition, P1SecondDefinition, P1EndStep
<1>5. CASE doreloc \/ TestUndef
  BY <1>5, RelocStep
<1>6. CASE Prefix \/ Pass2
  BY <1>6, Pass2Step
<1>7. CASE UNCHANGED vars
  <2>1. UNCHANGED <<in, pc, file1, i, j, found, file2, name, errflag, ip>>
    BY <1>7 DEF vars, loops
  <2>2. (Shape /\ Kinds)'
    BY <2>1 DEF LInv, Shape, Kinds
  <2>3. Origin'
    BY <2>1 DEF LInv, Origin, Obj
  <2>4. Known'
    <3>1. Known
      BY DEF LInv
    <3>2. \A m : Obj(m)' = Obj(m) /\ \A k : Seen(m, k)' <=> Seen(m, k)
      BY <2>1 DEF Obj, Seen
    <3>3. QED
      BY <2>1, <3>1, <3>2, Zenon DEF Known
  <2>5. Pulled'
    BY <2>1 DEF LInv, Pulled, Claimed, Obj
  <2>6. (Scanning /\ Reported /\ LibraryClosed)'
    BY <2>1 DEF LInv, Scanning, Reported, LibraryClosed, Nothing, lbnlib
  <2>7. QED
    BY <2>2, <2>3, <2>4, <2>5, <2>6 DEF LInv
<1>8. QED
  BY <1>1, <1>2, <1>3, <1>4, <1>5, <1>6, <1>7 DEF Next, Pass1

\* The inductive invariant of a link: see LInv.
THEOREM LinkInvariant == Spec => []LInv
<1>1. Init => LInv
  BY InitLInv
<1>2. LInv /\ [Next]_vars => LInv'
  BY LInvStep
<1>3. QED
  BY <1>1, <1>2, PTL DEF Spec

-----------------------------------------------------------------------------
(* What follows                                                            *)

\* process(): when the linker goes on to the next argument, the library it
\* leaves has nothing more to offer, however often its modules need each
\* other and in whatever order the symbols are scanned.
THEOREM LibrariesClosed == Spec => []LibraryClosed
<1>1. LInv => LibraryClosed
  BY DEF LInv
<1>2. QED
  BY <1>1, LinkInvariant, PTL

\* process() and dopass1(): every module that comes from a library and has
\* been read owns a symbol; none is linked in vain or twice.
THEOREM OnlyNeededPulled == Spec => []PullsNeeded
<1>1. LInv => PullsNeeded
  BY DEF LInv, Pulled, PullsNeeded, Claimed, Partial
<1>2. QED
  BY <1>1, LinkInvariant, PTL

\* main(): status 0 means that every symbol in use is defined, by one module.
THEOREM ExitIsClean == Spec => []CleanExit
<1>1. ASSUME LInv, pc = "exit", ~ errflag, NEW s \in Named
      PROVE  /\ \A m \in DOMAIN file2 : Uses(in.obj[file2[m].file], s) =>
                  s \in Absolute \/ Definers(s) # {} \/ in.undef
             /\ Cardinality(Definers(s)) <= IF s \in Absolute THEN 0 ELSE 1
  <2>1. \A m \in DOMAIN file2 : \A k \in DOMAIN Obj(m) : Seen(m, k)
    BY <1>1 DEF Seen, Partial
  <2>2. ASSUME NEW m \in DOMAIN file2, Uses(in.obj[file2[m].file], s)
        PROVE  s \in Absolute \/ Definers(s) # {} \/ in.undef
    <3>1. name[s].type # NONE
      BY <1>1, <2>1, <2>2 DEF LInv, Known, Uses, Obj
    <3>2. in.undef \/ name[s].type # "UNDEF"
      BY <1>1 DEF LInv, Reported
    <3>3. name[s].type \in Seg => Definers(s) # {}
      BY <1>1 DEF LInv, Origin, Definers, Obj
    <3>4. QED
      BY <1>1, <3>1, <3>2, <3>3 DEF LInv, Kinds
  <2>3. \A m \in Definers(s) : name[s].type \in Seg /\ name[s].module = m
    BY <1>1, <2>1 DEF LInv, Known, Definers, Defines, Obj
  <2>4. CASE s \in Absolute
    <3>1. name[s].type = "ABS"
      BY <1>1, <2>4 DEF LInv, Kinds
    <3>2. Definers(s) = {}
      BY <2>3, <3>1 DEF Seg
    <3>3. QED
      BY <2>2, <2>4, <3>2, FS_EmptySet
  <2>5. CASE s \notin Absolute
    <3> DEFINE d == name[s].module
    <3>1. Definers(s) \subseteq {d}
      BY <2>3
    <3> HIDE DEF d
    <3>2. Definers(s) = {} \/ Definers(s) = {d}
      BY <3>1
    <3>3. Cardinality(Definers(s)) \in {0, 1}
      BY <3>2, FS_EmptySet, FS_Singleton
    <3>4. QED
      BY <2>2, <2>5, <3>3
  <2>6. QED
    BY <2>4, <2>5
<1>2. LInv => CleanExit
  BY <1>1 DEF CleanExit
<1>3. QED
  BY <1>2, LinkInvariant, PTL


-----------------------------------------------------------------------------
(* Where the commands of an object go                                      *)

Spot == [seg : Seg, ofs : Nat]

LEMMA WordNat == \A x \in Word : x \in Nat /\ x < WORD
  BY Halves DEF Word

LEMMA SizeNat ==
  ASSUME NEW b, ObjectOK(b), NEW k \in DOMAIN b
  PROVE  Size(b[k]) \in Nat
<1> DEFINE c == b[k]
<1>1. c.op = "dsb" => c.n \in Nat
  <2>1. c.op = "dsb" => c.n \in Word
    BY DEF ObjectOK
  <2>2. QED
    BY <2>1, WordNat
<1>2. c.op = "data" => Len(c.bytes) \in Nat
  <2>1. c.op = "data" => Row(c.bytes)
    BY DEF ObjectOK, Row
  <2>2. QED
    BY <2>1, RowLen
<1> HIDE DEF c
<1>3. Size(c) \in Nat
  BY <1>1, <1>2 DEF Size, BPW
<1>4. QED
  BY <1>3 DEF c

LEMMA DataRow ==
  ASSUME NEW b, ObjectOK(b), NEW k \in DOMAIN b, b[k].op = "data"
  PROVE  Row(b[k].bytes)
  BY DEF ObjectOK, Row

After(c, w) ==
  IF c.op = "org" THEN [seg |-> c.seg, ofs |-> c.ofs] ELSE [w EXCEPT !.ofs = @ + Size(c)]

LEMMA AfterSpot ==
  ASSUME NEW b, ObjectOK(b), NEW k \in DOMAIN b, NEW w \in Spot
  PROVE  After(b[k], w) \in Spot
<1>1. Size(b[k]) \in Nat
  BY SizeNat
<1>2. b[k].op = "org" => b[k].seg \in Seg /\ b[k].ofs \in Nat
  <2>1. b[k].op = "org" => b[k].seg \in Seg /\ b[k].ofs \in Word
    BY DEF ObjectOK
  <2>2. QED
    BY <2>1, WordNat
<1>3. QED
  BY <1>1, <1>2 DEF After, Spot

LEMMA ObjectRow ==
  ASSUME NEW b, ObjectOK(b)
  PROVE  Len(b) \in Nat /\ DOMAIN b = 1..Len(b)
<1>1. Row(b)
  BY DEF ObjectOK, Row
<1>2. QED
  BY <1>1, RowLen

LEMMA WalkSteps ==
  ASSUME NEW b, ObjectOK(b)
  PROVE  /\ Walk(b) \in [1..(Len(b) + 1) -> Spot]
         /\ Walk(b)[1] = [seg |-> "CODE", ofs |-> 0]
         /\ \A k \in 1..Len(b) : Walk(b)[k + 1] = After(b[k], Walk(b)[k])
<1> DEFINE n == Len(b)
           a == [seg |-> "CODE", ofs |-> 0]
           P(w) == w = [k \in 1..(n + 1) |-> IF k = 1 THEN a ELSE After(b[k - 1], w[k - 1])]
           F == [k \in 1..n |-> [w \in Spot |-> After(b[k], w)]]
<1>1. n \in Nat /\ DOMAIN b = 1..n
  BY ObjectRow
<1>2. a \in Spot
  BY DEF Spot, Seg
<1>3. \A k \in 1..n : F[k] \in [Spot -> Spot]
  BY <1>1, AfterSpot
<1> HIDE DEF a
<1>4. \E w : P(w)
  <2>1. PICK g : Runs(n, Spot, a, F, g)
    <3> HIDE DEF F, n
    <3>1. QED
      BY <1>1, <1>2, <1>3, RunExists
  <2>2. /\ g \in [0..n -> Spot] /\ g[0] = a
        /\ \A k \in 1..n : g[k] = F[k][g[k - 1]]
    BY <2>1 DEF Runs
  <2>3. \A k \in 1..n : g[k] = After(b[k], g[k - 1])
    <3> SUFFICES ASSUME NEW k \in 1..n PROVE g[k] = After(b[k], g[k - 1])
      OBVIOUS
    <3>1. g[k - 1] \in Spot
      BY <1>1, <2>2
    <3>2. QED
      BY <2>2, <3>1
  <2> DEFINE w == [k \in 1..(n + 1) |-> g[k - 1]]
  <2>4. \A k \in 1..(n + 1) : w[k] = IF k = 1 THEN a ELSE After(b[k - 1], w[k - 1])
    <3> HIDE DEF n
    <3> SUFFICES ASSUME NEW k \in 1..(n + 1)
                 PROVE  w[k] = IF k = 1 THEN a ELSE After(b[k - 1], w[k - 1])
      OBVIOUS
    <3>1. CASE k = 1
      BY <1>1, <2>2, <3>1
    <3>2. CASE k # 1
      <4>1. k - 1 \in 1..n /\ k - 1 \in 1..(n + 1)
        BY <1>1, <3>2
      <4>2. w[k - 1] = g[(k - 1) - 1] /\ w[k] = g[k - 1]
        BY <4>1
      <4>3. QED
        BY <2>3, <3>2, <4>1, <4>2
    <3>3. QED
      BY <3>1, <3>2
  <2>5. P(w)
    <3>1. w = [k \in 1..(n + 1) |-> w[k]]
      OBVIOUS
    <3> HIDE DEF w, n
    <3>2. QED
      BY <2>4, <3>1
  <2>6. QED
    BY <2>5
<1>5. Walk(b) = CHOOSE w : P(w)
  BY DEF Walk, After, a
<1> DEFINE w == Walk(b)
<1>6. P(w)
  BY <1>4, <1>5
<1> HIDE DEF w, n
<1>7. w[1] = a /\ \A k \in 1..n : w[k + 1] = After(b[k], w[k])
  <2>1. 1 \in 1..(n + 1)
    BY <1>1
  <2>2. w[1] = a
    BY <1>6, <2>1
  <2>3. ASSUME NEW k \in 1..n PROVE w[k + 1] = After(b[k], w[k])
    <3>1. k + 1 \in 1..(n + 1) /\ k + 1 # 1 /\ (k + 1) - 1 = k
      BY <1>1
    <3>2. w[k + 1] = After(b[(k + 1) - 1], w[(k + 1) - 1])
      BY <1>6, <3>1
    <3>3. QED
      BY <3>1, <3>2
  <2>4. QED
    BY <2>2, <2>3
<1>8. w \in [1..(n + 1) -> Spot]
  <2> DEFINE B == {k \in 1..(n + 1) : w[k] \notin Spot}
  <2>1. B = {}
    <3> SUFFICES ASSUME B # {} PROVE FALSE
      OBVIOUS
    <3>1. B \in SUBSET Nat
      BY <1>1
    <3>2. PICK m \in B : \A l \in B : m <= l
      BY <3>1, LeastNat
    <3>3. m # 1
      BY <1>2, <1>7
    <3>4. m - 1 \in 1..n /\ m - 1 \in 1..(n + 1)
      BY <1>1, <3>3
    <3>5. w[m - 1] \in Spot
      BY <1>1, <3>2, <3>4
    <3>6. w[(m - 1) + 1] \in Spot
      BY <1>1, <1>7, <3>4, <3>5, AfterSpot
    <3>7. QED
      BY <1>1, <3>6
  <2>2. w = [k \in 1..(n + 1) |-> w[k]]
    BY <1>6
  <2>3. QED
    BY <2>1, <2>2
<1>9. QED
  BY <1>7, <1>8 DEF w, n, a

\* The segment and the offset of every command.
LEMMA WalkFields ==
  ASSUME NEW b, ObjectOK(b)
  PROVE  /\ \A k \in 1..(Len(b) + 1) : SegAt(b, k) \in Seg /\ OfsAt(b, k) \in Nat
         /\ SegAt(b, 1) = "CODE" /\ OfsAt(b, 1) = 0
         /\ \A k \in 1..Len(b) :
              /\ b[k].op = "org" => SegAt(b, k + 1) = b[k].seg /\ OfsAt(b, k + 1) = b[k].ofs
              /\ b[k].op # "org" => /\ SegAt(b, k + 1) = SegAt(b, k)
                                    /\ OfsAt(b, k + 1) = OfsAt(b, k) + Size(b[k])
<1> DEFINE w == Walk(b)
<1>1. /\ w \in [1..(Len(b) + 1) -> Spot]
      /\ w[1] = [seg |-> "CODE", ofs |-> 0]
      /\ \A k \in 1..Len(b) : w[k + 1] = After(b[k], w[k])
  BY WalkSteps
<1>2. \A k : SegAt(b, k) = w[k].seg /\ OfsAt(b, k) = w[k].ofs
  BY DEF SegAt, OfsAt
<1>3. Len(b) \in Nat
  BY ObjectRow
<1> HIDE DEF w
<1>4. \A k \in 1..(Len(b) + 1) : w[k] \in Spot
  BY <1>1
<1>5. \A k \in 1..(Len(b) + 1) : SegAt(b, k) \in Seg /\ OfsAt(b, k) \in Nat
  BY <1>2, <1>4 DEF Spot
<1>6. SegAt(b, 1) = "CODE" /\ OfsAt(b, 1) = 0
  BY <1>1, <1>2
<1>7. ASSUME NEW k \in 1..Len(b)
      PROVE  /\ b[k].op = "org" => SegAt(b, k + 1) = b[k].seg /\ OfsAt(b, k + 1) = b[k].ofs
             /\ b[k].op # "org" => /\ SegAt(b, k + 1) = SegAt(b, k)
                                   /\ OfsAt(b, k + 1) = OfsAt(b, k) + Size(b[k])
  <2>1. w[k] \in Spot /\ w[k + 1] = After(b[k], w[k])
    BY <1>1, <1>3, <1>4
  <2>2. b[k].op = "org" => w[k + 1].seg = b[k].seg /\ w[k + 1].ofs = b[k].ofs
    BY <2>1 DEF After
  <2>3. b[k].op # "org" => w[k + 1].seg = w[k].seg /\ w[k + 1].ofs = w[k].ofs + Size(b[k])
    BY <2>1 DEF After, Spot
  <2>4. QED
    BY <1>2, <2>2, <2>3
<1>8. QED
  BY <1>5, <1>6, <1>7

LEMMA PlainSize ==
  ASSUME NEW c, c.op \notin {"data", "dsb", "popb", "popw"}
  PROVE  Size(c) = 0
  BY DEF Size

-----------------------------------------------------------------------------
(* Positions.                                                              *)

\* Every object fits: no offset passes the end of a word, and what .DSB asks
\* for is positive as an int (readword and the counter of REL_DSB).
ObjectFits(b) ==
  \A k \in DOMAIN b :
    /\ OfsAt(b, k) + Size(b[k]) < WORD
    /\ b[k].op = "dsb" => b[k].n < HALF
ObjectsFit == \A x \in Inputs : \A o \in DOMAIN x.obj : ObjectFits(x.obj[o])

\* The image fits: no segment that is written passes the end of memory.
Laid == pc \in {"undef", "prefix", "file2", "pass2", "exit"}
ImageFits ==
  Laid => \A m \in DOMAIN file2 : \A s \in Seg \ {"UDEF"} :
            file2[m].base[s] + file2[m].len[s] < WORD

Sized(fp) ==
  /\ fp.pos \in [Seg -> Word] /\ fp.len \in [Seg -> Word] /\ fp.base \in [Seg -> Nat]
Sizes == \A m \in DOMAIN file2 : Sized(file2[m])

\* A module that has been read to its end: its lengths cover its offsets.
Measured(b, len) ==
  /\ Len(b) >= 1 /\ b[Len(b)].op = "end"
  /\ \A n \in 1..Len(b) : OfsAt(b, n) <= len[SegAt(b, n)]
Measures ==
  \A m \in DOMAIN file2 :
    m < Len(file2) \/ pc \notin Partial => Measured(Obj(m), file2[m].len)

\* The place of the next command, in pass 1: what lies before is covered by
\* a length or by the position that will become one.
Reached(b, k, s, fp) ==
  /\ k <= Len(b) + 1 /\ s = SegAt(b, k) /\ fp.pos[s] = OfsAt(b, k)
  /\ \A n \in 1..k : \/ OfsAt(b, n) <= fp.len[SegAt(b, n)]
                     \/ OfsAt(b, n) <= fp.pos[SegAt(b, n)]
At1 == pc = "pass1" => Reached(Obj(Len(file2)), ip, curseg, file2[Len(file2)])

\* In pass 2: the position in the image is the one in the segment.
Follows(b, k, s, fp, o) ==
  /\ k <= Len(b) /\ s = SegAt(b, k)
  /\ s # "CODE" => fp.pos[s] = OfsAt(b, k)
  /\ s # "UDEF" => o = fp.base[s] + OfsAt(b, k)
At2 == /\ pc = "pass2" => i \in DOMAIN file2 /\ Follows(Obj(i), ip, curseg, file2[i], out)
       /\ pc \in {"file2", "pass2"} => i \in Nat \ {0}

WInv == Sizes /\ Measures /\ At1 /\ At2

LEMMA ObjOK ==
  ASSUME Shape, NEW m \in DOMAIN file2
  PROVE  ObjectOK(Obj(m)) /\ in.obj[file2[m].file] = Obj(m) /\ (ObjectsFit => ObjectFits(Obj(m)))
  BY InputAssumption DEF Shape, Obj, InputOK, ObjectsFit

\* The fields of an entry after an update.
LEMMA PosFields ==
  ASSUME NEW fp, Entry(fp), NEW x, NEW y
  PROVE  /\ SetPos(fp, x, y).pos = [fp.pos EXCEPT ![x] = y]
         /\ SetPos(fp, x, y).len = fp.len /\ SetPos(fp, x, y).base = fp.base
<1> DEFINE a == fp.file
           z == fp.lib
<1>1. PICK b, p, l : fp = [file |-> a, lib |-> z, base |-> b, pos |-> p, len |-> l]
  BY DEF Entry
<1> HIDE DEF a, z
<1>2. fp.base = b /\ fp.pos = p /\ fp.len = l
  BY <1>1
<1>3. SetPos(fp, x, y) = [file |-> a, lib |-> z, base |-> b, pos |-> [p EXCEPT ![x] = y], len |-> l]
  BY <1>1 DEF SetPos
<1>4. QED
  BY <1>2, <1>3

LEMMA OtherFields ==
  ASSUME NEW fp, Entry(fp), NEW y
  PROVE  /\ SetBase(fp, y).base = y
         /\ SetBase(fp, y).pos = fp.pos /\ SetBase(fp, y).len = fp.len
         /\ SetLen(fp, y).len = y
         /\ SetLen(fp, y).pos = fp.pos /\ SetLen(fp, y).base = fp.base
<1> DEFINE a == fp.file
           z == fp.lib
<1>1. PICK b, p, l : fp = [file |-> a, lib |-> z, base |-> b, pos |-> p, len |-> l]
  BY DEF Entry
<1> HIDE DEF a, z
<1>2. fp.base = b /\ fp.pos = p /\ fp.len = l
  BY <1>1
<1>3. SetBase(fp, y) = [file |-> a, lib |-> z, base |-> y, pos |-> p, len |-> l]
  BY <1>1 DEF SetBase
<1>4. SetLen(fp, y) = [file |-> a, lib |-> z, base |-> b, pos |-> p, len |-> y]
  BY <1>1 DEF SetLen
<1>5. QED
  BY <1>2, <1>3, <1>4

LEMMA NoWrap ==
  ASSUME NEW x \in Nat, NEW y \in Nat, x + y < WORD
  PROVE  Add(x, y) = x + y
  BY Halves DEF Add

LEMMA WordFacts == Word \subseteq Nat /\ 0 \in Word /\ \A x \in Nat : x < WORD => x \in Word
  BY Halves DEF Word

\* save_seg_size(): the lengths come to cover the positions.
LEMMA SavedFields ==
  ASSUME NEW fp, Entry(fp), Sized(fp)
  PROVE  LET g == save_seg_size(fp) IN
         /\ Sized(g) /\ g.pos = fp.pos /\ g.base = fp.base
         /\ \A s \in Seg : fp.pos[s] <= g.len[s] /\ fp.len[s] <= g.len[s]
<1> DEFINE v == [s \in Seg |-> IF unsigned_GT(fp.pos[s], fp.len[s]) THEN fp.pos[s] ELSE fp.len[s]]
           g == save_seg_size(fp)
<1>1. g = SetLen(fp, v)
  BY DEF save_seg_size, SetLen
<1>2. \A s \in Seg : fp.pos[s] \in Word /\ fp.len[s] \in Word
  BY DEF Sized
<1>3. \A s \in Seg : v[s] \in Word /\ fp.pos[s] <= v[s] /\ fp.len[s] <= v[s]
  <2> SUFFICES ASSUME NEW s \in Seg
               PROVE  v[s] \in Word /\ fp.pos[s] <= v[s] /\ fp.len[s] <= v[s]
    OBVIOUS
  <2> DEFINE p == fp.pos[s]
             l == fp.len[s]
  <2>1. p \in Word /\ l \in Word /\ p \in Nat /\ l \in Nat
    BY <1>2, WordFacts
  <2>2. v[s] = IF unsigned_GT(p, l) THEN p ELSE l
    OBVIOUS
  <2> HIDE DEF v, p, l
  <2>3. unsigned_GT(p, l) <=> p > l
    BY <2>1, UnsignedCompare
  <2>4. v[s] \in Word /\ p <= v[s] /\ l <= v[s]
    BY <2>1, <2>2, <2>3
  <2>5. QED
    BY <2>4 DEF p, l
<1>4. v \in [Seg -> Word]
  <2>1. v = [s \in Seg |-> v[s]]
    OBVIOUS
  <2> HIDE DEF v
  <2>2. QED
    BY <1>3, <2>1
<1> HIDE DEF v
<1> HIDE DEF g
<1>5. g.len = v /\ g.pos = fp.pos /\ g.base = fp.base
  <2>1. /\ SetLen(fp, v).len = v /\ SetLen(fp, v).pos = fp.pos
        /\ SetLen(fp, v).base = fp.base
    BY OtherFields
  <2>2. QED
    BY <1>1, <2>1
<1>6. QED
  BY <1>3, <1>4, <1>5 DEF Sized, g

LEMMA AddWord ==
  ASSUME NEW x \in Nat, NEW y \in Nat
  PROVE  Add(x, y) \in Word
<1>1. x + y \in Nat /\ WORD \in Nat /\ WORD > 0
  BY Halves
<1> DEFINE z == x + y
<1> HIDE DEF z
<1>2. z \in Nat
  BY <1>1 DEF z
<1>3. z % WORD \in 0..(WORD - 1)
  BY <1>1, <1>2
<1>4. QED
  BY <1>3 DEF Add, Word, z

LEMMA SetPosSized ==
  ASSUME NEW fp, Entry(fp), Sized(fp), NEW x \in Seg, NEW y \in Word
  PROVE  LET g == SetPos(fp, x, y) IN
         /\ Sized(g) /\ g.len = fp.len /\ g.base = fp.base /\ g.pos[x] = y
         /\ \A s \in Seg : s # x => g.pos[s] = fp.pos[s]
<1> DEFINE g == SetPos(fp, x, y)
<1>1. g.pos = [fp.pos EXCEPT ![x] = y] /\ g.len = fp.len /\ g.base = fp.base
  BY PosFields
<1> HIDE DEF g
<1>2. fp.pos \in [Seg -> Word]
  BY DEF Sized
<1>3. g.pos \in [Seg -> Word] /\ g.pos[x] = y /\ \A s \in Seg : s # x => g.pos[s] = fp.pos[s]
  BY <1>1, <1>2
<1>4. QED
  BY <1>1, <1>3 DEF Sized, g

LEMMA MovedSized ==
  ASSUME NEW fp, Entry(fp), Sized(fp), curseg \in Seg, Size(cmd) \in Nat
  PROVE  LET g == Moved(fp) IN
         /\ Sized(g) /\ g.len = fp.len /\ g.base = fp.base
         /\ g.pos[curseg] = Add(fp.pos[curseg], Size(cmd))
         /\ \A s \in Seg : s # curseg => g.pos[s] = fp.pos[s]
<1> DEFINE v == Add(fp.pos[curseg], Size(cmd))
<1>1. Moved(fp) = SetPos(fp, curseg, v)
  BY DEF Moved, SetPos
<1>2. v \in Word
  <2>1. fp.pos[curseg] \in Nat
    BY WordFacts DEF Sized
  <2>2. QED
    BY <2>1, AddWord
<1> HIDE DEF v
<1> DEFINE g == SetPos(fp, curseg, v)
<1>3. /\ Sized(g) /\ g.len = fp.len /\ g.base = fp.base /\ g.pos[curseg] = v
      /\ \A s \in Seg : s # curseg => g.pos[s] = fp.pos[s]
  BY <1>2, SetPosSized
<1> HIDE DEF g
<1>4. QED
  BY <1>1, <1>3 DEF g, v

-----------------------------------------------------------------------------
(* Steps that leave the lengths alone                                      *)

LEMMA SizesKept ==
  ASSUME Shape, Sizes, Measures, in' = in, SameMods, pc \in Partial => pc' \in Partial,
         \A m \in DOMAIN file2 : Sized(file2'[m]) /\ file2'[m].len = file2[m].len
  PROVE  (Sizes /\ Measures)'
<1>1. /\ DOMAIN file2' = DOMAIN file2 /\ Len(file2') = Len(file2)
      /\ \A m \in DOMAIN file2 : Obj(m)' = Obj(m)
  BY SameModules
<1>2. QED
  BY <1>1 DEF Sizes, Measures

LEMMA Elsewhere ==
  ASSUME Shape, WInv, UNCHANGED <<in, file2>>, pc \in Partial => pc' \in Partial,
         pc' \notin {"pass1", "pass2"}, pc' = "file2" => i' \in Nat \ {0}
  PROVE  WInv'
<1>1. SameMods
  BY ModsUnchanged
<1>2. (Sizes /\ Measures)'
  BY <1>1, SizesKept DEF WInv, Sizes
<1>3. QED
  BY <1>2 DEF WInv, At1, At2

LEMMA InitWInv ==
  ASSUME Init
  PROVE  WInv
<1>1. DOMAIN file2 = {} /\ pc = "startup"
  BY DEF Init, initialize
<1>2. QED
  BY <1>1 DEF WInv, Sizes, Measures, At1, At2

\* dopass1(): a new module.
LEMMA LoadSizes ==
  ASSUME Shape, WInv, NEW file \in DOMAIN in.obj, NEW lib, dopass1(file, lib), in' = in,
         pc \notin Partial
  PROVE  WInv'
<1> DEFINE e == [file |-> file, lib |-> lib, base |-> Zero, pos |-> Zero, len |-> Zero]
<1>0. PICK n : n = Len(file2) + 1
  OBVIOUS
<1>1. /\ file2' = Append(file2, e) /\ ip' = 1 /\ pc' \in {"pass1", "toomany"}
      /\ curseg' = "CODE"
  BY DEF dopass1
<1>2. Sized(e) /\ e.file = file /\ e.pos = Zero
  <2>1. e.pos = Zero /\ e.len = Zero /\ e.base = Zero /\ e.file = file
    OBVIOUS
  <2>2. Zero \in [Seg -> Word] /\ Zero \in [Seg -> Nat]
    BY WordFacts DEF Zero
  <2> HIDE DEF e
  <2>3. QED
    BY <2>1, <2>2 DEF Sized
<1> HIDE DEF e
<1>3. Row(file2)
  BY DEF Shape
<1>4. /\ Row(file2') /\ Len(file2') = n /\ file2'[n] = e
      /\ \A m \in DOMAIN file2 : file2'[m] = file2[m]
  BY <1>0, <1>1, <1>3, RowAppend
<1>5. /\ Len(file2) \in Nat /\ DOMAIN file2 = 1..Len(file2) /\ DOMAIN file2' = 1..n
  BY <1>3, <1>4, RowLen
<1>6. \A m \in DOMAIN file2' : m \in DOMAIN file2 \/ m = n
  BY <1>0, <1>5
<1>7. Sizes'
  BY <1>2, <1>4, <1>6 DEF WInv, Sizes
<1>8. Measures'
  <2> SUFFICES ASSUME NEW m \in DOMAIN file2', m < n
               PROVE  Measured(Obj(m), file2[m].len)'
    BY <1>1, <1>4 DEF Measures, Partial
  <2>1. m \in DOMAIN file2
    BY <1>0, <1>5, <1>6
  <2>2. Measured(Obj(m), file2[m].len)
    BY <2>1 DEF WInv, Measures
  <2>3. file2'[m] = file2[m] /\ Obj(m)' = Obj(m)
    BY <1>4, <2>1 DEF Obj
  <2>4. QED
    BY <2>2, <2>3
<1>9. At1'
  <2>1. Obj(n)' = in.obj[file]
    BY <1>2, <1>4 DEF Obj
  <2> DEFINE b == in.obj[file]
  <2>2. ObjectOK(b)
    BY InputAssumption DEF Shape, InputOK
  <2> HIDE DEF b
  <2>3. SegAt(b, 1) = "CODE" /\ OfsAt(b, 1) = 0 /\ Len(b) \in Nat
    BY <2>2, WalkFields, ObjectRow
  <2>4. Zero["CODE"] = 0
    BY DEF Zero, Seg
  <2>5. \A k \in 1..1 : k = 1
    OBVIOUS
  <2>6. Reached(b, 1, "CODE", e)
    BY <1>2, <2>3, <2>4, <2>5 DEF Reached
  <2>7. QED
    BY <1>1, <1>4, <2>1, <2>6 DEF At1, b
<1>10. At2'
  BY <1>1 DEF At2
<1>11. QED
  BY <1>7, <1>8, <1>9, <1>10 DEF WInv

-----------------------------------------------------------------------------
(* dopass1: reading                                                        *)

\* The module being read, and the next command.
LEMMA Here1 ==
  ASSUME LInv, WInv, Reading("pass1")
  PROVE  LET n == Len(file2)
             b == Obj(n)
             fp == file2[n]
         IN  /\ cur = n /\ n \in DOMAIN file2 /\ Entry(fp) /\ Sized(fp) /\ ObjectOK(b)
             /\ Len(b) \in Nat /\ ip \in 1..Len(b) /\ DOMAIN b = 1..Len(b) /\ cmd = b[ip]
             /\ Reached(b, ip, curseg, fp) /\ curseg \in Seg
             /\ pc = "pass1" /\ Size(cmd) \in Nat /\ n \in Nat
<1> DEFINE n == Len(file2)
           b == Obj(n)
<1>1. pc = "pass1" /\ cur = n /\ n \in DOMAIN file2 /\ body = b
  BY Here DEF Reading
<1>2. ip \in DOMAIN b /\ cmd = b[ip]
  BY <1>1, HereReading
<1>3. ObjectOK(b) /\ Entry(file2[n]) /\ Sized(file2[n])
  BY <1>1, ObjOK DEF LInv, Shape, WInv, Sizes
<1>4. Len(b) \in Nat /\ DOMAIN b = 1..Len(b)
  BY <1>3, ObjectRow
<1>5. Reached(b, ip, curseg, file2[n])
  BY <1>1 DEF WInv, At1
<1> HIDE DEF b
<1>6. curseg \in Seg
  <2>1. ip \in 1..(Len(b) + 1)
    BY <1>2, <1>4
  <2>2. QED
    BY <1>3, <1>5, <2>1, WalkFields DEF Reached
<1>7. Size(cmd) \in Nat
  BY <1>2, <1>3, SizeNat
<1>8. n \in Nat
  BY RowLen DEF LInv, Shape
<1>9. QED
  BY <1>1, <1>2, <1>3, <1>4, <1>5, <1>6, <1>7, <1>8 DEF b

\* The entry of the module being read has changed to g.
LEMMA NewEntry ==
  ASSUME Shape, Sizes, Measures, NEW n, n = Len(file2), n \in DOMAIN file2, NEW g, Sized(g),
         Keeps(g, file2[n]), file2' = [file2 EXCEPT ![n] = g], in' = in, pc = "pass1",
         pc' \notin Partial => Measured(Obj(n), g.len)
  PROVE  /\ Sizes' /\ Measures' /\ Len(file2') = n /\ file2'[n] = g /\ Obj(n)' = Obj(n)
<1>1. Row(file2)
  BY DEF Shape
<1>2. /\ Row(file2') /\ Len(file2') = n
      /\ \A m \in DOMAIN file2 : file2'[m] = IF m = n THEN g ELSE file2[m]
  <2>1. PICK s : s = file2
    OBVIOUS
  <2>2. Row(s)
    BY <1>1, <2>1
  <2> DEFINE t == [s EXCEPT ![n] = g]
  <2>3. Row(t) /\ Len(t) = Len(s) /\ \A m \in DOMAIN s : t[m] = IF m = n THEN g ELSE s[m]
    BY ONLY <2>2, RowExcept
  <2> HIDE DEF t
  <2>4. file2' = t
    BY <2>1 DEF t
  <2>5. QED
    BY <2>1, <2>3, <2>4
<1>3. DOMAIN file2 = 1..n /\ n \in Nat /\ DOMAIN file2' = 1..n
  BY <1>1, <1>2, RowLen
<1>4. \A m \in DOMAIN file2 : Obj(m)' = Obj(m)
  BY <1>2 DEF Obj, Keeps
<1>5. Sizes'
  BY <1>2, <1>3 DEF Sizes
<1>6. Measures'
  <2> SUFFICES ASSUME NEW m \in DOMAIN file2', m < n \/ pc' \notin Partial
               PROVE  Measured(Obj(m), file2[m].len)'
    BY <1>2 DEF Measures
  <2>1. m \in DOMAIN file2 /\ Obj(m)' = Obj(m)
    BY <1>3, <1>4
  <2>2. CASE m = n
    <3>1. Measured(Obj(n), g.len) /\ file2'[m] = g
      BY <1>2, <1>3, <2>1, <2>2
    <3>2. QED
      BY <2>1, <2>2, <3>1
  <2>3. CASE m # n
    <3>1. m < n
      BY <1>3, <2>1, <2>3
    <3>2. Measured(Obj(m), file2[m].len) /\ file2'[m] = file2[m]
      BY <1>2, <2>1, <2>3, <3>1 DEF Measures
    <3>3. QED
      BY <2>1, <3>2
  <2>4. QED
    BY <2>2, <2>3
<1>7. QED
  BY <1>2, <1>3, <1>4, <1>5, <1>6

LEMMA ReachedFurther ==
  ASSUME NEW b, ObjectOK(b), NEW k \in 1..Len(b), NEW s \in Seg, NEW fp, NEW g, Sized(fp), Sized(g),
         Reached(b, k, s, fp), b[k].op # "org", g.len = fp.len,
         g.pos[s] = fp.pos[s] + Size(b[k]), \A x \in Seg : x # s => g.pos[x] = fp.pos[x]
  PROVE  Reached(b, k + 1, s, g)
<1>1. Len(b) \in Nat /\ Size(b[k]) \in Nat
  BY ObjectRow, SizeNat
<1>2. /\ \A n \in 1..(Len(b) + 1) : SegAt(b, n) \in Seg /\ OfsAt(b, n) \in Nat
      /\ SegAt(b, k + 1) = SegAt(b, k) /\ OfsAt(b, k + 1) = OfsAt(b, k) + Size(b[k])
  BY WalkFields
<1>3. \A x \in Seg : fp.pos[x] \in Nat /\ g.pos[x] \in Nat /\ fp.pos[x] <= g.pos[x]
  <2>1. \A x \in Seg : fp.pos[x] \in Nat /\ g.pos[x] \in Nat
    BY WordFacts DEF Sized
  <2>2. QED
    BY <1>1, <2>1
<1>4. s = SegAt(b, k) /\ fp.pos[s] = OfsAt(b, k)
  BY DEF Reached
<1>5. ASSUME NEW n \in 1..(k + 1)
      PROVE  OfsAt(b, n) <= g.len[SegAt(b, n)] \/ OfsAt(b, n) <= g.pos[SegAt(b, n)]
  <2>1. CASE n = k + 1
    BY <1>2, <1>3, <1>4, <2>1
  <2>2. CASE n # k + 1
    <3>1. n \in 1..k /\ n \in 1..(Len(b) + 1)
      BY <1>1, <2>2
    <3>2. OfsAt(b, n) <= fp.len[SegAt(b, n)] \/ OfsAt(b, n) <= fp.pos[SegAt(b, n)]
      BY <3>1 DEF Reached
    <3>3. SegAt(b, n) \in Seg /\ OfsAt(b, n) \in Nat
      BY <1>2, <3>1
    <3>4. QED
      BY <1>3, <3>2, <3>3
  <2>3. QED
    BY <2>1, <2>2
<1>6. k + 1 <= Len(b) + 1
  BY <1>1
<1>7. QED
  BY <1>2, <1>4, <1>5, <1>6 DEF Reached

\* save_seg_size() has been called.
Covered(fp, g) == \A x \in Seg : fp.pos[x] <= g.len[x] /\ fp.len[x] <= g.len[x]

LEMMA ReachedCovered ==
  ASSUME NEW b, ObjectOK(b), NEW k \in 1..(Len(b) + 1), NEW s, NEW fp, NEW g, Sized(fp), Sized(g),
         Reached(b, k, s, fp), Covered(fp, g)
  PROVE  \A n \in 1..k : OfsAt(b, n) <= g.len[SegAt(b, n)]
<1> SUFFICES ASSUME NEW n \in 1..k PROVE OfsAt(b, n) <= g.len[SegAt(b, n)]
  OBVIOUS
<1>1. Len(b) \in Nat
  BY ObjectRow
<1>2. SegAt(b, n) \in Seg /\ OfsAt(b, n) \in Nat
  <2>1. n \in 1..(Len(b) + 1)
    BY <1>1
  <2>2. QED
    BY <2>1, WalkFields
<1>3. OfsAt(b, n) <= fp.len[SegAt(b, n)] \/ OfsAt(b, n) <= fp.pos[SegAt(b, n)]
  BY DEF Reached
<1>4. \A x \in Seg : fp.pos[x] \in Nat /\ fp.len[x] \in Nat /\ g.len[x] \in Nat
  BY WordFacts DEF Sized
<1>5. QED
  BY <1>2, <1>3, <1>4 DEF Covered

LEMMA ReachedOrg ==
  ASSUME NEW b, ObjectOK(b), NEW k \in 1..Len(b), NEW s, NEW fp, NEW g, Sized(fp), Sized(g),
         Reached(b, k, s, fp), Covered(fp, g), b[k].op = "org", g.pos[b[k].seg] = b[k].ofs
  PROVE  Reached(b, k + 1, b[k].seg, g)
<1>1. Len(b) \in Nat
  BY ObjectRow
<1>2. \A n \in 1..k : OfsAt(b, n) <= g.len[SegAt(b, n)]
  <2>1. k \in 1..(Len(b) + 1)
    BY <1>1
  <2>2. QED
    BY <2>1, ReachedCovered
<1>3. SegAt(b, k + 1) = b[k].seg /\ OfsAt(b, k + 1) = b[k].ofs
  BY WalkFields
<1>4. b[k].ofs \in Nat
  <2>1. k \in DOMAIN b
    BY ObjectRow
  <2>2. b[k].ofs \in Word
    BY <2>1 DEF ObjectOK
  <2>3. QED
    BY <2>2, WordFacts
<1>5. ASSUME NEW n \in 1..(k + 1)
      PROVE  OfsAt(b, n) <= g.len[SegAt(b, n)] \/ OfsAt(b, n) <= g.pos[SegAt(b, n)]
  <2>1. CASE n = k + 1
    BY <1>3, <1>4, <2>1
  <2>2. CASE n # k + 1
    <3>1. n \in 1..k
      BY <1>1, <2>2
    <3>2. QED
      BY <1>2, <3>1
  <2>3. QED
    BY <2>1, <2>2
<1>6. k + 1 <= Len(b) + 1
  BY <1>1
<1>7. QED
  BY <1>3, <1>5, <1>6 DEF Reached

\* Commands that move nothing.
LEMMA P1PlainSizes ==
  ASSUME LInv, WInv, Reading("pass1"), UNCHANGED <<in, pc, file2, curseg>>, ip' = ip + 1,
         cmd.op \notin {"data", "dsb", "popb", "popw", "org"}
  PROVE  WInv'
<1>0. PICK n, b, fp : n = Len(file2) /\ b = Obj(n) /\ fp = file2[n]
  OBVIOUS
<1>1. /\ cur = n /\ n \in DOMAIN file2 /\ Entry(fp) /\ Sized(fp) /\ ObjectOK(b)
      /\ Len(b) \in Nat /\ ip \in 1..Len(b) /\ DOMAIN b = 1..Len(b) /\ cmd = b[ip]
      /\ Reached(b, ip, curseg, fp) /\ curseg \in Seg
      /\ pc = "pass1" /\ Size(cmd) \in Nat /\ n \in Nat
  BY <1>0, Here1
<1>2. Size(b[ip]) = 0 /\ b[ip].op # "org"
  BY <1>1, PlainSize
<1>3. fp.pos[curseg] = fp.pos[curseg] + Size(b[ip])
  <2>1. fp.pos[curseg] \in Nat
    BY <1>1, WordFacts DEF Sized
  <2>2. QED
    BY <1>2, <2>1
<1>4. Reached(b, ip + 1, curseg, fp)
  BY <1>1, <1>2, <1>3, ReachedFurther
<1>5. SameMods /\ Shape
  BY ModsUnchanged DEF LInv
<1>6. (Sizes /\ Measures)'
  BY <1>5, SizesKept DEF WInv, Sizes
<1>7. Obj(Len(file2))' = b
  BY <1>0 DEF Obj
<1>8. At1'
  BY <1>0, <1>4, <1>7 DEF At1
<1>9. QED
  BY <1>1, <1>6, <1>8 DEF WInv, At2

LEMMA P1AdvanceSizes ==
  ASSUME LInv, WInv, ObjectsFit, P1Advance
  PROVE  WInv'
<1>0. PICK n, b, fp : n = Len(file2) /\ b = Obj(n) /\ fp = file2[n]
  OBVIOUS
<1>1. /\ Reading("pass1") /\ cmd.op \in {"data", "popb", "popw", "dsb"} /\ ip' = ip + 1
      /\ file2' = [file2 EXCEPT ![cur] = Moved(file2[cur])]
      /\ UNCHANGED <<in, pc, curseg>>
  BY DEF P1Advance
<1>2. /\ cur = n /\ n \in DOMAIN file2 /\ Entry(fp) /\ Sized(fp) /\ ObjectOK(b)
      /\ Len(b) \in Nat /\ ip \in 1..Len(b) /\ DOMAIN b = 1..Len(b) /\ cmd = b[ip]
      /\ Reached(b, ip, curseg, fp) /\ curseg \in Seg
      /\ pc = "pass1" /\ Size(cmd) \in Nat /\ n \in Nat
  BY <1>0, <1>1, Here1
<1>3. PICK g : g = Moved(fp)
  OBVIOUS
<1>4. /\ Sized(g) /\ g.len = fp.len /\ g.base = fp.base
      /\ g.pos[curseg] = Add(fp.pos[curseg], Size(cmd))
      /\ \A s \in Seg : s # curseg => g.pos[s] = fp.pos[s]
  BY <1>2, <1>3, MovedSized
<1>5. fp.pos[curseg] = OfsAt(b, ip) /\ fp.pos[curseg] \in Nat
  BY <1>2, WordFacts DEF Reached, Sized
<1>6. OfsAt(b, ip) + Size(b[ip]) < WORD
  <2>1. ObjectFits(b)
    BY <1>0, <1>2, ObjOK DEF LInv
  <2>2. QED
    BY <1>2, <2>1 DEF ObjectFits
<1>7. g.pos[curseg] = fp.pos[curseg] + Size(b[ip])
  BY <1>2, <1>4, <1>5, <1>6, NoWrap
<1>8. Reached(b, ip + 1, curseg, g)
  <2>1. b[ip].op # "org"
    BY <1>1, <1>2
  <2>2. QED
    BY <1>2, <1>4, <1>7, <2>1, ReachedFurther
<1>9. Keeps(g, fp)
  BY <1>2, <1>3, MovedKeeps
<1>10. /\ Sizes' /\ Measures' /\ Len(file2') = n /\ file2'[n] = g /\ Obj(n)' = Obj(n)
  BY <1>0, <1>1, <1>2, <1>3, <1>4, <1>9, NewEntry DEF LInv, WInv, Partial
<1>11. At1'
  BY <1>0, <1>1, <1>8, <1>10 DEF At1
<1>12. QED
  BY <1>1, <1>2, <1>10, <1>11 DEF WInv, At2

LEMMA P1OrgSizes ==
  ASSUME LInv, WInv, P1Org
  PROVE  WInv'
<1>0. PICK n, b, fp : n = Len(file2) /\ b = Obj(n) /\ fp = file2[n]
  OBVIOUS
<1>1. /\ Reading("pass1") /\ cmd.op = "org" /\ ip' = ip + 1 /\ curseg' = cmd.seg
      /\ file2' = [file2 EXCEPT ![cur] = SetPos(save_seg_size(file2[cur]), cmd.seg, cmd.ofs)]
      /\ UNCHANGED <<in, pc>>
  BY DEF P1Org, SetPos
<1>2. /\ cur = n /\ n \in DOMAIN file2 /\ Entry(fp) /\ Sized(fp) /\ ObjectOK(b)
      /\ Len(b) \in Nat /\ ip \in 1..Len(b) /\ DOMAIN b = 1..Len(b) /\ cmd = b[ip]
      /\ Reached(b, ip, curseg, fp) /\ curseg \in Seg
      /\ pc = "pass1" /\ Size(cmd) \in Nat /\ n \in Nat
  BY <1>0, <1>1, Here1
<1>3. PICK f, g : f = save_seg_size(fp) /\ g = SetPos(f, cmd.seg, cmd.ofs)
  OBVIOUS
<1>4. cmd.seg \in Seg /\ cmd.ofs \in Word
  BY <1>1, <1>2 DEF ObjectOK
<1>5. /\ Sized(f) /\ f.pos = fp.pos
      /\ \A s \in Seg : fp.pos[s] <= f.len[s] /\ fp.len[s] <= f.len[s]
  BY <1>2, <1>3, SavedFields
<1>6. Entry(f)
  BY <1>2, <1>3, SavedKeeps DEF Keeps
<1>7. Sized(g) /\ g.len = f.len /\ g.pos[cmd.seg] = cmd.ofs
  BY <1>3, <1>4, <1>5, <1>6, SetPosSized
<1>8. Covered(fp, g)
  BY <1>5, <1>7 DEF Covered
<1>9. Reached(b, ip + 1, cmd.seg, g)
  BY <1>1, <1>2, <1>7, <1>8, ReachedOrg
<1>10. Keeps(g, fp)
  BY <1>2, <1>3, OrgKeeps
<1>11. /\ Sizes' /\ Measures' /\ Len(file2') = n /\ file2'[n] = g /\ Obj(n)' = Obj(n)
  BY <1>0, <1>1, <1>2, <1>3, <1>7, <1>10, NewEntry DEF LInv, WInv, Partial
<1>12. At1'
  BY <1>0, <1>1, <1>9, <1>11 DEF At1
<1>13. QED
  BY <1>1, <1>2, <1>11, <1>12 DEF WInv, At2

LEMMA P1EndSizes ==
  ASSUME LInv, WInv, P1End
  PROVE  WInv'
<1>0. PICK n, b, fp : n = Len(file2) /\ b = Obj(n) /\ fp = file2[n]
  OBVIOUS
<1>1. /\ Reading("pass1") /\ cmd.op = "end" /\ pc' \in {"file1", "scan"}
      /\ file2' = [file2 EXCEPT ![cur] = save_seg_size(file2[cur])]
      /\ in' = in
  BY DEF P1End
<1>2. /\ cur = n /\ n \in DOMAIN file2 /\ Entry(fp) /\ Sized(fp) /\ ObjectOK(b)
      /\ Len(b) \in Nat /\ ip \in 1..Len(b) /\ DOMAIN b = 1..Len(b) /\ cmd = b[ip]
      /\ Reached(b, ip, curseg, fp) /\ curseg \in Seg
      /\ pc = "pass1" /\ Size(cmd) \in Nat /\ n \in Nat
  BY <1>0, <1>1, Here1
<1>3. PICK g : g = save_seg_size(fp)
  OBVIOUS
<1>4. /\ Sized(g) /\ Covered(fp, g)
  BY <1>2, <1>3, SavedFields DEF Covered
<1>5. ip = Len(b)
  BY <1>1, <1>2 DEF ObjectOK
<1>6. Measured(b, g.len)
  <2>1. \A k \in 1..ip : OfsAt(b, k) <= g.len[SegAt(b, k)]
    <3>1. ip \in 1..(Len(b) + 1)
      BY <1>2
    <3>2. QED
      BY <1>2, <1>4, <3>1, ReachedCovered
  <2>2. Len(b) >= 1
    BY <1>2
  <2>3. QED
    BY <1>1, <1>2, <1>5, <2>1, <2>2 DEF Measured
<1>7. Keeps(g, fp)
  BY <1>2, <1>3, SavedKeeps
<1>8. /\ Sizes' /\ Measures'
  BY <1>0, <1>1, <1>2, <1>3, <1>4, <1>6, <1>7, NewEntry DEF LInv, WInv
<1>9. QED
  BY <1>1, <1>8 DEF WInv, At1, At2

-----------------------------------------------------------------------------
(* doreloc: where the segments go                                          *)

LEMMA DivMod ==
  ASSUME NEW L \in Nat, L > 0, NEW q \in Nat, NEW r \in 0..(L - 1)
  PROVE  (q * L + r) \div L = q /\ (q * L + r) % L = r
<1> DEFINE a == q * L + r
           x == a \div L
           y == a % L
<1>1. q * L \in Nat
  OBVIOUS
<1>2. a \in Nat
  BY <1>1
<1> HIDE DEF a
<1>3. x \in Int /\ y \in 0..(L - 1) /\ a = L * x + y
  BY <1>2
<1> HIDE DEF x, y
<1>4. L * x + y = q * L + r
  BY <1>3 DEF a
<1>5. x = q
  <2>1. CASE x < q
    <3>1. PICK d \in Nat : q = x + 1 + d
      <4>1. q - x - 1 \in Nat /\ q = x + 1 + (q - x - 1)
        BY <1>3, <2>1
      <4>2. QED
        BY <4>1
    <3>2. q * L = L * x + L + d * L
      BY <1>3, <3>1
    <3>3. d * L \in Nat /\ L * x \in Int
      BY <1>3
    <3>4. QED
      BY <1>3, <1>4, <3>2, <3>3
  <2>2. CASE q < x
    <3>1. PICK d \in Nat : x = q + 1 + d
      <4>1. x - q - 1 \in Nat /\ x = q + 1 + (x - q - 1)
        BY <1>3, <2>2
      <4>2. QED
        BY <4>1
    <3>2. L * x = q * L + L + d * L
      BY <1>3, <3>1
    <3>3. d * L \in Nat
      OBVIOUS
    <3>4. QED
      BY <1>1, <1>3, <1>4, <3>2, <3>3
  <2>3. QED
    BY <1>3, <2>1, <2>2
<1>6. y = r
  <2>1. L * x = q * L
    BY <1>5
  <2>2. QED
    BY <1>1, <1>3, <1>4, <2>1
<1>7. QED
  BY <1>5, <1>6 DEF x, y, a

\* The places of the segments, one after the other.
Rank(s) == IF s = "CODE" THEN 0 ELSE IF s = "DATA" THEN 1 ELSE IF s = "TEXT" THEN 2 ELSE 3

LEMMA PlaceIs ==
  ASSUME NEW s \in Seg, NEW m
  PROVE  PlaceOf(s, m) = Rank(s) * Len(file2) + m
<1> DEFINE c == CHOOSE k \in 1..4 : SegOrder[k] = s
<1>1. /\ SegOrder[1] = "CODE" /\ SegOrder[2] = "DATA" /\ SegOrder[3] = "TEXT"
      /\ SegOrder[4] = "UDEF"
  BY DEF SegOrder
<1>2. \A k \in 1..4 : k = 1 \/ k = 2 \/ k = 3 \/ k = 4
  OBVIOUS
<1>3. \E k \in 1..4 : SegOrder[k] = s
  BY <1>1 DEF Seg
<1>4. c \in 1..4 /\ SegOrder[c] = s
  BY <1>3
<1> HIDE DEF c
<1>5. c - 1 = Rank(s)
  BY <1>1, <1>2, <1>4 DEF Rank
<1>6. PlaceOf(s, m) = (c - 1) * Len(file2) + m
  BY DEF PlaceOf, c
<1>7. QED
  BY <1>5, <1>6

LEMMA PlaceTwoWays ==
  ASSUME NEW L, L = Len(file2), L \in Nat
  PROVE  /\ \A n \in 1..(4 * L) : /\ ModOf(n) \in 1..L /\ SegOf(n) \in Seg
                                  /\ PlaceOf(SegOf(n), ModOf(n)) = n
                                  /\ n <= 3 * L => SegOf(n) # "UDEF"
         /\ \A m \in 1..L : \A s \in Seg :
              /\ PlaceOf(s, m) \in 1..(4 * L)
              /\ ModOf(PlaceOf(s, m)) = m /\ SegOf(PlaceOf(s, m)) = s
              /\ s # "UDEF" => PlaceOf(s, m) <= 3 * L
<1>0. /\ SegOrder[1] = "CODE" /\ SegOrder[2] = "DATA" /\ SegOrder[3] = "TEXT"
      /\ SegOrder[4] = "UDEF"
  BY DEF SegOrder
<1>1. ASSUME NEW n \in 1..(4 * L)
      PROVE  /\ ModOf(n) \in 1..L /\ SegOf(n) \in Seg
             /\ PlaceOf(SegOf(n), ModOf(n)) = n
             /\ n <= 3 * L => SegOf(n) # "UDEF"
  <2> DEFINE x == n - 1
             q == x \div L
             r == x % L
  <2>1. x \in Nat /\ L > 0 /\ x < 4 * L
    OBVIOUS
  <2>2. n = x + 1
    OBVIOUS
  <2> HIDE DEF x
  <2>3. q \in Int /\ r \in 0..(L - 1) /\ x = L * q + r
    BY <2>1
  <2> HIDE DEF q, r
  <2>4. q \in 0..3
    <3>1. q >= 0
      <4> SUFFICES ASSUME q < 0 PROVE FALSE
        BY <2>3
      <4>1. PICK d \in Nat : q = -1 - d
        <5>1. -1 - q \in Nat /\ q = -1 - (-1 - q)
          BY <2>3
        <5>2. QED
          BY <5>1
      <4>2. L * q = -L - L * d /\ L * d \in Nat
        BY <4>1
      <4>3. QED
        BY <2>1, <2>3, <4>2
    <3>2. q < 4
      <4> SUFFICES ASSUME q >= 4 PROVE FALSE
        BY <2>3
      <4>1. PICK d \in Nat : q = 4 + d
        <5>1. q - 4 \in Nat /\ q = 4 + (q - 4)
          BY <2>3
        <5>2. QED
          BY <5>1
      <4>2. L * q = 4 * L + L * d /\ L * d \in Nat
        BY <4>1
      <4>3. QED
        BY <2>1, <2>3, <4>2
    <3>3. QED
      BY <2>3, <3>1, <3>2
  <2>5. SegOf(n) = SegOrder[q + 1] /\ ModOf(n) = r + 1
    BY DEF SegOf, ModOf, q, r, x
  <2>6. /\ SegOf(n) \in Seg /\ Rank(SegOf(n)) = q /\ (q < 3 => SegOf(n) # "UDEF")
    <3>1. q = 0 \/ q = 1 \/ q = 2 \/ q = 3
      BY <2>4
    <3>2. CASE q = 0
      BY <1>0, <2>5, <3>2 DEF Seg, Rank
    <3>3. CASE q = 1
      BY <1>0, <2>5, <3>3 DEF Seg, Rank
    <3>4. CASE q = 2
      BY <1>0, <2>5, <3>4 DEF Seg, Rank
    <3>5. CASE q = 3
      BY <1>0, <2>5, <3>5 DEF Seg, Rank
    <3>6. QED
      BY <3>1, <3>2, <3>3, <3>4, <3>5
  <2>7. ModOf(n) \in 1..L
    BY <2>1, <2>3, <2>5
  <2>8. PlaceOf(SegOf(n), ModOf(n)) = q * L + (r + 1)
    BY <2>5, <2>6, PlaceIs
  <2>9. q * L + (r + 1) = n
    BY <2>2, <2>3, <2>4
  <2>10. n <= 3 * L => q < 3
    <3> SUFFICES ASSUME n <= 3 * L, q = 3 PROVE FALSE
      BY <2>4
    <3>1. L * q = 3 * L
      OBVIOUS
    <3>2. QED
      BY <2>1, <2>2, <2>3, <3>1
  <2>11. QED
    BY <2>6, <2>7, <2>8, <2>9, <2>10
<1>2. ASSUME NEW m \in 1..L, NEW s \in Seg
      PROVE  /\ PlaceOf(s, m) \in 1..(4 * L)
             /\ ModOf(PlaceOf(s, m)) = m /\ SegOf(PlaceOf(s, m)) = s
             /\ s # "UDEF" => PlaceOf(s, m) <= 3 * L
  <2> DEFINE q == Rank(s)
             p == PlaceOf(s, m)
  <2>1. q \in 0..3 /\ (s # "UDEF" => q <= 2) /\ SegOrder[q + 1] = s /\ q \in Nat
    BY <1>0 DEF Seg, Rank
  <2>2. p = q * L + m
    BY PlaceIs
  <2> HIDE DEF q, p
  <2>3. q * L \in Nat /\ q * L <= 3 * L /\ (q <= 2 => q * L <= 2 * L)
    <3>1. q = 0 \/ q = 1 \/ q = 2 \/ q = 3
      BY <2>1
    <3>2. QED
      BY <3>1
  <2>4. p \in 1..(4 * L) /\ (q <= 2 => p <= 3 * L)
    BY <2>2, <2>3
  <2>5. p - 1 = q * L + (m - 1) /\ m - 1 \in 0..(L - 1) /\ L > 0
    BY <2>2, <2>3
  <2>6. (p - 1) \div L = q /\ (p - 1) % L = m - 1
    <3> DEFINE r == m - 1
    <3>1. r \in 0..(L - 1) /\ p - 1 = q * L + r
      BY <2>5
    <3> HIDE DEF r
    <3>2. (q * L + r) \div L = q /\ (q * L + r) % L = r
      BY <2>1, <2>5, <3>1, DivMod
    <3>3. (p - 1) \div L = q /\ (p - 1) % L = r
      BY <3>1, <3>2, Zenon
    <3>4. QED
      BY <3>3 DEF r
  <2>7. ModOf(p) = m /\ SegOf(p) = s
    BY <2>1, <2>6 DEF ModOf, SegOf
  <2>8. QED
    BY <2>1, <2>4, <2>7 DEF p
<1>3. QED
  BY <1>1, <1>2

Width(n) == file2[ModOf(n)].len[SegOf(n)]

LEMMA CurposSteps ==
  ASSUME NEW L, L = Len(file2), L \in Nat, DOMAIN file2 = 1..L, Sizes
  PROVE  /\ curpos \in [0..(4 * L) -> Nat] /\ curpos[0] = PREFIX
         /\ \A n \in 1..(4 * L) : Width(n) \in Nat /\ curpos[n] = Add(curpos[n - 1], Width(n))
<1> DEFINE K == 4 * L
           P(w) == w = [n \in 0..K |-> IF n = 0 THEN PREFIX ELSE Add(w[n - 1], Width(n))]
           F == [n \in 1..K |-> [x \in Nat |-> Add(x, Width(n))]]
<1>1. K \in Nat /\ PREFIX \in Nat
  BY DEF PREFIX
<1>2. \A n \in 1..K : Width(n) \in Nat
  <2> SUFFICES ASSUME NEW n \in 1..K PROVE Width(n) \in Nat
    OBVIOUS
  <2>1. ModOf(n) \in DOMAIN file2 /\ SegOf(n) \in Seg
    BY PlaceTwoWays
  <2>2. file2[ModOf(n)].len \in [Seg -> Word]
    BY <2>1 DEF Sizes, Sized
  <2>3. QED
    BY <2>1, <2>2, WordFacts DEF Width
<1>3. \A n \in 1..K : F[n] \in [Nat -> Nat]
  BY <1>2, AddWord, WordFacts
<1>4. \E w : P(w)
  <2>1. PICK g : Runs(K, Nat, PREFIX, F, g)
    <3> HIDE DEF F, K
    <3>1. QED
      BY <1>1, <1>3, RunExists
  <2>2. /\ g \in [0..K -> Nat] /\ g[0] = PREFIX
        /\ \A n \in 1..K : g[n] = F[n][g[n - 1]]
    BY <2>1 DEF Runs
  <2> HIDE DEF K
  <2>3. \A n \in 1..K : g[n] = Add(g[n - 1], Width(n))
    <3> SUFFICES ASSUME NEW n \in 1..K PROVE g[n] = Add(g[n - 1], Width(n))
      OBVIOUS
    <3>1. g[n - 1] \in Nat
      BY <1>1, <2>2
    <3>2. QED
      BY <2>2, <3>1
  <2>4. \A n \in 0..K : g[n] = IF n = 0 THEN PREFIX ELSE Add(g[n - 1], Width(n))
    BY <1>1, <2>2, <2>3
  <2>5. P(g)
    <3>1. g = [n \in 0..K |-> g[n]]
      BY <2>2
    <3>2. QED
      BY <2>4, <3>1
  <2>6. QED
    BY <2>5
<1>5. curpos = CHOOSE w : P(w)
  BY DEF curpos, Places, Width
<1> DEFINE w == curpos
<1>6. P(w)
  BY <1>4, <1>5
<1> HIDE DEF w, K
<1>7. w[0] = PREFIX /\ \A n \in 1..K : w[n] = Add(w[n - 1], Width(n))
  <2>1. 0 \in 0..K /\ \A n \in 1..K : n \in 0..K /\ n # 0
    BY <1>1
  <2>2. QED
    BY <1>6, <2>1
<1>8. w \in [0..K -> Nat]
  <2> DEFINE B == {n \in 0..K : w[n] \notin Nat}
  <2>1. B = {}
    <3> SUFFICES ASSUME B # {} PROVE FALSE
      OBVIOUS
    <3>1. B \in SUBSET Nat
      BY <1>1
    <3>2. PICK m \in B : \A l \in B : m <= l
      BY <3>1, LeastNat
    <3>3. m # 0
      BY <1>1, <1>7
    <3>4. m \in 1..K /\ m - 1 \in 0..K
      BY <1>1, <3>3
    <3>5. w[m - 1] \in Nat
      BY <1>1, <3>2, <3>4
    <3>6. w[m] \in Nat
      BY <1>2, <1>7, <3>4, <3>5, AddWord, WordFacts
    <3>7. QED
      BY <3>6
  <2>2. w = [n \in 0..K |-> w[n]]
    BY <1>6
  <2>3. QED
    BY <2>1, <2>2
<1>9. QED
  BY <1>2, <1>7, <1>8 DEF w, K

\* Positions that do not wrap are in order.
LEMMA Ascending ==
  ASSUME NEW N \in Nat, NEW p, \A n \in 0..N : p[n] \in Nat, \A n \in 1..N : p[n - 1] <= p[n],
         NEW a \in 0..N, NEW c \in 0..N, a <= c
  PROVE  p[a] <= p[c]
<1> DEFINE B == {n \in 0..N : a <= n /\ ~ (p[a] <= p[n])}
<1> SUFFICES ASSUME B # {} PROVE FALSE
  OBVIOUS
<1>1. B \in SUBSET Nat
  OBVIOUS
<1>2. PICK m \in B : \A l \in B : m <= l
  BY <1>1, LeastNat
<1>3. m # a
  OBVIOUS
<1>4. m - 1 \in 0..N /\ m \in 1..N /\ a <= m - 1
  BY <1>3
<1>5. m - 1 \notin B
  BY <1>2, <1>4
<1>6. p[a] <= p[m - 1] /\ p[m - 1] <= p[m]
  BY <1>4, <1>5
<1>7. QED
  BY <1>4, <1>6

Before(m, s, n, t) == file2[m].base[s] + file2[m].len[s] <= file2[n].base[t]

\* No two segments share a place in the image, and none the prefix.
Apart ==
  Laid => \A m, n \in DOMAIN file2 : \A s, t \in Seg \ {"UDEF"} :
    /\ file2[m].base[s] >= PREFIX
    /\ m # n \/ s # t => Before(m, s, n, t) \/ Before(n, t, m, s)

LEMMA RelocEffect ==
  ASSUME Shape, Sizes, doreloc
  PROVE  /\ in' = in /\ pc = "file1" /\ pc' = "undef" /\ SameMods
         /\ \A m \in DOMAIN file2 :
              /\ file2'[m].pos = file2[m].pos /\ file2'[m].len = file2[m].len
              /\ file2'[m].base = [s \in Seg |-> curpos[PlaceOf(s, m) - 1]]
<1>1. /\ file2' = [m \in DOMAIN file2 |->
                     SetBase(file2[m], [s \in Seg |-> curpos[PlaceOf(s, m) - 1]])]
      /\ in' = in /\ pc = "file1" /\ pc' = "undef"
  BY DEF doreloc, SetBase, LastObject
<1>2. SameMods
  BY doreloc_Quiet DEF Quiet
<1>3. ASSUME NEW m \in DOMAIN file2
      PROVE  /\ file2'[m].pos = file2[m].pos /\ file2'[m].len = file2[m].len
             /\ file2'[m].base = [s \in Seg |-> curpos[PlaceOf(s, m) - 1]]
  <2> DEFINE y == [s \in Seg |-> curpos[PlaceOf(s, m) - 1]]
  <2>1. file2'[m] = SetBase(file2[m], y)
    BY <1>1
  <2> HIDE DEF y
  <2>2. Entry(file2[m])
    BY DEF Shape
  <2>3. file2'[m].base = y /\ file2'[m].pos = file2[m].pos /\ file2'[m].len = file2[m].len
    BY <2>1, <2>2, OtherFields
  <2>4. QED
    BY <2>3 DEF y
<1>4. QED
  BY <1>1, <1>2, <1>3

LEMMA RelocSizes ==
  ASSUME Shape, WInv, doreloc
  PROVE  WInv'
<1>0. PICK L : L = Len(file2)
  OBVIOUS
<1>1. L \in Nat /\ DOMAIN file2 = 1..L /\ Sizes
  BY <1>0, RowLen DEF Shape, WInv
<1>2. /\ in' = in /\ pc = "file1" /\ pc' = "undef" /\ SameMods
      /\ \A m \in DOMAIN file2 :
           /\ file2'[m].pos = file2[m].pos /\ file2'[m].len = file2[m].len
           /\ file2'[m].base = [s \in Seg |-> curpos[PlaceOf(s, m) - 1]]
  BY <1>1, RelocEffect
<1>3. \A n \in 0..(4 * L) : curpos[n] \in Nat
  BY <1>0, <1>1, CurposSteps
<1>4. ASSUME NEW m \in DOMAIN file2 PROVE Sized(file2'[m])
  <2>1. \A s \in Seg : PlaceOf(s, m) - 1 \in 0..(4 * L)
    BY <1>0, <1>1, PlaceTwoWays
  <2>2. [s \in Seg |-> curpos[PlaceOf(s, m) - 1]] \in [Seg -> Nat]
    BY <1>3, <2>1
  <2>3. QED
    BY <1>1, <1>2, <2>2 DEF Sizes, Sized
<1>5. (Sizes /\ Measures)'
  BY <1>2, <1>4, SizesKept DEF WInv, Partial
<1>6. QED
  BY <1>2, <1>5 DEF WInv, At1, At2

LEMMA RelocApart ==
  ASSUME Shape, Sizes, doreloc, ImageFits'
  PROVE  Apart'
<1>0. PICK L : L = Len(file2)
  OBVIOUS
<1>1. L \in Nat /\ DOMAIN file2 = 1..L
  BY <1>0, RowLen DEF Shape
<1>2. /\ pc' = "undef" /\ DOMAIN file2' = DOMAIN file2
      /\ \A m \in DOMAIN file2 :
           /\ file2'[m].pos = file2[m].pos /\ file2'[m].len = file2[m].len
           /\ file2'[m].base = [s \in Seg |-> curpos[PlaceOf(s, m) - 1]]
  BY RelocEffect, SameModules
<1> DEFINE p == curpos
           N == 3 * L
<1>3. /\ \A n \in 0..(4 * L) : p[n] \in Nat /\ p[0] = PREFIX
      /\ \A n \in 1..(4 * L) : Width(n) \in Nat /\ p[n] = Add(p[n - 1], Width(n))
  BY <1>0, <1>1, CurposSteps
<1>4. /\ \A n \in 1..(4 * L) : /\ ModOf(n) \in 1..L /\ SegOf(n) \in Seg
                               /\ PlaceOf(SegOf(n), ModOf(n)) = n
                               /\ n <= N => SegOf(n) # "UDEF"
      /\ \A m \in 1..L : \A s \in Seg :
           /\ PlaceOf(s, m) \in 1..(4 * L)
           /\ ModOf(PlaceOf(s, m)) = m /\ SegOf(PlaceOf(s, m)) = s
           /\ s # "UDEF" => PlaceOf(s, m) <= N
  BY <1>0, <1>1, PlaceTwoWays
<1>5. \A m \in 1..L : \A s \in Seg :
        /\ file2'[m].base[s] = p[PlaceOf(s, m) - 1]
        /\ file2'[m].len[s] = Width(PlaceOf(s, m))
  <2> SUFFICES ASSUME NEW m \in 1..L, NEW s \in Seg
               PROVE  /\ file2'[m].base[s] = p[PlaceOf(s, m) - 1]
                      /\ file2'[m].len[s] = Width(PlaceOf(s, m))
    OBVIOUS
  <2>1. ModOf(PlaceOf(s, m)) = m /\ SegOf(PlaceOf(s, m)) = s
    BY <1>4
  <2>2. Width(PlaceOf(s, m)) = file2[m].len[s]
    BY <2>1 DEF Width
  <2>3. file2'[m].len = file2[m].len /\ file2'[m].base = [x \in Seg |-> p[PlaceOf(x, m) - 1]]
    BY <1>1, <1>2
  <2> HIDE DEF p
  <2>4. QED
    BY <2>2, <2>3
<1>6. \A m \in 1..L : \A s \in Seg \ {"UDEF"} : file2'[m].base[s] + file2'[m].len[s] < WORD
  BY <1>1, <1>2 DEF ImageFits, Laid
<1> HIDE DEF p
<1>7. \A n \in 1..N : n \in 1..(4 * L) /\ n - 1 \in 0..(4 * L)
  BY <1>1
<1>8. \A n \in 1..N : p[n] = p[n - 1] + Width(n)
  <2> SUFFICES ASSUME NEW n \in 1..N PROVE p[n] = p[n - 1] + Width(n)
    OBVIOUS
  <2>1. n \in 1..(4 * L) /\ n - 1 \in 0..(4 * L) /\ n <= N
    BY <1>1, <1>7
  <2> DEFINE m == ModOf(n)
             s == SegOf(n)
  <2>2. m \in 1..L /\ s \in Seg \ {"UDEF"} /\ PlaceOf(s, m) = n
    BY <1>4, <2>1
  <2> HIDE DEF m, s
  <2>3. p[n - 1] + Width(n) < WORD
    BY <1>5, <1>6, <2>2
  <2>4. p[n - 1] \in Nat /\ Width(n) \in Nat /\ p[n] = Add(p[n - 1], Width(n))
    BY <1>3, <2>1
  <2>5. QED
    BY <2>3, <2>4, NoWrap
<1>9. /\ N \in Nat /\ \A n \in 0..N : p[n] \in Nat
      /\ \A n \in 1..N : Width(n) \in Nat
  BY <1>1, <1>3
<1>10. \A n \in 1..N : p[n - 1] <= p[n]
  <2> SUFFICES ASSUME NEW n \in 1..N PROVE p[n - 1] <= p[n]
    OBVIOUS
  <2>1. n - 1 \in 0..N /\ n \in 0..N
    BY <1>9
  <2>2. p[n - 1] \in Nat /\ Width(n) \in Nat /\ p[n] = p[n - 1] + Width(n)
    BY <1>8, <1>9, <2>1
  <2>3. QED
    BY <2>2
<1> HIDE DEF N
<1>11. \A a, c \in 0..N : a <= c => p[a] <= p[c]
  BY <1>9, <1>10, Ascending
<1>12. ASSUME NEW m \in 1..L, NEW s \in Seg \ {"UDEF"}
       PROVE  file2'[m].base[s] >= PREFIX
  <2>1. PlaceOf(s, m) \in 1..(4 * L) /\ PlaceOf(s, m) <= N
    BY <1>4
  <2>2. PlaceOf(s, m) - 1 \in 0..N /\ 0 \in 0..N /\ 0 <= PlaceOf(s, m) - 1
    BY <1>9, <2>1
  <2>3. p[0] <= p[PlaceOf(s, m) - 1]
    BY <1>11, <2>2
  <2>4. p[0] = PREFIX
    <3>1. 0 \in 0..(4 * L)
      BY <1>1
    <3>2. QED
      BY <1>3, <3>1
  <2>5. QED
    BY <1>5, <1>9, <2>2, <2>3, <2>4 DEF PREFIX
<1>13. ASSUME NEW m \in 1..L, NEW n \in 1..L, NEW s \in Seg \ {"UDEF"}, NEW t \in Seg \ {"UDEF"},
              PlaceOf(s, m) < PlaceOf(t, n)
       PROVE  file2'[m].base[s] + file2'[m].len[s] <= file2'[n].base[t]
  <2> DEFINE a == PlaceOf(s, m)
             c == PlaceOf(t, n)
  <2>1. a \in 1..(4 * L) /\ a <= N /\ c \in 1..(4 * L) /\ c <= N /\ a < c
    BY <1>4, <1>13
  <2>2. file2'[m].base[s] = p[a - 1] /\ file2'[m].len[s] = Width(a) /\ file2'[n].base[t] = p[c - 1]
    BY <1>5
  <2> HIDE DEF a, c
  <2>3. a \in 1..N /\ a \in 0..N /\ c - 1 \in 0..N /\ a <= c - 1
    BY <1>9, <2>1
  <2>4. p[a] = p[a - 1] + Width(a) /\ p[a] <= p[c - 1]
    BY <1>8, <1>11, <2>3
  <2>5. QED
    BY <2>2, <2>4
<1>14. ASSUME NEW m \in 1..L, NEW n \in 1..L, NEW s \in Seg \ {"UDEF"}, NEW t \in Seg \ {"UDEF"},
              m # n \/ s # t
       PROVE  PlaceOf(s, m) < PlaceOf(t, n) \/ PlaceOf(t, n) < PlaceOf(s, m)
  <2>1. /\ ModOf(PlaceOf(s, m)) = m /\ SegOf(PlaceOf(s, m)) = s /\ PlaceOf(s, m) \in 1..(4 * L)
        /\ ModOf(PlaceOf(t, n)) = n /\ SegOf(PlaceOf(t, n)) = t /\ PlaceOf(t, n) \in 1..(4 * L)
    BY <1>4
  <2>2. PlaceOf(s, m) # PlaceOf(t, n)
    BY <1>14, <2>1
  <2>3. QED
    BY <1>1, <2>1, <2>2
<1>15. QED
  BY <1>1, <1>2, <1>12, <1>13, <1>14 DEF Apart, Before

-----------------------------------------------------------------------------
(* dopass2: the positions of pass 1 again                                  *)

LEMMA FollowsFurther ==
  ASSUME NEW b, ObjectOK(b), ObjectFits(b), NEW k \in 1..Len(b), b[k].op \notin {"org", "end"},
         NEW s \in Seg, NEW fp, NEW g, NEW o, NEW u, Sized(fp), Sized(g),
         Measured(b, fp.len), Follows(b, k, s, fp, o), g.base = fp.base,
         g.pos[s] = Add(fp.pos[s], Size(b[k])), s # "UDEF" => u = o + Size(b[k])
  PROVE  Follows(b, k + 1, s, g, u)
<1>1. Len(b) \in Nat /\ Size(b[k]) \in Nat /\ k \in DOMAIN b
  BY ObjectRow, SizeNat
<1>2. /\ SegAt(b, k + 1) = SegAt(b, k) /\ OfsAt(b, k + 1) = OfsAt(b, k) + Size(b[k])
      /\ OfsAt(b, k) \in Nat
  BY <1>1, WalkFields
<1>3. k + 1 <= Len(b)
  <2>1. k # Len(b)
    BY DEF Measured
  <2>2. QED
    BY <1>1, <2>1
<1>4. s # "CODE" => g.pos[s] = OfsAt(b, k + 1)
  <2>1. OfsAt(b, k) + Size(b[k]) < WORD
    BY <1>1 DEF ObjectFits
  <2>2. s # "CODE" => fp.pos[s] = OfsAt(b, k)
    BY DEF Follows
  <2>3. QED
    BY <1>1, <1>2, <2>1, <2>2, NoWrap
<1>5. s # "UDEF" => u = g.base[s] + OfsAt(b, k + 1)
  <2>1. s # "UDEF" => o = fp.base[s] + OfsAt(b, k)
    BY DEF Follows
  <2>2. fp.base[s] \in Nat
    BY DEF Sized
  <2>3. QED
    BY <1>1, <1>2, <2>1, <2>2
<1>6. QED
  BY <1>2, <1>3, <1>4, <1>5 DEF Follows

LEMMA FollowsOrg ==
  ASSUME NEW b, ObjectOK(b), NEW k \in 1..Len(b), b[k].op = "org",
         NEW s, NEW fp, NEW g, NEW o, NEW u, Sized(fp),
         Measured(b, fp.len), g.base = fp.base, g.pos[b[k].seg] = b[k].ofs,
         b[k].seg # "UDEF" => /\ u = Add(fp.base[b[k].seg], b[k].ofs)
                              /\ fp.base[b[k].seg] + fp.len[b[k].seg] < WORD
  PROVE  Follows(b, k + 1, b[k].seg, g, u)
<1> DEFINE x == b[k].seg
           y == b[k].ofs
<1>1. Len(b) \in Nat /\ k \in DOMAIN b
  BY ObjectRow
<1>2. x \in Seg /\ y \in Nat
  <2>1. x \in Seg /\ y \in Word
    BY <1>1 DEF ObjectOK
  <2>2. QED
    BY <2>1, WordFacts
<1>3. SegAt(b, k + 1) = x /\ OfsAt(b, k + 1) = y
  BY <1>1, WalkFields
<1>4. k + 1 <= Len(b) /\ k + 1 \in 1..Len(b)
  <2>1. k # Len(b)
    BY DEF Measured
  <2>2. QED
    BY <1>1, <2>1
<1>5. y <= fp.len[x]
  BY <1>3, <1>4 DEF Measured
<1>6. fp.base[x] \in Nat /\ fp.len[x] \in Nat
  BY <1>2, WordFacts DEF Sized
<1>7. x # "UDEF" => u = Add(fp.base[x], y) /\ fp.base[x] + fp.len[x] < WORD
  OBVIOUS
<1>8. g.pos[x] = y
  OBVIOUS
<1> HIDE DEF x, y
<1>9. x # "UDEF" => u = fp.base[x] + y
  <2> SUFFICES ASSUME x # "UDEF" PROVE u = fp.base[x] + y
    OBVIOUS
  <2>0. PICK p, l : p = fp.base[x] /\ l = fp.len[x]
    OBVIOUS
  <2>1. p \in Nat /\ l \in Nat /\ y \in Nat /\ y <= l /\ p + l < WORD /\ u = Add(p, y)
    BY <1>2, <1>5, <1>6, <1>7, <2>0
  <2>2. p + y < WORD
    BY <2>1, Halves
  <2>3. u = p + y
    BY <2>1, <2>2, NoWrap
  <2>4. QED
    BY <2>0, <2>3
<1>10. Follows(b, k + 1, x, g, u)
  BY <1>3, <1>4, <1>8, <1>9 DEF Follows
<1>11. QED
  BY <1>10 DEF x

\* The module being read again, and the next command.
LEMMA Here2 ==
  ASSUME LInv, WInv, Reading("pass2")
  PROVE  LET b == Obj(i)
             fp == file2[i]
         IN  /\ cur = i /\ i \in DOMAIN file2 /\ Entry(fp) /\ Sized(fp) /\ ObjectOK(b)
             /\ Len(b) \in Nat /\ ip \in 1..Len(b) /\ DOMAIN b = 1..Len(b) /\ cmd = b[ip]
             /\ Follows(b, ip, curseg, fp, out) /\ curseg \in Seg /\ Measured(b, fp.len)
             /\ pc = "pass2" /\ Size(cmd) \in Nat /\ i \in Nat \ {0}
<1> DEFINE b == Obj(i)
<1>1. pc = "pass2" /\ cur = i /\ i \in DOMAIN file2 /\ i \in Nat \ {0}
  BY DEF WInv, At2, Reading, cur
<1>2. body = b
  BY <1>1 DEF body, Obj
<1>3. ObjectOK(b) /\ Entry(file2[i]) /\ Sized(file2[i])
  BY <1>1, ObjOK DEF LInv, Shape, WInv, Sizes
<1>4. Len(b) \in Nat /\ DOMAIN b = 1..Len(b)
  BY <1>3, ObjectRow
<1>5. ip \in 1..Len(b) /\ cmd = b[ip]
  BY <1>2, <1>4 DEF Reading, LInv, Shape, cmd
<1>6. Follows(b, ip, curseg, file2[i], out)
  BY <1>1 DEF WInv, At2
<1>7. Measured(b, file2[i].len)
  BY <1>1 DEF WInv, Measures, Partial
<1> HIDE DEF b
<1>8. curseg \in Seg
  <2>1. ip \in 1..(Len(b) + 1)
    BY <1>4, <1>5
  <2>2. QED
    BY <1>3, <1>6, <2>1, WalkFields DEF Follows
<1>9. Size(cmd) \in Nat
  BY <1>3, <1>4, <1>5, SizeNat
<1>10. QED
  BY <1>1, <1>3, <1>4, <1>5, <1>6, <1>7, <1>8, <1>9 DEF b

\* Entry c of file2 has changed to g; nothing is measured anew.
LEMMA OtherEntry ==
  ASSUME Shape, Sizes, Measures, NEW c \in DOMAIN file2, NEW g, Sized(g), g.len = file2[c].len,
         Keeps(g, file2[c]), file2' = [file2 EXCEPT ![c] = g], in' = in,
         pc \in Partial => pc' \in Partial
  PROVE  /\ (Sizes /\ Measures)' /\ file2'[c] = g /\ Obj(c)' = Obj(c) /\ DOMAIN file2' = DOMAIN file2
         /\ Len(file2') = Len(file2) /\ SameMods
         /\ \A m \in DOMAIN file2 : m # c => file2'[m] = file2[m]
<1>1. SameMods
  BY ModsExcept
<1>2. Row(file2)
  BY DEF Shape
<1>3. \A m \in DOMAIN file2 : file2'[m] = IF m = c THEN g ELSE file2[m]
  BY <1>2, RowExcept
<1>4. \A m \in DOMAIN file2 : Sized(file2'[m]) /\ file2'[m].len = file2[m].len
  BY <1>3 DEF Sizes
<1>5. (Sizes /\ Measures)'
  BY <1>1, <1>4, SizesKept
<1>6. QED
  BY <1>1, <1>3, <1>5, SameModules

\* What pass 2 may do with a command.
Stay ==
  /\ UNCHANGED <<in, pc, i, file2, name, curseg, out, image>> /\ ip' = ip + 1
  /\ cmd.op \notin {"data", "dsb", "popb", "popw", "org", "end"}
Move ==
  /\ UNCHANGED <<in, pc, i, name, curseg>> /\ ip' = ip + 1
  /\ file2' = [file2 EXCEPT ![cur] = Moved(file2[cur])]
  /\ cmd.op \in {"data", "dsb", "popb", "popw"}
  /\ curseg # "UDEF" => out' = out + Size(cmd)

LEMMA StaySizes ==
  ASSUME LInv, WInv, ObjectsFit, Reading("pass2"), Stay
  PROVE  WInv'
<1>0. PICK c, b, fp : c = i /\ b = Obj(c) /\ fp = file2[c]
  OBVIOUS
<1>1. /\ cur = c /\ c \in DOMAIN file2 /\ Entry(fp) /\ Sized(fp) /\ ObjectOK(b)
      /\ Len(b) \in Nat /\ ip \in 1..Len(b) /\ DOMAIN b = 1..Len(b) /\ cmd = b[ip]
      /\ Follows(b, ip, curseg, fp, out) /\ curseg \in Seg /\ Measured(b, fp.len)
      /\ pc = "pass2" /\ Size(cmd) \in Nat /\ c \in Nat \ {0}
  BY <1>0, Here2
<1>2. ObjectFits(b)
  BY <1>0, <1>1, ObjOK DEF LInv
<1>3. Size(b[ip]) = 0 /\ b[ip].op \notin {"org", "end"}
  BY <1>1, PlainSize DEF Stay
<1>4. fp.pos[curseg] = Add(fp.pos[curseg], Size(b[ip]))
  <2>1. fp.pos[curseg] \in Word
    BY <1>1 DEF Sized
  <2>2. fp.pos[curseg] \in Nat /\ fp.pos[curseg] < WORD
    BY <2>1, WordNat
  <2>3. QED
    BY <1>3, <2>2, NoWrap
<1>5. curseg # "UDEF" => out = out + Size(b[ip])
  <2>1. curseg # "UDEF" => out = fp.base[curseg] + OfsAt(b, ip)
    BY <1>1 DEF Follows
  <2>2. OfsAt(b, ip) \in Nat /\ fp.base[curseg] \in Nat
    BY <1>1, WalkFields DEF Sized
  <2>3. QED
    BY <1>3, <2>1, <2>2
<1>6. Follows(b, ip + 1, curseg, fp, out)
  BY <1>1, <1>2, <1>3, <1>4, <1>5, FollowsFurther
<1>7. SameMods /\ Shape
  BY ModsUnchanged DEF LInv, Stay
<1>8. (Sizes /\ Measures)'
  BY <1>7, SizesKept DEF WInv, Sizes, Stay
<1>9. Obj(c)' = b
  BY <1>0 DEF Obj, Stay
<1>10. At2'
  BY <1>0, <1>1, <1>6, <1>9 DEF At2, Stay
<1>11. QED
  BY <1>1, <1>8, <1>10 DEF WInv, At1, Stay

LEMMA MoveSizes ==
  ASSUME LInv, WInv, ObjectsFit, Reading("pass2"), Move
  PROVE  /\ WInv' /\ SameMods
         /\ \A m \in DOMAIN file2 : file2'[m].base = file2[m].base /\ file2'[m].len = file2[m].len
<1>0. PICK c, b, fp, g : c = i /\ b = Obj(c) /\ fp = file2[c] /\ g = Moved(fp)
  OBVIOUS
<1>1. /\ cur = c /\ c \in DOMAIN file2 /\ Entry(fp) /\ Sized(fp) /\ ObjectOK(b)
      /\ Len(b) \in Nat /\ ip \in 1..Len(b) /\ DOMAIN b = 1..Len(b) /\ cmd = b[ip]
      /\ Follows(b, ip, curseg, fp, out) /\ curseg \in Seg /\ Measured(b, fp.len)
      /\ pc = "pass2" /\ Size(cmd) \in Nat /\ c \in Nat \ {0}
  BY <1>0, Here2
<1>2. ObjectFits(b)
  BY <1>0, <1>1, ObjOK DEF LInv
<1>3. /\ Sized(g) /\ g.len = fp.len /\ g.base = fp.base
      /\ g.pos[curseg] = Add(fp.pos[curseg], Size(cmd))
  BY <1>0, <1>1, MovedSized
<1>4. b[ip].op \notin {"org", "end"} /\ (curseg # "UDEF" => out' = out + Size(b[ip]))
  BY <1>1 DEF Move
<1>5. PICK u : u = out'
  OBVIOUS
<1>6. Follows(b, ip + 1, curseg, g, u)
  BY <1>1, <1>2, <1>3, <1>4, <1>5, FollowsFurther
<1>7. Keeps(g, fp) /\ Shape
  BY <1>0, <1>1, MovedKeeps DEF LInv
<1>8. /\ in' = in /\ file2' = [file2 EXCEPT ![c] = g] /\ UNCHANGED <<pc, i, curseg>>
      /\ ip' = ip + 1
  BY <1>0, <1>1 DEF Move
<1>9. /\ (Sizes /\ Measures)' /\ file2'[c] = g /\ Obj(c)' = Obj(c) /\ DOMAIN file2' = DOMAIN file2
      /\ SameMods /\ \A m \in DOMAIN file2 : m # c => file2'[m] = file2[m]
  BY <1>0, <1>1, <1>3, <1>7, <1>8, OtherEntry DEF WInv
<1>10. At2'
  BY <1>0, <1>1, <1>5, <1>6, <1>8, <1>9 DEF At2
<1>11. QED
  BY <1>0, <1>1, <1>3, <1>8, <1>9, <1>10 DEF WInv, At1

LEMMA P2OrgSizes ==
  ASSUME LInv, WInv, ImageFits, P2Org
  PROVE  /\ WInv' /\ SameMods
         /\ \A m \in DOMAIN file2 : file2'[m].base = file2[m].base /\ file2'[m].len = file2[m].len
<1>0. PICK c, b, fp, g : c = i /\ b = Obj(c) /\ fp = file2[c] /\ g = SetPos(fp, cmd.seg, cmd.ofs)
  OBVIOUS
<1>1. /\ Reading("pass2") /\ cmd.op = "org" /\ ip' = ip + 1 /\ curseg' = cmd.seg
      /\ file2' = [file2 EXCEPT ![cur] = SetPos(file2[cur], cmd.seg, cmd.ofs)]
      /\ out' = IF cmd.seg = "UDEF" THEN 0 ELSE Add(file2[cur].base[cmd.seg], cmd.ofs)
      /\ UNCHANGED <<in, pc, i>>
  BY DEF P2Org, SetPos, loops
<1>2. /\ cur = c /\ c \in DOMAIN file2 /\ Entry(fp) /\ Sized(fp) /\ ObjectOK(b)
      /\ Len(b) \in Nat /\ ip \in 1..Len(b) /\ DOMAIN b = 1..Len(b) /\ cmd = b[ip]
      /\ Follows(b, ip, curseg, fp, out) /\ curseg \in Seg /\ Measured(b, fp.len)
      /\ pc = "pass2" /\ Size(cmd) \in Nat /\ c \in Nat \ {0}
  BY <1>0, <1>1, Here2
<1>3. cmd.seg \in Seg /\ cmd.ofs \in Word
  BY <1>1, <1>2 DEF ObjectOK
<1>4. /\ Sized(g) /\ g.len = fp.len /\ g.base = fp.base /\ g.pos[cmd.seg] = cmd.ofs
  BY <1>0, <1>2, <1>3, SetPosSized
<1>5. PICK u : u = out'
  OBVIOUS
<1>6. cmd.seg # "UDEF" => /\ u = Add(fp.base[cmd.seg], cmd.ofs)
                          /\ fp.base[cmd.seg] + fp.len[cmd.seg] < WORD
  BY <1>0, <1>1, <1>2, <1>3, <1>5 DEF ImageFits, Laid
<1>7. Follows(b, ip + 1, cmd.seg, g, u)
  <2>1. b[ip].op = "org" /\ g.pos[b[ip].seg] = b[ip].ofs
    BY <1>1, <1>2, <1>4
  <2>2. b[ip].seg # "UDEF" => /\ u = Add(fp.base[b[ip].seg], b[ip].ofs)
                              /\ fp.base[b[ip].seg] + fp.len[b[ip].seg] < WORD
    BY <1>2, <1>6
  <2>3. Follows(b, ip + 1, b[ip].seg, g, u)
    BY <1>2, <1>4, <2>1, <2>2, FollowsOrg
  <2>4. QED
    BY <1>2, <2>3
<1>8. Keeps(g, fp) /\ Shape
  BY <1>0, <1>2, OrgKeeps DEF LInv
<1>9. file2' = [file2 EXCEPT ![c] = g]
  BY <1>0, <1>1, <1>2
<1>10. /\ (Sizes /\ Measures)' /\ file2'[c] = g /\ Obj(c)' = Obj(c) /\ DOMAIN file2' = DOMAIN file2
       /\ SameMods /\ \A m \in DOMAIN file2 : m # c => file2'[m] = file2[m]
  BY <1>0, <1>1, <1>2, <1>4, <1>8, <1>9, OtherEntry DEF WInv
<1>11. At2'
  BY <1>0, <1>1, <1>2, <1>5, <1>7, <1>10 DEF At2
<1>12. QED
  BY <1>0, <1>1, <1>2, <1>4, <1>10, <1>11 DEF WInv, At1

LEMMA BeginSizes ==
  ASSUME LInv, WInv, dopass2
  PROVE  WInv'
<1>0. PICK c, b, fp : c = i /\ b = Obj(c) /\ fp = file2[c]
  OBVIOUS
<1>1. /\ pc = "file2" /\ pc' = "pass2" /\ c <= Len(file2) /\ curseg' = "CODE" /\ ip' = 1
      /\ out' = fp.base["CODE"] /\ UNCHANGED <<in, i, file2>>
  BY <1>0 DEF dopass2, loops
<1>2. c \in Nat \ {0}
  BY <1>0, <1>1 DEF WInv, At2
<1>3. c \in DOMAIN file2 /\ Shape
  BY <1>1, <1>2, RowLen DEF LInv, Shape
<1>4. ObjectOK(b) /\ Measured(b, fp.len) /\ Sized(fp)
  BY <1>0, <1>1, <1>3, ObjOK DEF WInv, Measures, Partial, Sizes
<1>5. SegAt(b, 1) = "CODE" /\ OfsAt(b, 1) = 0 /\ fp.base["CODE"] \in Nat
  BY <1>4, WalkFields DEF Sized, Seg
<1>6. Follows(b, 1, "CODE", fp, fp.base["CODE"])
  BY <1>4, <1>5 DEF Follows, Measured
<1>7. SameMods
  BY <1>1, <1>3, ModsUnchanged
<1>8. (Sizes /\ Measures)'
  BY <1>1, <1>3, <1>7, SizesKept DEF WInv, Sizes, Partial
<1>9. Obj(c)' = b
  BY <1>0, <1>1 DEF Obj
<1>10. At2'
  BY <1>0, <1>1, <1>2, <1>3, <1>6, <1>9 DEF At2
<1>11. QED
  BY <1>1, <1>8, <1>10 DEF WInv, At1

-----------------------------------------------------------------------------
(* Every step                                                              *)

LEMMA WriteMoves ==
  ASSUME NEW t, Row(t), Write(t)
  PROVE  out' = out + Len(t)
  BY DEF Write

\* The zeros of REL_DSB, as many as its count when that is positive as an int.
LEMMA SkipMoves ==
  ASSUME P2Skip, cmd.n \in Word, cmd.n < HALF, out \in Nat, curseg # "UDEF"
  PROVE  out' = out + cmd.n
<1>1. PICK n : n = cmd.n
  OBVIOUS
<1>2. n \in Nat /\ n < HALF
  BY <1>1, WordFacts
<1>3. Signed(n) = n
  BY <1>2, Halves DEF Signed, SignBit
<1>4. IF n > 0 THEN Write([b \in 1..n |-> Byte(0)]) ELSE out' = out
  BY <1>1, <1>3 DEF P2Skip
<1>5. CASE n > 0
  <2> DEFINE t == [b \in 1..n |-> Byte(0)]
  <2>1. t = [k \in 1..n |-> t[k]]
    OBVIOUS
  <2>2. Write(t)
    BY <1>4, <1>5
  <2> HIDE DEF t
  <2>3. Row(t) /\ Len(t) = n
    BY <1>2, <2>1, RowMade
  <2>4. QED
    BY <1>1, <2>2, <2>3, WriteMoves
<1>6. CASE ~ (n > 0)
  BY <1>1, <1>2, <1>4, <1>6
<1>7. QED
  BY <1>5, <1>6

LEMMA StaySteps ==
  ASSUME P2Alu \/ P2Not \/ P2Neg \/ P2Swap \/ P2Push \/ P2Symbol \/ P2Define
  PROVE  Reading("pass2") /\ Stay
<1>1. CASE P2Alu \/ P2Not \/ P2Neg \/ P2Swap
  BY <1>1 DEF P2Alu, P2Not, P2Neg, P2Swap, P2Stack, Stay, loops
<1>2. CASE P2Push
  BY <1>2 DEF P2Push, Stay, loops
<1>3. CASE P2Symbol
  BY <1>3 DEF P2Symbol, Stay, loops
<1>4. CASE P2Define
  BY <1>4 DEF P2Define, Stay, loops, pass2vars
<1>5. QED
  BY <1>1, <1>2, <1>3, <1>4

Stops == UNCHANGED <<in, file2>> /\ pc' = "exit1"

LEMMA StoreSteps ==
  ASSUME LInv, WInv, ObjectsFit, P2Data \/ P2PopByte \/ P2PopWord \/ P2Skip
  PROVE  Reading("pass2") /\ (Move \/ Stops)
<1>0. PICK c, b, fp : c = i /\ b = Obj(c) /\ fp = file2[c]
  OBVIOUS
<1>r. Reading("pass2")
  BY DEF P2Data, P2PopByte, P2PopWord, P2Skip
<1>1. /\ cur = c /\ c \in DOMAIN file2 /\ ObjectOK(b)
      /\ Len(b) \in Nat /\ ip \in 1..Len(b) /\ DOMAIN b = 1..Len(b) /\ cmd = b[ip]
      /\ Sized(fp) /\ curseg \in Seg /\ Follows(b, ip, curseg, fp, out)
  BY <1>0, <1>r, Here2
<1>2. ObjectFits(b)
  BY <1>0, <1>1, ObjOK DEF LInv
<1>3. out \in Nat \/ curseg = "UDEF"
  <2>1. curseg # "UDEF" => out = fp.base[curseg] + OfsAt(b, ip)
    BY <1>1 DEF Follows
  <2>2. OfsAt(b, ip) \in Nat /\ fp.base[curseg] \in Nat
    BY <1>1, WalkFields DEF Sized
  <2>3. QED
    BY <2>1, <2>2
<1>4. CASE P2Skip
  <2>1. /\ cmd.op = "dsb" /\ UNCHANGED <<in, pc, i, name, curseg>> /\ ip' = ip + 1
        /\ file2' = [file2 EXCEPT ![cur] = Moved(file2[cur])]
    BY <1>4 DEF P2Skip, loops
  <2>2. cmd.n \in Word /\ cmd.n < HALF
    BY <1>1, <1>2, <2>1 DEF ObjectOK, ObjectFits
  <2>3. Size(cmd) = cmd.n
    BY <2>1 DEF Size
  <2>4. curseg # "UDEF" => out' = out + Size(cmd)
    BY <1>3, <1>4, <2>2, <2>3, SkipMoves
  <2>5. Move
    BY <2>1, <2>4 DEF Move
  <2>6. QED
    BY <1>r, <2>5
<1>5. CASE P2Data \/ P2PopByte \/ P2PopWord
  <2>1. Stored /\ UNCHANGED <<in, i, name, curseg>>
    BY <1>5 DEF P2Data, P2PopByte, P2PopWord, loops
  <2>2. cmd.op \in {"data", "popb", "popw"}
    BY <1>5 DEF P2Data, P2PopByte, P2PopWord
  <2>3. out' = out + Size(cmd)
    <3>1. CASE P2Data
      <4>1. Write(cmd.bytes) /\ cmd.op = "data" /\ Size(cmd) = Len(cmd.bytes)
        BY <3>1 DEF P2Data, Size
      <4>2. Row(cmd.bytes)
        BY <1>1, <4>1, DataRow
      <4>3. QED
        BY <4>1, <4>2, WriteMoves
    <3>2. CASE P2PopByte
      <4> DEFINE t == <<Byte(Lo(Top))>>
      <4>1. Write(t) /\ Size(cmd) = 1 /\ Len(t) = 1
        BY <3>2 DEF P2PopByte, Size
      <4>2. QED
        BY <4>1 DEF Write
    <3>3. CASE P2PopWord
      <4> DEFINE t == Bytes(Top)
      <4>1. Write(t) /\ Size(cmd) = 2 /\ Len(t) = 2
        BY <3>3 DEF P2PopWord, Size, BPW, Bytes
      <4>2. QED
        BY <4>1 DEF Write
    <3>4. QED
      BY <1>5, <3>1, <3>2, <3>3
  <2>4. CASE curseg = "UDEF"
    BY <1>r, <2>1, <2>4 DEF Stored, Exit1, Stops
  <2>5. CASE curseg # "UDEF"
    BY <1>r, <2>1, <2>2, <2>3, <2>5 DEF Stored, Move
  <2>6. QED
    BY <2>4, <2>5
<1>6. QED
  BY <1>4, <1>5

\* A step of pass 2, and what it does to the positions.
LEMMA Pass2Sizes ==
  ASSUME LInv, WInv, ObjectsFit, ImageFits, Pass2
  PROVE  /\ WInv' /\ SameMods /\ Laid
         /\ \A m \in DOMAIN file2 : file2'[m].base = file2[m].base /\ file2'[m].len = file2[m].len
<1>0. Shape
  BY DEF LInv
<1>1. CASE dopass2
  <2>1. UNCHANGED file2 /\ Laid
    BY <1>1 DEF dopass2, Laid
  <2>2. QED
    BY <1>0, <1>1, <2>1, BeginSizes, ModsUnchanged
<1>2. CASE Return
  <2>1. UNCHANGED <<in, file2>> /\ pc = "file2" /\ pc' = "exit" /\ Laid
    BY <1>2 DEF Return, Laid
  <2>2. WInv'
    BY <1>0, <2>1, Elsewhere DEF Partial
  <2>3. QED
    BY <1>0, <2>1, <2>2, ModsUnchanged
<1>3. CASE P2Alu \/ P2Not \/ P2Neg \/ P2Swap \/ P2Push \/ P2Symbol \/ P2Define
  <2>1. Reading("pass2") /\ Stay
    BY <1>3, StaySteps
  <2>2. UNCHANGED file2 /\ Laid
    BY <2>1 DEF Stay, Reading, Laid
  <2>3. QED
    BY <1>0, <2>1, <2>2, StaySizes, ModsUnchanged
<1>4. CASE P2Data \/ P2PopByte \/ P2PopWord \/ P2Skip
  <2>1. Reading("pass2") /\ (Move \/ Stops)
    BY <1>4, StoreSteps
  <2>2. Laid
    BY <2>1 DEF Reading, Laid
  <2>3. CASE Move
    BY <2>1, <2>2, <2>3, MoveSizes
  <2>4. CASE Stops
    <3>1. WInv'
      BY <1>0, <2>4, Elsewhere DEF Stops, Partial
    <3>2. QED
      BY <1>0, <2>2, <2>4, <3>1, ModsUnchanged DEF Stops
  <2>5. QED
    BY <2>1, <2>3, <2>4
<1>5. CASE P2Org
  BY <1>5, P2OrgSizes DEF P2Org, Reading, Laid
<1>6. CASE P2End
  <2>1. /\ UNCHANGED <<in, file2>> /\ pc = "pass2" /\ pc' \in {"exit1", "file2"} /\ Laid
        /\ pc' = "file2" => i' = i + 1
    BY <1>6 DEF P2End, Reading, Exit1, Laid
  <2>2. i \in Nat \ {0}
    BY <2>1 DEF WInv, At2
  <2>3. WInv'
    BY <1>0, <2>1, <2>2, Elsewhere DEF Partial
  <2>4. QED
    BY <1>0, <2>1, <2>3, ModsUnchanged
<1>7. CASE P2Underflow
  <2>1. UNCHANGED <<in, file2>> /\ pc = "pass2" /\ pc' = "undefined" /\ Laid
    BY <1>7 DEF P2Underflow, Reading, Laid
  <2>2. WInv'
    BY <1>0, <2>1, Elsewhere DEF Partial
  <2>3. QED
    BY <1>0, <2>1, <2>2, ModsUnchanged
<1>8. QED
  BY <1>1, <1>2, <1>3, <1>4, <1>5, <1>6, <1>7 DEF Pass2

LEMMA Pass1Sizes ==
  ASSUME LInv, WInv, ObjectsFit, Pass1
  PROVE  WInv' /\ ~ Laid'
<1>0. Shape
  BY DEF LInv
<1>1. CASE File1Object
  <2>1. CASE file1[i].file \in DOMAIN in.obj
    <3>1. pc = "file1" /\ dopass1(file1[i].file, NONE) /\ in' = in
      BY <1>1, <2>1 DEF File1Object
    <3>2. WInv' /\ pc' \in {"pass1", "toomany"}
      BY <1>0, <2>1, <3>1, LoadSizes DEF Partial, dopass1
    <3>3. QED
      BY <3>2 DEF Laid
  <2>2. CASE file1[i].file \notin DOMAIN in.obj
    <3>1. UNCHANGED <<in, file2>> /\ pc = "file1" /\ pc' = "exit1"
      BY <1>1, <2>2 DEF File1Object, Exit1
    <3>2. QED
      BY <1>0, <3>1, Elsewhere DEF Partial, Laid
  <2>3. QED
    BY <2>1, <2>2
<1>2. CASE File1Library
  <2>1. UNCHANGED <<in, file2>> /\ pc = "file1" /\ pc' \in {"exit1", "scan"}
    BY <1>2 DEF File1Library, Exit1
  <2>2. QED
    BY <1>0, <2>1, Elsewhere DEF Partial, Laid
<1>3. CASE ScanSkip \/ ScanAgain \/ ScanDone
  <2>1. UNCHANGED <<in, file2>> /\ pc = "scan" /\ pc' \in {"scan", "file1"}
    BY <1>3 DEF ScanSkip, ScanAgain, ScanDone
  <2>2. QED
    BY <1>0, <2>1, Elsewhere DEF Partial, Laid
<1>4. CASE ScanLoad
  <2>1. /\ pc = "scan" /\ Wanted /\ Offered # NONE /\ dopass1(Offered, file1[i].lib) /\ in' = in
    BY <1>4 DEF ScanLoad
  <2>2. file1[i].lib \in DOMAIN in.lib
    BY <2>1 DEF LInv, Scanning
  <2>3. Offered \in in.lib[file1[i].lib]
    BY <2>1 DEF Offered, lbnlib
  <2>4. Offered \in DOMAIN in.obj
    BY <2>2, <2>3, InputAssumption DEF LInv, Shape, InputOK
  <2>5. WInv' /\ pc' \in {"pass1", "toomany"}
    BY <1>0, <2>1, <2>4, LoadSizes DEF Partial, dopass1
  <2>6. QED
    BY <2>5 DEF Laid
<1>5. CASE P1MissingEnd \/ P1Unknown
  <2>1. UNCHANGED <<in, file2>> /\ pc = "pass1" /\ pc' = "exit1"
    BY <1>5 DEF P1MissingEnd, P1Unknown, Reading, Exit1
  <2>2. QED
    BY <1>0, <2>1, Elsewhere DEF Partial, Laid
<1>6. CASE P1Skip \/ P1Symbol \/ P1Define
  <2>1. /\ Reading("pass1") /\ UNCHANGED <<in, pc, file2, curseg>> /\ ip' = ip + 1
        /\ cmd.op \notin {"data", "dsb", "popb", "popw", "org"}
    BY <1>6 DEF P1Skip, P1Symbol, P1Define
  <2>2. QED
    BY <2>1, P1PlainSizes DEF Reading, Laid
<1>7. CASE P1Advance
  <2>1. pc = "pass1" /\ pc' = pc
    BY <1>7 DEF P1Advance, Reading
  <2>2. QED
    BY <1>7, <2>1, P1AdvanceSizes DEF Laid
<1>8. CASE P1Org
  <2>1. pc = "pass1" /\ pc' = pc
    BY <1>8 DEF P1Org, Reading
  <2>2. QED
    BY <1>8, <2>1, P1OrgSizes DEF Laid
<1>9. CASE P1End
  <2>1. pc' \in {"file1", "scan"}
    BY <1>9 DEF P1End
  <2>2. QED
    BY <1>9, <2>1, P1EndSizes DEF Laid
<1>10. QED
  BY <1>1, <1>2, <1>3, <1>4, <1>5, <1>6, <1>7, <1>8, <1>9 DEF Pass1

\* The places of the segments are not moved once they are given.
LEMMA ApartKept ==
  ASSUME Apart, Laid, DOMAIN file2' = DOMAIN file2,
         \A m \in DOMAIN file2 : file2'[m].base = file2[m].base /\ file2'[m].len = file2[m].len
  PROVE  Apart'
  BY DEF Apart, Before

LEMMA WInvStep ==
  ASSUME LInv, WInv, Apart, ObjectsFit, ImageFits, ImageFits', [Next]_vars
  PROVE  WInv' /\ Apart'
<1>0. Shape
  BY DEF LInv
<1>1. CASE startup \/ main
  <2>1. UNCHANGED <<in, file2>> /\ pc = "startup" /\ pc' \in {"startup", "toomany", "file1"}
    BY <1>1 DEF startup, main
  <2>2. ~ Laid' /\ WInv'
    BY <1>0, <2>1, Elsewhere DEF Partial, Laid
  <2>3. QED
    BY <2>2 DEF Apart
<1>2. CASE Pass1
  BY <1>2, Pass1Sizes DEF Apart
<1>3. CASE doreloc
  BY <1>0, <1>3, RelocSizes, RelocApart DEF WInv
<1>4. CASE TestUndef \/ Prefix
  <2>1. /\ UNCHANGED <<in, file2>> /\ pc \in {"undef", "prefix"} /\ pc' \in {"prefix", "file2"}
        /\ pc' = "file2" => i' = 1
    BY <1>4 DEF TestUndef, Prefix
  <2>2. Laid /\ WInv'
    BY <1>0, <2>1, Elsewhere DEF Partial, Laid
  <2>3. QED
    BY <2>1, <2>2, ApartKept
<1>5. CASE Pass2
  <2>1. /\ WInv' /\ SameMods /\ Laid
        /\ \A m \in DOMAIN file2 : file2'[m].base = file2[m].base /\ file2'[m].len = file2[m].len
    BY <1>5, Pass2Sizes
  <2>2. Row(file2) /\ Row(file2') /\ Len(file2') = Len(file2)
    BY <1>0, <2>1 DEF Shape, SameMods
  <2>3. DOMAIN file2' = DOMAIN file2
    BY <2>2, RowLen
  <2>4. QED
    BY <2>1, <2>3, ApartKept
<1>6. CASE UNCHANGED vars
  <2>1. UNCHANGED <<in, pc, i, file2, ip, curseg, out>>
    BY <1>6 DEF vars, loops, pass2vars
  <2>2. Sizes' /\ Measures'
    BY <2>1 DEF WInv, Sizes, Measures, Obj
  <2>3. At1' /\ At2'
    BY <2>1 DEF WInv, At1, At2, Obj
  <2>4. Apart'
    BY <2>1 DEF Apart, Before, Laid
  <2>5. QED
    BY <2>2, <2>3, <2>4 DEF WInv
<1>7. QED
  BY <1>1, <1>2, <1>3, <1>4, <1>5, <1>6 DEF Next

\* The inductive invariant of the positions: both passes move alike over
\* every object, and doreloc() gives every segment a place of its own.
THEOREM PlacesInvariant ==
  ASSUME ObjectsFit
  PROVE  Spec /\ []ImageFits => [](LInv /\ WInv /\ Apart)
<1>1. Init => LInv /\ WInv /\ Apart
  BY InitLInv, InitWInv DEF Init, initialize, Apart, Laid
<1>2. (LInv /\ WInv /\ Apart) /\ ImageFits /\ ImageFits' /\ [Next]_vars => (LInv /\ WInv /\ Apart)'
  BY LInvStep, WInvStep
<1>3. QED
  BY <1>1, <1>2, PTL DEF Spec

LEMMA AtCommand ==
  ASSUME LInv, WInv, ImageFits, pc = "pass2", curseg # "UDEF"
  PROVE  LET fp == file2[cur]
             o == OfsAt(Obj(i), ip)
         IN  /\ o \in Nat /\ fp.base[curseg] \in Nat /\ fp.len[curseg] \in Nat
             /\ o <= fp.len[curseg] /\ out = fp.base[curseg] + o
             /\ fp.base[curseg] + fp.len[curseg] < WORD
             /\ curseg # "CODE" => fp.pos[curseg] = o
<1>1. Reading("pass2")
  <2>1. cur = i /\ i \in DOMAIN file2 /\ Follows(Obj(i), ip, curseg, file2[i], out)
    BY DEF WInv, At2, cur
  <2>2. body = Obj(i)
    BY <2>1 DEF body, Obj
  <2>3. QED
    BY <2>1, <2>2 DEF Reading, Follows
<1>2. PICK b, fp, o : b = Obj(i) /\ fp = file2[i] /\ o = OfsAt(b, ip)
  OBVIOUS
<1>3. /\ cur = i /\ i \in DOMAIN file2 /\ Sized(fp) /\ ObjectOK(b)
      /\ Len(b) \in Nat /\ ip \in 1..Len(b)
      /\ Follows(b, ip, curseg, fp, out) /\ curseg \in Seg /\ Measured(b, fp.len)
  BY <1>1, <1>2, Here2
<1>4. fp.base[curseg] \in Nat /\ fp.len[curseg] \in Nat
  BY <1>3, WordFacts DEF Sized
<1>5. o \in Nat /\ o <= fp.len[curseg]
  BY <1>2, <1>3, WalkFields DEF Measured, Follows
<1>6. out = fp.base[curseg] + o /\ (curseg # "CODE" => fp.pos[curseg] = o)
  BY <1>2, <1>3 DEF Follows
<1>7. fp.base[curseg] + fp.len[curseg] < WORD
  BY <1>2, <1>3 DEF ImageFits, Laid
<1>8. QED
  BY <1>2, <1>3, <1>4, <1>5, <1>6, <1>7

\* dopass1() and dopass2(): pass 2 writes every module inside the segment
\* that pass 1 measured for it, whatever the objects hold, as long as no
\* position passes the end of a word.
THEOREM InsideItsSegment ==
  ASSUME ObjectsFit
  PROVE  Spec /\ []ImageFits => []InOwnSegment
<1>1. ASSUME LInv, WInv, ImageFits, pc = "pass2", curseg # "UDEF"
      PROVE  out \in file2[cur].base[curseg]..(file2[cur].base[curseg] + file2[cur].len[curseg])
  <2>1. PICK p, l, o : p = file2[cur].base[curseg] /\ l = file2[cur].len[curseg] /\ o = OfsAt(Obj(i), ip)
    OBVIOUS
  <2>2. o \in Nat /\ p \in Nat /\ l \in Nat /\ o <= l /\ out = p + o
    BY <1>1, <2>1, AtCommand
  <2>3. QED
    BY <2>1, <2>2
<1>2. (LInv /\ WInv /\ Apart) /\ ImageFits => InOwnSegment
  BY <1>1 DEF InOwnSegment
<1>3. QED
  BY <1>2, PlacesInvariant, PTL

\* dopass2(): FDATAPOS and FTEXTPOS, set anew by every REL_xxxORG, stay in
\* step with the position of the image file.
THEOREM CursorInStep ==
  ASSUME ObjectsFit
  PROVE  Spec /\ []ImageFits => []CursorFollows
<1>1. ASSUME LInv, WInv, ImageFits, pc = "pass2", curseg \in {"DATA", "TEXT"}
      PROVE  out = Add(file2[cur].base[curseg], file2[cur].pos[curseg])
  <2>1. PICK p, l, o : p = file2[cur].base[curseg] /\ l = file2[cur].len[curseg] /\ o = OfsAt(Obj(i), ip)
    OBVIOUS
  <2>2. /\ o \in Nat /\ p \in Nat /\ l \in Nat /\ o <= l /\ out = p + o /\ p + l < WORD
        /\ file2[cur].pos[curseg] = o
    BY <1>1, <2>1, AtCommand
  <2>3. p + o < WORD
    BY <2>2, Halves
  <2>4. QED
    BY <2>1, <2>2, <2>3, NoWrap
<1>2. (LInv /\ WInv /\ Apart) /\ ImageFits => CursorFollows
  BY <1>1 DEF CursorFollows
<1>3. QED
  BY <1>2, PlacesInvariant, PTL

\* doreloc(): the segments of all modules lie apart in the image, behind the
\* jump at its start, from the moment they are placed until the end.
THEOREM SegmentsApart ==
  ASSUME ObjectsFit
  PROVE  Spec /\ []ImageFits => []Apart
  BY PlacesInvariant, PTL

-----------------------------------------------------------------------------
(* The image                                                               *)

\* No place of an object is filled twice, except by data over a .DSB before
\* it: of two commands that store in one place the second wins.
StoresOnce(b) ==
  \A k, l \in DOMAIN b :
    /\ k < l /\ SegAt(b, k) = SegAt(b, l)
    /\ b[k].op \in {"data", "popb", "popw"} /\ b[l].op \in {"data", "popb", "popw", "dsb"}
    => \/ OfsAt(b, k) + Size(b[k]) <= OfsAt(b, l)
       \/ OfsAt(b, l) + Size(b[l]) <= OfsAt(b, k)
AllStoreOnce == \A x \in Inputs : \A o \in DOMAIN x.obj : StoresOnce(x.obj[o])

Held(img, a, v) == a \in DOMAIN img /\ img[a] = v

\* Command k of object b has been carried out: what it stores is in the
\* image, a reference as the value of its symbol.
Written(b, k, base, nm, err, img) ==
  LET c == b[k]
      a == base[SegAt(b, k)] + OfsAt(b, k)
      v == nm[b[k - 1].sym].value
      ref == k > 1 /\ b[k - 1].op = "sym"
  IN  /\ c.op \in {"data", "popb", "popw"} => SegAt(b, k) # "UDEF"
      /\ c.op = "data" => \A n \in DOMAIN c.bytes : Held(img, a + n - 1, c.bytes[n])
      /\ c.op = "popw" /\ ref => Held(img, a, Byte(Hi(v))) /\ Held(img, a + 1, Byte(Lo(v)))
      /\ c.op = "popb" /\ ref => (err \/ FitsByte(v)) /\ Held(img, a, Byte(Lo(v)))

Early == pc \in {"startup", "file1", "scan", "pass1"}
Late == pc \in {"file2", "pass2", "exit"}
Done(m, k) == m < i \/ pc = "exit" \/ (m = i /\ pc = "pass2" /\ k < ip)

\* A definition that was read is the value of its symbol, ...
Values1 ==
  Early /\ ~ errflag =>
    \A m \in DOMAIN file2 : \A k \in DOMAIN Obj(m) :
      LET c == Obj(m)[k] IN
      Seen(m, k) /\ c.op = "def" => name[c.sym].type = c.seg /\ name[c.sym].value = c.ofs
\* ... and moves with its segment.
Values2 ==
  Laid /\ ~ errflag =>
    \A m \in DOMAIN file2 : \A k \in DOMAIN Obj(m) :
      LET c == Obj(m)[k] IN
      c.op = "def" => name[c.sym].value = Add(c.ofs, file2[m].base[c.seg])

Jump ==
  LET v == name["___START"].value IN
  /\ Early \/ pc \in {"undef", "prefix"} => out = 0
  /\ Late => Held(image, 1, Byte(Hi(v))) /\ Held(image, 2, Byte(Lo(v)))

\* Behind a REL_SYMBOL its value is on top of the stack.
Stacked ==
  pc = "pass2" =>
    /\ Row(stack)
    /\ ip > 1 /\ Obj(i)[ip - 1].op = "sym" =>
         Len(stack) > 0 /\ Top = name[Obj(i)[ip - 1].sym].value

Writes ==
  Late => \A m \in DOMAIN file2 : \A k \in DOMAIN Obj(m) :
            Done(m, k) => Written(Obj(m), k, file2[m].base, name, errflag, image)

MInv == Values1 /\ Values2 /\ Jump /\ Stacked /\ Writes

-----------------------------------------------------------------------------
(* Definitions, until the segments are placed                              *)

LEMMA SymNamed ==
  ASSUME Shape, NEW m \in DOMAIN file2, NEW k \in DOMAIN Obj(m)
  PROVE  /\ Obj(m)[k].op \in {"sym", "def"} => Obj(m)[k].sym \in Named
         /\ Obj(m)[k].op = "def" => Obj(m)[k].seg \in Seg /\ Obj(m)[k].ofs \in Word
<1>1. ObjectOK(Obj(m))
  BY ObjOK
<1>2. QED
  BY <1>1 DEF ObjectOK

\* What had a definition keeps it, and none was read.
LEMMA ValuesKept ==
  ASSUME LInv, Values1, Early, errflag => errflag',
         \A s \in Named : name[s].type \in Seg =>
           name'[s].type = name[s].type /\ name'[s].value = name[s].value,
         \A m \in DOMAIN file2' : \A k \in DOMAIN Obj(m)' :
           Seen(m, k)' /\ Obj(m)'[k].op = "def" =>
             m \in DOMAIN file2 /\ Obj(m)' = Obj(m) /\ Seen(m, k)
  PROVE  Values1'
<1> SUFFICES ASSUME ~ errflag', NEW m \in DOMAIN file2', NEW k \in DOMAIN Obj(m)',
                    Seen(m, k)', Obj(m)'[k].op = "def"
             PROVE  LET c == Obj(m)'[k] IN
                    name'[c.sym].type = c.seg /\ name'[c.sym].value = c.ofs
  BY DEF Values1
<1>1. m \in DOMAIN file2 /\ Obj(m)' = Obj(m) /\ Seen(m, k) /\ ~ errflag
  OBVIOUS
<1> DEFINE c == Obj(m)[k]
<1>2. k \in DOMAIN Obj(m) /\ c.op = "def" /\ Obj(m)'[k] = c
  BY <1>1
<1>3. c.sym \in Named
  BY <1>1, <1>2, SymNamed DEF LInv
<1>4. name[c.sym].type \in Seg
  BY <1>1, <1>2 DEF LInv, Known
<1>5. name[c.sym].type = c.seg /\ name[c.sym].value = c.ofs
  BY <1>1, <1>2 DEF Values1
<1> HIDE DEF c
<1>6. QED
  BY <1>2, <1>3, <1>4, <1>5

LEMMA EarlyStep ==
  ASSUME LInv, Values1, Early, errflag => errflag', in' = in, SameMods,
         \A s \in Named : name[s].type \in Seg =>
           name'[s].type = name[s].type /\ name'[s].value = name[s].value,
         \A m \in DOMAIN file2 : \A k \in DOMAIN Obj(m) :
           Seen(m, k)' => Seen(m, k) \/ Obj(m)[k].op # "def"
  PROVE  Values1'
<1>1. DOMAIN file2' = DOMAIN file2 /\ \A m \in DOMAIN file2 : Obj(m)' = Obj(m)
  BY SameModules DEF LInv
<1>2. \A m \in DOMAIN file2' : \A k \in DOMAIN Obj(m)' :
        Seen(m, k)' /\ Obj(m)'[k].op = "def" =>
          m \in DOMAIN file2 /\ Obj(m)' = Obj(m) /\ Seen(m, k)
  BY <1>1
<1>3. QED
  BY <1>2, ValuesKept

\* Outside dopass1.
LEMMA EarlyIdle ==
  ASSUME LInv, Values1, pc \in {"startup", "file1", "scan"}, UNCHANGED <<in, file2, name, errflag>>
  PROVE  Values1'
<1>1. SameMods /\ Early
  BY ModsUnchanged DEF LInv, Early
<1>2. \A m, k : Seen(m, k)
  BY DEF Seen, Partial
<1>3. QED
  BY <1>1, <1>2, EarlyStep

\* A new module, of which nothing has been read.
LEMMA EarlyLoad ==
  ASSUME LInv, Values1, NEW file \in DOMAIN in.obj, NEW lib, dopass1(file, lib),
         pc \in {"file1", "scan"}, UNCHANGED <<in, name, errflag>>
  PROVE  Values1'
<1> DEFINE e == [file |-> file, lib |-> lib, base |-> Zero, pos |-> Zero, len |-> Zero]
<1>0. PICK n : n = Len(file2) + 1
  OBVIOUS
<1>1. /\ file2' = Append(file2, e) /\ ip' = 1 /\ pc' \in {"pass1", "toomany"} /\ e.file = file
  BY DEF dopass1
<1> HIDE DEF e
<1>2. Row(file2) /\ Len(file2) \in Nat /\ DOMAIN file2 = 1..Len(file2)
  BY RowLen DEF LInv, Shape
<1>3. /\ Row(file2') /\ Len(file2') = n /\ file2'[n] = e
      /\ \A m \in DOMAIN file2 : file2'[m] = file2[m]
  BY <1>0, <1>1, <1>2, RowAppend
<1>4. DOMAIN file2' = 1..n
  BY <1>3, RowLen
<1>5. Early
  BY DEF Early
<1>6. ASSUME NEW m \in DOMAIN file2', NEW k \in DOMAIN Obj(m)', Seen(m, k)'
      PROVE  m \in DOMAIN file2 /\ Obj(m)' = Obj(m) /\ Seen(m, k)
  <2>1. k < 1 \/ m < n
    BY <1>1, <1>3, <1>6 DEF Seen, Partial
  <2>2. CASE m = n
    <3>1. Obj(m)' = in.obj[file]
      BY <1>1, <1>3, <2>2 DEF Obj
    <3>2. ObjectOK(in.obj[file])
      BY InputAssumption DEF LInv, Shape, InputOK
    <3>3. k >= 1 /\ k \in Nat
      BY <1>6, <3>1, <3>2, ObjectRow
    <3>4. QED
      BY <1>0, <1>2, <2>1, <2>2, <3>3
  <2>3. CASE m # n
    <3>1. m \in DOMAIN file2
      BY <1>0, <1>2, <1>4, <2>3
    <3>2. QED
      BY <1>3, <3>1 DEF Obj, Seen, Partial
  <2>4. QED
    BY <2>2, <2>3
<1>7. QED
  BY <1>5, <1>6, ValuesKept

\* In dopass1, behind any command but a definition.
LEMMA EarlyRead ==
  ASSUME LInv, Values1, Reading("pass1"), in' = in, SameMods, ip' = ip + 1,
         pc' = "pass1", errflag => errflag', cmd.op # "def",
         \A s \in Named : name[s].type \in Seg =>
           name'[s].type = name[s].type /\ name'[s].value = name[s].value
  PROVE  Values1'
<1>1. pc = "pass1" /\ cmd = Obj(cur)[ip] /\ Early
  BY HereReading DEF Early
<1>2. Len(file2') = Len(file2)
  BY SameModules DEF LInv
<1>3. \A m \in DOMAIN file2 : \A k \in DOMAIN Obj(m) :
        Seen(m, k)' => Seen(m, k) \/ Obj(m)[k].op # "def"
  BY <1>1, <1>2, OneMore
<1>4. QED
  BY <1>1, <1>3, EarlyStep

LEMMA EarlySymbol ==
  ASSUME LInv, Values1, P1Symbol
  PROVE  Values1'
<1> DEFINE s0 == cmd.sym
           v == Mention(s0)
           e == name[s0]
<1>1. /\ Reading("pass1") /\ cmd.op = "sym" /\ name' = [name EXCEPT ![s0].type = v]
      /\ ip' = ip + 1 /\ UNCHANGED <<in, pc, file2, errflag>>
  BY DEF P1Symbol
<1>2. s0 \in Named /\ pc = "pass1"
  BY <1>1, HereReading
<1>3. e.type \in Seg => v = e.type
  BY DEF Mention, Seg, NONE
<1>4. DOMAIN name = Named /\ Symbol(e)
  BY <1>2 DEF LInv, Shape
<1>5. name'[s0] = [e EXCEPT !.type = v] /\ \A s \in Named : s # s0 => name'[s] = name[s]
  BY <1>1, <1>2, <1>4
<1> HIDE DEF s0, v
<1> DEFINE y == e.module
           t == e.type
<1>6. PICK x : e = [type |-> t, module |-> y, value |-> x]
  BY <1>4 DEF Symbol
<1> HIDE DEF e, y, t
<1>7. [e EXCEPT !.type = v] = [type |-> v, module |-> y, value |-> x]
  BY <1>6
<1>8. name'[s0].type = v /\ name'[s0].value = x /\ e.value = x
  BY <1>5, <1>6, <1>7
<1>9. \A s \in Named : name[s].type \in Seg =>
        name'[s].type = name[s].type /\ name'[s].value = name[s].value
  BY <1>3, <1>5, <1>8 DEF e
<1>10. SameMods
  BY <1>1, ModsUnchanged DEF LInv
<1>11. cmd.op # "def" /\ pc' = "pass1"
  BY <1>1, <1>2
<1>12. QED
  BY <1>1, <1>9, <1>10, <1>11, EarlyRead

LEMMA EarlyDefine ==
  ASSUME LInv, Values1, P1Define
  PROVE  Values1'
<1> DEFINE s0 == cmd.sym
           e == [type |-> cmd.seg, module |-> cur, value |-> cmd.ofs]
<1>1. /\ Reading("pass1") /\ cmd.op = "def" /\ ip' = ip + 1 /\ UNCHANGED <<in, pc, file2>>
      /\ Mention(s0) # "UNDEF" => errflag' = TRUE
      /\ Mention(s0) = "UNDEF" => name' = [name EXCEPT ![s0] = e] /\ errflag' = errflag
  BY DEF P1Define
<1>2. CASE Mention(s0) # "UNDEF"
  BY <1>1, <1>2 DEF Values1
<1>3. CASE Mention(s0) = "UNDEF"
  <2>1. /\ ip \in DOMAIN body /\ cmd = Obj(cur)[ip] /\ pc = "pass1" /\ s0 \in Named
    BY <1>1, HereReading
  <2>2. cur \in DOMAIN file2 /\ body = Obj(cur)
    BY <2>1, Here
  <2>3. name[s0].type \notin Seg
    BY <1>3, <2>1 DEF Mention, Seg, NONE
  <2>4. e.type = cmd.seg /\ e.value = cmd.ofs
    OBVIOUS
  <2> HIDE DEF s0, e
  <2>5. name'[s0] = e /\ \A s \in Named : s # s0 => name'[s] = name[s]
    BY <1>1, <1>3, <2>1 DEF LInv, Shape
  <2>6. \A m : Obj(m)' = Obj(m)
    BY <1>1 DEF Obj
  <2> SUFFICES ASSUME ~ errflag, NEW m \in DOMAIN file2, NEW k \in DOMAIN Obj(m), Seen(m, k)',
                      Obj(m)[k].op = "def"
               PROVE  LET c == Obj(m)[k] IN
                      name'[c.sym].type = c.seg /\ name'[c.sym].value = c.ofs
    BY <1>1, <1>3, <2>6 DEF Values1
  <2>7. Seen(m, k) \/ (m = cur /\ k = ip)
    BY <1>1, <2>1, OneMore
  <2> DEFINE c == Obj(m)[k]
  <2>8. CASE Seen(m, k)
    <3>1. c.sym \in Named
      BY SymNamed DEF LInv
    <3>2. name[c.sym].type \in Seg
      BY <2>8 DEF LInv, Known
    <3>3. name[c.sym].type = c.seg /\ name[c.sym].value = c.ofs
      BY <2>1, <2>8 DEF Values1, Early
    <3> HIDE DEF c
    <3>4. name'[c.sym].type = c.seg /\ name'[c.sym].value = c.ofs
      BY <2>3, <2>5, <3>1, <3>2, <3>3
    <3>5. QED
      BY <3>4 DEF c
  <2>9. CASE m = cur /\ k = ip
    <3>1. c = cmd
      BY <2>1, <2>9
    <3>2. QED
      BY <2>4, <2>5, <3>1 DEF s0
  <2>10. QED
    BY <2>7, <2>8, <2>9
<1>4. QED
  BY <1>2, <1>3

LEMMA EarlyEnd ==
  ASSUME LInv, Values1, P1End
  PROVE  Values1'
<1>1. /\ Reading("pass1") /\ cmd.op = "end" /\ file2' = [file2 EXCEPT ![cur] = save_seg_size(file2[cur])]
      /\ UNCHANGED <<in, name, errflag, ip>>
  BY DEF P1End
<1>2. /\ ip \in DOMAIN body /\ cmd = Obj(cur)[ip] /\ ip \in Nat \ {0} /\ pc = "pass1"
      /\ ip = Len(body)
  BY <1>1, HereReading
<1>3. /\ cur = Len(file2) /\ cur \in DOMAIN file2 /\ body = Obj(cur)
      /\ Len(body) \in Nat /\ DOMAIN body = 1..Len(body)
  BY <1>2, Here
<1>4. SameMods
  <2>1. Shape /\ Entry(file2[cur])
    BY <1>3 DEF LInv, Shape
  <2>2. Keeps(save_seg_size(file2[cur]), file2[cur])
    BY <2>1, SavedKeeps
  <2>3. QED
    BY <1>1, <2>1, <2>2, ModsExcept
<1>5. DOMAIN file2 = 1..Len(file2) /\ Len(file2) \in Nat
  BY RowLen DEF LInv, Shape
<1>6. ASSUME NEW m \in DOMAIN file2, NEW k \in DOMAIN Obj(m), ~ Seen(m, k)
      PROVE  Obj(m)[k].op # "def"
  <2>1. m = cur
    BY <1>3, <1>5, <1>6 DEF Seen
  <2>2. k = ip
    BY <1>2, <1>3, <1>6, <2>1 DEF Seen
  <2>3. QED
    BY <1>1, <1>2, <2>1, <2>2
<1>7. Early
  BY <1>2 DEF Early
<1>8. QED
  BY <1>1, <1>4, <1>6, <1>7, EarlyStep

LEMMA EarlyMoves ==
  ASSUME LInv, Values1, P1Skip \/ P1Advance \/ P1Org
  PROVE  Values1'
<1>1. Shape
  BY DEF LInv
<1>2. /\ Reading("pass1") /\ ip' = ip + 1 /\ UNCHANGED <<in, name, errflag, pc>>
      /\ cmd.op # "def"
  BY DEF P1Skip, P1Advance, P1Org
<1>3. cur \in DOMAIN file2 /\ Entry(file2[cur]) /\ pc' = "pass1"
  BY <1>1, <1>2, Here, HereReading DEF Shape
<1>4. SameMods
  <2>1. CASE P1Skip
    BY <1>1, <2>1, ModsUnchanged DEF P1Skip
  <2>2. CASE P1Advance
    <3>1. file2' = [file2 EXCEPT ![cur] = Moved(file2[cur])]
      BY <2>2 DEF P1Advance
    <3>2. Keeps(Moved(file2[cur]), file2[cur])
      BY <1>3, MovedKeeps
    <3>3. QED
      BY <1>1, <3>1, <3>2, ModsExcept
  <2>3. CASE P1Org
    <3>1. file2' = [file2 EXCEPT ![cur] = SetPos(save_seg_size(file2[cur]), cmd.seg, cmd.ofs)]
      BY <2>3 DEF P1Org, SetPos
    <3>2. Keeps(SetPos(save_seg_size(file2[cur]), cmd.seg, cmd.ofs), file2[cur])
      BY <1>3, OrgKeeps
    <3>3. QED
      BY <1>1, <3>1, <3>2, ModsExcept
  <2>4. QED
    BY <2>1, <2>2, <2>3
<1>5. QED
  BY <1>2, <1>3, <1>4, EarlyRead

LEMMA EarlyValues ==
  ASSUME LInv, Values1, startup \/ main \/ Pass1
  PROVE  Values1'
<1>1. CASE startup \/ main
  <2>1. pc = "startup" /\ UNCHANGED <<in, file2, name, errflag>>
    BY <1>1 DEF startup, main
  <2>2. QED
    BY <2>1, EarlyIdle
<1>2. CASE File1Object
  <2>1. CASE file1[i].file \in DOMAIN in.obj
    <3>1. /\ pc = "file1" /\ dopass1(file1[i].file, NONE) /\ UNCHANGED <<in, name, errflag>>
      BY <1>2, <2>1 DEF File1Object
    <3>2. QED
      BY <2>1, <3>1, EarlyLoad
  <2>2. CASE file1[i].file \notin DOMAIN in.obj
    <3>1. pc' = "exit1"
      BY <1>2, <2>2 DEF File1Object, Exit1
    <3>2. QED
      BY <3>1 DEF Values1, Early
  <2>3. QED
    BY <2>1, <2>2
<1>3. CASE File1Library \/ ScanSkip \/ ScanAgain \/ ScanDone
  <2>1. pc \in {"file1", "scan"} /\ UNCHANGED <<in, file2, name, errflag>>
    BY <1>3 DEF File1Library, ScanSkip, ScanAgain, ScanDone
  <2>2. QED
    BY <2>1, EarlyIdle
<1>4. CASE ScanLoad
  <2>1. /\ pc = "scan" /\ Wanted /\ Offered # NONE /\ dopass1(Offered, file1[i].lib)
        /\ UNCHANGED <<in, name, errflag>>
    BY <1>4 DEF ScanLoad
  <2>2. file1[i].lib \in DOMAIN in.lib
    BY <2>1 DEF LInv, Scanning
  <2>3. Offered \in in.lib[file1[i].lib]
    BY <2>1 DEF Offered, lbnlib
  <2>4. Offered \in DOMAIN in.obj
    BY <2>2, <2>3, InputAssumption DEF LInv, Shape, InputOK
  <2>5. QED
    BY <2>1, <2>4, EarlyLoad
<1>5. CASE P1MissingEnd \/ P1Unknown
  <2>1. pc' = "exit1"
    BY <1>5 DEF P1MissingEnd, P1Unknown, Exit1
  <2>2. QED
    BY <2>1 DEF Values1, Early
<1>6. QED
  BY <1>1, <1>2, <1>3, <1>4, <1>5, EarlyMoves, EarlySymbol, EarlyDefine, EarlyEnd DEF Pass1

\* Until then nothing is written.
LEMMA EarlyOut ==
  ASSUME startup \/ main \/ Pass1
  PROVE  Early /\ out' = out /\ pc' \in {"startup", "file1", "scan", "pass1", "exit1", "toomany"}
<1>1. CASE startup \/ main
  BY <1>1 DEF startup, main, Early, pass2vars
<1>2. CASE File1Object \/ File1Library \/ ScanLoad
  BY <1>2 DEF File1Object, File1Library, ScanLoad, dopass1, Exit1, Early, pass2vars
<1>3. CASE ScanSkip \/ ScanAgain \/ ScanDone
  BY <1>3 DEF ScanSkip, ScanAgain, ScanDone, Early, pass2vars
<1>4. CASE P1MissingEnd \/ P1Unknown \/ P1End
  BY <1>4 DEF P1MissingEnd, P1Unknown, P1End, Exit1, Reading, Early, pass2vars
<1>5. CASE P1Skip \/ P1Advance \/ P1Symbol \/ P1Define \/ P1Org
  BY <1>5 DEF P1Skip, P1Advance, P1Symbol, P1Define, P1Org, Reading, Early, pass2vars
<1>6. QED
  BY <1>1, <1>2, <1>3, <1>4, <1>5 DEF Pass1

LEMMA EarlyMInv ==
  ASSUME LInv, MInv, startup \/ main \/ Pass1
  PROVE  MInv'
<1>1. Early /\ out' = out /\ pc' \in {"startup", "file1", "scan", "pass1", "exit1", "toomany"}
  BY EarlyOut
<1>2. Values1'
  BY EarlyValues DEF MInv
<1>3. ~ Laid' /\ ~ Late' /\ pc' \notin {"undef", "prefix", "pass2"}
  BY <1>1 DEF Laid, Late
<1>4. Jump'
  BY <1>1, <1>3 DEF MInv, Jump
<1>5. QED
  BY <1>2, <1>3, <1>4 DEF MInv, Values2, Stacked, Writes

-----------------------------------------------------------------------------
(* Placing the segments, and the jump                                      *)

LEMMA ValueUpdate ==
  ASSUME NEW e, Symbol(e), NEW y
  PROVE  SetValue(e, y).value = y
<1> DEFINE a == e.type
           z == e.module
<1>1. PICK x : e = [type |-> a, module |-> z, value |-> x]
  BY DEF Symbol
<1> HIDE DEF a, z
<1>2. SetValue(e, y) = [type |-> a, module |-> z, value |-> y]
  BY <1>1 DEF SetValue
<1>3. QED
  BY <1>2

LEMMA RelocMInv ==
  ASSUME LInv, MInv, doreloc
  PROVE  MInv'
<1>1. pc = "file1" /\ pc' = "undef" /\ out' = out /\ in' = in /\ errflag' = errflag
  BY DEF doreloc, LastObject, pass2vars
<1>2. SameMods /\ Shape
  BY doreloc_Quiet DEF LInv, Quiet
<1>3. DOMAIN file2' = DOMAIN file2 /\ \A m \in DOMAIN file2 : Obj(m)' = Obj(m)
  BY <1>1, <1>2, SameModules
<1>4. Values2'
  <2> SUFFICES ASSUME ~ errflag, NEW m \in DOMAIN file2, NEW k \in DOMAIN Obj(m), Obj(m)[k].op = "def"
               PROVE  LET c == Obj(m)[k] IN
                      name'[c.sym].value = Add(c.ofs, file2'[m].base[c.seg])
    BY <1>1, <1>3 DEF Values2
  <2> DEFINE c == Obj(m)[k]
             s == c.sym
  <2>1. s \in Named /\ c.seg \in Seg
    BY <1>2, SymNamed
  <2>2. Seen(m, k)
    BY <1>1 DEF Seen, Partial
  <2>3. name[s].type = c.seg /\ name[s].value = c.ofs
    BY <1>1, <2>2 DEF MInv, Values1, Early
  <2>4. name[s].module = m
    BY <2>2 DEF LInv, Known
  <2> DEFINE u(x) == Add(name[x].value, file2'[name[x].module].base[name[x].type])
  <2>5. name' = [x \in Named |-> IF x \in Absolute THEN SetValue(name[x], AbsoluteValue(x))
                                 ELSE IF name[x].type \in Seg THEN SetValue(name[x], u(x))
                                 ELSE name[x]]
    BY DEF doreloc, SetValue
  <2>6. s \notin Absolute /\ name[s].type \in Seg
    <3>1. "ABS" \notin Seg
      BY DEF Seg
    <3>2. QED
      BY <2>1, <2>3, <3>1 DEF LInv, Kinds
  <2>7. u(s) = Add(c.ofs, file2'[m].base[c.seg])
    BY <2>3, <2>4
  <2> HIDE DEF c, u
  <2>8. name'[s] = SetValue(name[s], u(s))
    BY <2>1, <2>5, <2>6
  <2>9. Symbol(name[s])
    BY <1>2, <2>1 DEF Shape
  <2> HIDE DEF s
  <2>10. name'[s].value = u(s)
    BY <2>8, <2>9, ValueUpdate
  <2>11. QED
    BY <2>7, <2>10 DEF c, s
<1>5. Jump'
  BY <1>1 DEF MInv, Jump, Early, Late
<1>6. ~ Early' /\ ~ Late' /\ pc' # "pass2"
  BY <1>1 DEF Early, Late
<1>7. QED
  BY <1>4, <1>5, <1>6 DEF MInv, Values1, Stacked, Writes

\* Once placed, definitions stay.
LEMMA ValuesStay ==
  ASSUME Shape, Values2, Laid, in' = in, name' = name, SameMods, errflag => errflag',
         \A m \in DOMAIN file2 : file2'[m].base = file2[m].base
  PROVE  Values2'
<1>1. DOMAIN file2' = DOMAIN file2 /\ \A m \in DOMAIN file2 : Obj(m)' = Obj(m)
  BY SameModules
<1> SUFFICES ASSUME ~ errflag', NEW m \in DOMAIN file2, NEW k \in DOMAIN Obj(m), Obj(m)[k].op = "def"
             PROVE  LET c == Obj(m)[k] IN
                    name[c.sym].value = Add(c.ofs, file2[m].base[c.seg])
  BY <1>1 DEF Values2
<1>2. ~ errflag
  OBVIOUS
<1>3. QED
  BY <1>2 DEF Values2

LEMMA HeldNew ==
  ASSUME NEW t, Row(t), Write(t), out \in Nat, NEW n \in 1..Len(t)
  PROVE  Held(image', out + n - 1, t[n])
<1> DEFINE R == out..(out + Len(t) - 1)
           a == out + n - 1
<1>1. image' = [x \in DOMAIN image \cup R |-> IF x \in R THEN t[x - out + 1] ELSE image[x]]
  BY DEF Write
<1>2. Len(t) \in Nat
  BY RowLen
<1>3. a \in R /\ a - out + 1 = n
  BY <1>2
<1> HIDE DEF R, a
<1>4. a \in DOMAIN image' /\ image'[a] = t[a - out + 1]
  BY <1>1, <1>3
<1>5. QED
  BY <1>3, <1>4 DEF Held, a

LEMMA HeldStill ==
  ASSUME NEW t, Row(t), Write(t), NEW a, NEW v, Held(image, a, v), a \notin out..(out + Len(t) - 1)
  PROVE  Held(image', a, v)
<1> DEFINE R == out..(out + Len(t) - 1)
<1>1. image' = [x \in DOMAIN image \cup R |-> IF x \in R THEN t[x - out + 1] ELSE image[x]]
  BY DEF Write
<1> HIDE DEF R
<1>2. a \notin R /\ a \in DOMAIN image /\ image[a] = v
  BY DEF Held, R
<1>3. a \in DOMAIN image' /\ image'[a] = image[a]
  BY <1>1, <1>2
<1>4. QED
  BY <1>2, <1>3 DEF Held

LEMMA FourCells ==
  ASSUME NEW w, NEW x, NEW y, NEW z
  PROVE  LET t == <<w>> \o <<x, y>> \o <<z>> IN
         Row(t) /\ Len(t) = 4 /\ t[2] = x /\ t[3] = y
<1> DEFINE S == {w, x, y, z}
           a == <<w>>
           b == <<x, y>>
           c == <<z>>
           p == a \o b
           t == p \o c
<1>1. a \in Seq(S) /\ b \in Seq(S) /\ c \in Seq(S) /\ Len(a) = 1 /\ Len(b) = 2 /\ Len(c) = 1
      /\ b[1] = x /\ b[2] = y
  OBVIOUS
<1> HIDE DEF a, b, c, S
<1>2. p \in Seq(S) /\ Len(p) = 3 /\ p[2] = x /\ p[3] = y
  <2>1. /\ p \in Seq(S) /\ Len(p) = Len(a) + Len(b)
        /\ \A k \in 1..(Len(a) + Len(b)) : p[k] = IF k <= Len(a) THEN a[k] ELSE b[k - Len(a)]
    BY <1>1, ConcatProperties
  <2> HIDE DEF p
  <2>2. QED
    BY <1>1, <2>1
<1> HIDE DEF p
<1>3. t \in Seq(S) /\ Len(t) = 4 /\ t[2] = x /\ t[3] = y
  <2>1. /\ t \in Seq(S) /\ Len(t) = Len(p) + Len(c)
        /\ \A k \in 1..(Len(p) + Len(c)) : t[k] = IF k <= Len(p) THEN p[k] ELSE c[k - Len(p)]
    BY <1>1, <1>2, ConcatProperties
  <2> HIDE DEF t
  <2>2. QED
    BY <1>1, <1>2, <2>1
<1> HIDE DEF t
<1>4. t = [k \in 1..4 |-> t[k]]
  BY <1>3
<1>5. Row(t)
  BY <1>4, RowMade
<1>6. QED
  BY <1>3, <1>5 DEF t, p, a, b, c

LEMMA PrefixMInv ==
  ASSUME LInv, WInv, MInv, TestUndef \/ Prefix
  PROVE  MInv'
<1>0. errflag => errflag'
  BY Zenon DEF TestUndef, Prefix
<1>1. /\ UNCHANGED <<in, file2, name>> /\ (errflag => errflag') /\ Laid /\ Shape
      /\ pc \in {"undef", "prefix"} /\ pc' \in {"prefix", "file2"}
  BY <1>0 DEF TestUndef, Prefix, Laid, LInv
<1>2. Values2'
  BY <1>1, ModsUnchanged, ValuesStay DEF MInv
<1>3. CASE TestUndef
  <2>1. out' = out /\ pc = "undef" /\ pc' = "prefix"
    BY <1>3 DEF TestUndef, pass2vars
  <2>2. QED
    BY <1>2, <2>1 DEF MInv, Values1, Jump, Stacked, Writes, Early, Late
<1>4. CASE Prefix
  <2> DEFINE v == name["___START"].value
             t == <<<<"JMP", 1>>>> \o Bytes(v) \o <<Byte(0)>>
  <2>1. Write(t) /\ pc = "prefix" /\ pc' = "file2" /\ i' = 1
    BY <1>4 DEF Prefix
  <2>2. out = 0
    BY <2>1 DEF MInv, Jump
  <2>3. PICK u : u = t
    OBVIOUS
  <2>4. Row(u) /\ Len(u) = 4 /\ u[2] = Byte(Hi(v)) /\ u[3] = Byte(Lo(v))
    BY <2>3, FourCells DEF Bytes
  <2>5. Write(u)
    BY <2>1, <2>3
  <2> HIDE DEF t, v
  <2>6. Row(u)
    BY <2>4
  <2>7. 2 \in 1..Len(u) /\ 3 \in 1..Len(u) /\ 0 \in Nat
    BY <2>4
  <2>8. Held(image', out + 2 - 1, u[2]) /\ Held(image', out + 3 - 1, u[3])
    BY <2>2, <2>5, <2>6, <2>7, HeldNew
  <2>9. out + 2 - 1 = 1 /\ out + 3 - 1 = 2
    BY <2>2
  <2>10. Held(image', 1, Byte(Hi(v))) /\ Held(image', 2, Byte(Lo(v)))
    BY <2>4, <2>8, <2>9
  <2>11. Jump'
    BY <1>1, <2>1, <2>10 DEF Jump, Early, v
  <2>12. Writes'
    <3>1. DOMAIN file2 = 1..Len(file2)
      BY <1>1, RowLen DEF Shape
    <3>2. \A m \in DOMAIN file2 : \A k : ~ Done(m, k)'
      BY <2>1, <3>1 DEF Done
    <3>3. QED
      BY <1>1, <3>2 DEF Writes
  <2>13. QED
    BY <1>2, <2>1, <2>11, <2>12 DEF MInv, Values1, Stacked, Early
<1>5. QED
  BY <1>3, <1>4

-----------------------------------------------------------------------------
(* Pass 2 and the image                                                    *)

Store == {"data", "popb", "popw"}

LEMMA WrittenPlain ==
  ASSUME NEW b, NEW k, NEW base, NEW nm, NEW err, NEW img, b[k].op \notin Store
  PROVE  Written(b, k, base, nm, err, img)
  BY DEF Written, Store

\* What was written stays written when its own bytes are not touched.
LEMMA WrittenKept ==
  ASSUME NEW b, NEW k, NEW base, NEW nm, NEW err, NEW img, NEW err2, NEW img2,
         Written(b, k, base, nm, err, img), err => err2, ObjectOK(b), k \in DOMAIN b,
         base[SegAt(b, k)] + OfsAt(b, k) \in Nat,
         b[k].op \in Store =>
           LET a == base[SegAt(b, k)] + OfsAt(b, k) IN
           \A x \in a..(a + Size(b[k]) - 1) : \A v : Held(img, x, v) => Held(img2, x, v)
  PROVE  Written(b, k, base, nm, err2, img2)
<1>0. PICK a : a = base[SegAt(b, k)] + OfsAt(b, k)
  OBVIOUS
<1>1. CASE b[k].op \notin Store
  BY <1>1, WrittenPlain
<1>2. CASE b[k].op = "data"
  <2>1. Row(b[k].bytes) /\ Size(b[k]) = Len(b[k].bytes)
    BY <1>2 DEF ObjectOK, Row, Size
  <2>2. /\ DOMAIN b[k].bytes = 1..Len(b[k].bytes) /\ Len(b[k].bytes) \in Nat
    BY <2>1, RowLen
  <2>3. \A x \in a..(a + Len(b[k].bytes) - 1) : \A v : Held(img, x, v) => Held(img2, x, v)
    BY <1>0, <1>2, <2>1 DEF Store
  <2>4. \A n \in DOMAIN b[k].bytes : a + n - 1 \in a..(a + Len(b[k].bytes) - 1)
    BY <1>0, <2>2
  <2>5. \A n \in DOMAIN b[k].bytes : Held(img, a + n - 1, b[k].bytes[n])
    BY <1>0, <1>2 DEF Written
  <2>6. \A n \in DOMAIN b[k].bytes : Held(img2, a + n - 1, b[k].bytes[n])
    BY <2>3, <2>4, <2>5
  <2>7. SegAt(b, k) # "UDEF"
    BY <1>2 DEF Written
  <2>8. QED
    BY <1>0, <1>2, <2>6, <2>7 DEF Written
<1>3. CASE b[k].op = "popw"
  <2>1. Size(b[k]) = 2
    BY <1>3 DEF Size, BPW
  <2>2. a \in a..(a + Size(b[k]) - 1) /\ a + 1 \in a..(a + Size(b[k]) - 1)
    BY <1>0, <2>1
  <2>3. \A v : (Held(img, a, v) => Held(img2, a, v)) /\ (Held(img, a + 1, v) => Held(img2, a + 1, v))
    BY <1>0, <1>3, <2>2 DEF Store
  <2>4. QED
    BY <1>0, <1>3, <2>3 DEF Written
<1>4. CASE b[k].op = "popb"
  <2>1. Size(b[k]) = 1
    BY <1>4 DEF Size
  <2>2. a \in a..(a + Size(b[k]) - 1)
    BY <1>0, <2>1
  <2>3. \A v : Held(img, a, v) => Held(img2, a, v)
    BY <1>0, <1>4, <2>2 DEF Store
  <2>4. QED
    BY <1>0, <1>4, <2>3 DEF Written
<1>5. QED
  BY <1>1, <1>2, <1>3, <1>4 DEF Store

\* A command lies inside its segment.
LEMMA Room ==
  ASSUME NEW b, ObjectOK(b), NEW fp, Sized(fp), Measured(b, fp.len), NEW k \in 1..Len(b),
         b[k].op \notin {"org", "end"}
  PROVE  LET s == SegAt(b, k) IN
         /\ s \in Seg /\ OfsAt(b, k) \in Nat /\ fp.base[s] \in Nat /\ fp.len[s] \in Nat
         /\ Size(b[k]) \in Nat /\ OfsAt(b, k) + Size(b[k]) <= fp.len[s]
<1>0. PICK s : s = SegAt(b, k)
  OBVIOUS
<1>1. Len(b) \in Nat /\ Size(b[k]) \in Nat /\ k \in DOMAIN b
  BY ObjectRow, SizeNat
<1>2. /\ SegAt(b, k + 1) = s /\ OfsAt(b, k + 1) = OfsAt(b, k) + Size(b[k])
      /\ OfsAt(b, k) \in Nat /\ s \in Seg
  BY <1>0, <1>1, WalkFields
<1>3. k + 1 \in 1..Len(b)
  <2>1. k # Len(b)
    BY DEF Measured
  <2>2. QED
    BY <1>1, <2>1
<1>4. OfsAt(b, k + 1) <= fp.len[SegAt(b, k + 1)]
  BY <1>3 DEF Measured
<1>5. fp.base[s] \in Nat /\ fp.len[s] \in Nat
  BY <1>2, WordFacts DEF Sized
<1>6. QED
  BY <1>0, <1>1, <1>2, <1>4, <1>5

Place(m, k) == file2[m].base[SegAt(Obj(m), k)] + OfsAt(Obj(m), k)

LEMMA Regions ==
  ASSUME NEW p \in Nat, NEW o \in Nat, NEW z \in Nat, NEW l \in Nat, o + z <= l,
         NEW q \in Nat, NEW u \in Nat, NEW y \in Nat, NEW h \in Nat, u + y <= h,
         p + l <= q \/ q + h <= p
  PROVE  (p + o) + z <= q + u \/ (q + u) + y <= p + o
  OBVIOUS

\* No command stores where another one has stored.
LEMMA OwnPlace ==
  ASSUME LInv, WInv, Apart, Laid, AllStoreOnce,
         NEW m \in DOMAIN file2, NEW k \in DOMAIN Obj(m), Obj(m)[k].op \in Store,
         NEW n \in DOMAIN file2, NEW l \in DOMAIN Obj(n), Obj(n)[l].op \in Store \cup {"dsb"},
         SegAt(Obj(m), k) # "UDEF", SegAt(Obj(n), l) # "UDEF", m # n \/ k < l
  PROVE  /\ Place(m, k) \in Nat /\ Place(n, l) \in Nat
         /\ Size(Obj(m)[k]) \in Nat /\ Size(Obj(n)[l]) \in Nat
         /\ \/ Place(m, k) + Size(Obj(m)[k]) <= Place(n, l)
            \/ Place(n, l) + Size(Obj(n)[l]) <= Place(m, k)
<1>1. PICK b, c, fp, gp : b = Obj(m) /\ c = Obj(n) /\ fp = file2[m] /\ gp = file2[n]
  OBVIOUS
<1>2. ObjectOK(b) /\ ObjectOK(c) /\ Sized(fp) /\ Sized(gp)
  BY <1>1, ObjOK DEF LInv, WInv, Sizes
<1>3. Measured(b, fp.len) /\ Measured(c, gp.len)
  BY <1>1 DEF WInv, Measures, Laid, Partial
<1>4. k \in 1..Len(b) /\ l \in 1..Len(c)
  BY <1>1, <1>2, ObjectRow
<1>5. b[k].op \notin {"org", "end"} /\ c[l].op \notin {"org", "end"}
  BY <1>1 DEF Store
<1>6. PICK s, t : s = SegAt(b, k) /\ t = SegAt(c, l)
  OBVIOUS
<1>7. /\ s \in Seg /\ OfsAt(b, k) \in Nat /\ fp.base[s] \in Nat /\ fp.len[s] \in Nat
      /\ Size(b[k]) \in Nat /\ OfsAt(b, k) + Size(b[k]) <= fp.len[s]
  BY <1>2, <1>3, <1>4, <1>5, <1>6, Room
<1>8. /\ t \in Seg /\ OfsAt(c, l) \in Nat /\ gp.base[t] \in Nat /\ gp.len[t] \in Nat
      /\ Size(c[l]) \in Nat /\ OfsAt(c, l) + Size(c[l]) <= gp.len[t]
  BY <1>2, <1>3, <1>4, <1>5, <1>6, Room
<1>9. s \in Seg \ {"UDEF"} /\ t \in Seg \ {"UDEF"}
  BY <1>1, <1>6, <1>7, <1>8
<1>10. Place(m, k) = fp.base[s] + OfsAt(b, k) /\ Place(n, l) = gp.base[t] + OfsAt(c, l)
  BY <1>1, <1>6 DEF Place
<1>11. CASE m # n \/ s # t
  <2>1. \/ fp.base[s] + fp.len[s] <= gp.base[t]
        \/ gp.base[t] + gp.len[t] <= fp.base[s]
    BY <1>1, <1>9, <1>11 DEF Apart, Before
  <2>2. \/ (fp.base[s] + OfsAt(b, k)) + Size(b[k]) <= gp.base[t] + OfsAt(c, l)
        \/ (gp.base[t] + OfsAt(c, l)) + Size(c[l]) <= fp.base[s] + OfsAt(b, k)
    BY <1>7, <1>8, <2>1, Regions
  <2>3. QED
    BY <1>1, <1>7, <1>8, <1>10, <2>2
<1>12. CASE m = n /\ s = t
  <2>1. k < l /\ b = c /\ fp = gp
    BY <1>1, <1>12
  <2>2. StoresOnce(b)
    BY <1>1 DEF AllStoreOnce, LInv, Shape, Obj
  <2>3. \/ OfsAt(b, k) + Size(b[k]) <= OfsAt(b, l)
        \/ OfsAt(b, l) + Size(b[l]) <= OfsAt(b, k)
    BY <1>1, <1>6, <1>12, <2>1, <2>2 DEF StoresOnce, Store
  <2>4. QED
    BY <1>1, <1>7, <1>8, <1>10, <1>12, <2>1, <2>3
<1>13. QED
  BY <1>11, <1>12

\* What pass 2 leaves alone.
LEMMA Pass2Common ==
  ASSUME LInv, Pass2
  PROVE  /\ UNCHANGED <<in, name>> /\ (errflag => errflag')
         /\ pc \in {"file2", "pass2"}
         /\ pc' \in {"file2", "pass2", "exit", "exit1", "undefined"}
<1>1. errflag => errflag'
  BY Zenon DEF Pass2, dopass2, Return, P2Data, P2Alu, P2Not, P2Neg, P2Swap, P2Push,
     P2Symbol, P2PopByte, P2PopWord, P2Underflow, P2Skip, P2Define, P2Org, P2End, P2Stack, Push
<1> DEFINE Ok == /\ UNCHANGED <<in, name>>
                 /\ pc \in {"file2", "pass2"}
                 /\ pc' \in {"file2", "pass2", "exit", "exit1", "undefined"}
<1>2. CASE dopass2 \/ Return
  BY <1>1, <1>2 DEF dopass2, Return
<1>3. CASE P2Data \/ P2PopByte \/ P2PopWord
  <2>1. Reading("pass2") /\ Stored /\ UNCHANGED <<in, name>>
    BY <1>3 DEF P2Data, P2PopByte, P2PopWord
  <2>2. QED
    BY <1>1, <2>1 DEF Stored, Exit1, Reading
<1>4. CASE P2Alu \/ P2Not \/ P2Neg \/ P2Swap \/ P2Push \/ P2Symbol \/ P2Define
  <2>1. Reading("pass2") /\ Stay
    BY <1>4, StaySteps
  <2>2. QED
    BY <1>1, <2>1 DEF Stay, Reading
<1>5. CASE P2Skip \/ P2Org \/ P2End \/ P2Underflow
  BY <1>1, <1>5 DEF P2Skip, P2Org, P2End, P2Underflow, Exit1, Reading
<1>6. QED
  BY <1>2, <1>3, <1>4, <1>5 DEF Pass2

\* The frame of a step of pass 2.
Pass2Frame ==
  /\ LInv /\ WInv /\ MInv /\ Apart /\ Laid /\ Late
  /\ UNCHANGED <<in, name>> /\ (errflag => errflag') /\ SameMods
  /\ \A m \in DOMAIN file2 : file2'[m].base = file2[m].base

LEMMA PlaceNat ==
  ASSUME LInv, WInv, NEW m \in DOMAIN file2, NEW k \in DOMAIN Obj(m)
  PROVE  Place(m, k) \in Nat /\ k \in Nat /\ k >= 1
<1>1. PICK b : b = Obj(m)
  OBVIOUS
<1>2. ObjectOK(b) /\ Sized(file2[m])
  BY <1>1, ObjOK DEF LInv, WInv, Sizes
<1>3. k \in 1..Len(b) /\ Len(b) \in Nat
  BY <1>1, <1>2, ObjectRow
<1>4. k \in 1..(Len(b) + 1)
  BY <1>3
<1>5. SegAt(b, k) \in Seg /\ OfsAt(b, k) \in Nat
  BY <1>2, <1>4, WalkFields
<1>6. file2[m].base[SegAt(b, k)] \in Nat
  BY <1>2, <1>5 DEF Sized
<1>7. QED
  BY <1>1, <1>3, <1>5, <1>6 DEF Place

\* Untouched(m, k): the bytes of a command that has been carried out stay.
Untouched(m, k) ==
  Obj(m)[k].op \in Store =>
    \A x \in Place(m, k)..(Place(m, k) + Size(Obj(m)[k]) - 1) : \A v :
      Held(image, x, v) => Held(image', x, v)

LEMMA WritesStep ==
  ASSUME Pass2Frame,
         \A m \in DOMAIN file2 : \A k \in DOMAIN Obj(m) : Done(m, k)' =>
           \/ Done(m, k) /\ Untouched(m, k)
           \/ Written(Obj(m), k, file2[m].base, name, errflag', image')
  PROVE  Writes'
<1>1. DOMAIN file2' = DOMAIN file2 /\ \A m \in DOMAIN file2 : Obj(m)' = Obj(m)
  BY SameModules DEF Pass2Frame, LInv
<1> SUFFICES ASSUME NEW m \in DOMAIN file2, NEW k \in DOMAIN Obj(m), Done(m, k)'
             PROVE  Written(Obj(m), k, file2[m].base, name, errflag', image')
  BY <1>1 DEF Writes, Pass2Frame
<1>2. CASE Done(m, k) /\ Untouched(m, k)
  <2>1. PICK b, base, err, img, err2, img2 :
          /\ b = Obj(m) /\ base = file2[m].base /\ err = errflag /\ img = image
          /\ err2 = errflag' /\ img2 = image'
    OBVIOUS
  <2>2. Written(b, k, base, name, err, img)
    BY <1>2, <2>1 DEF Pass2Frame, MInv, Writes
  <2>3. ObjectOK(b) /\ k \in DOMAIN b
    BY <2>1, ObjOK DEF Pass2Frame, LInv
  <2>4. base[SegAt(b, k)] + OfsAt(b, k) = Place(m, k)
    BY <2>1 DEF Place
  <2>5. Place(m, k) \in Nat
    BY PlaceNat DEF Pass2Frame
  <2>6. b[k].op \in Store =>
          LET a == base[SegAt(b, k)] + OfsAt(b, k) IN
          \A x \in a..(a + Size(b[k]) - 1) : \A v : Held(img, x, v) => Held(img2, x, v)
    BY <1>2, <2>1, <2>4 DEF Untouched
  <2>7. err => err2
    BY <2>1 DEF Pass2Frame
  <2>8. Written(b, k, base, name, err2, img2)
    BY <2>2, <2>3, <2>4, <2>5, <2>6, <2>7, WrittenKept
  <2>9. QED
    BY <2>1, <2>8
<1>3. QED
  BY <1>2

\* Steps that do not write.
LEMMA WritesQuiet ==
  ASSUME Pass2Frame, image' = image,
         \A m \in DOMAIN file2 : \A k \in DOMAIN Obj(m) :
           Done(m, k)' => Done(m, k) \/ Obj(m)[k].op \notin Store
  PROVE  Writes'
<1>1. \A m, k : Untouched(m, k)
  BY DEF Untouched
<1>2. QED
  BY <1>1, WritesStep, WrittenPlain

\* One more command of pass 2.
LEMMA DoneNext ==
  ASSUME pc = "pass2", pc' = "pass2", i' = i, ip' = ip + 1, ip \in Nat,
         NEW m, NEW k \in Nat, Done(m, k)'
  PROVE  Done(m, k) \/ (m = i /\ k = ip)
  BY DEF Done

\* Everything in pass 2 but the writing.
LEMMA Pass2Rest ==
  ASSUME Pass2Frame, Jump', pc' \in {"file2", "pass2", "exit"}, Stacked', Writes'
  PROVE  MInv'
<1>1. Values2'
  BY ValuesStay DEF Pass2Frame, MInv, LInv
<1>2. ~ Early'
  BY DEF Early
<1>3. QED
  BY <1>1, <1>2 DEF MInv, Values1

LEMMA JumpQuiet ==
  ASSUME Pass2Frame, image' = image, pc' \in {"file2", "pass2", "exit"}
  PROVE  Jump'
  BY DEF Pass2Frame, MInv, Jump, Early, Late

LEMMA StopMInv ==
  ASSUME pc' \in {"exit1", "undefined"}
  PROVE  MInv'
  BY DEF MInv, Values1, Values2, Jump, Stacked, Writes, Early, Late, Laid

\* dopass2() begins, or all modules have been read.
LEMMA BeginMInv ==
  ASSUME Pass2Frame, dopass2 \/ Return
  PROVE  MInv'
<1>1. image' = image /\ pc = "file2" /\ i' = i
  BY DEF dopass2, Return, loops, pass2vars
<1>2. CASE dopass2
  <2>1. pc' = "pass2" /\ ip' = 1 /\ stack' = <<>>
    BY <1>2 DEF dopass2
  <2>2. Stacked'
    <3>1. Row(<<>>)
      <4>1. <<>> = [k \in 1..0 |-> <<>>[k]]
        OBVIOUS
      <4>2. QED
        BY <4>1, RowMade
    <3>2. QED
      BY <2>1, <3>1 DEF Stacked
  <2>3. \A m \in DOMAIN file2 : \A k \in DOMAIN Obj(m) : Done(m, k)' => Done(m, k)
    <3>1. \A m \in DOMAIN file2 : \A k \in DOMAIN Obj(m) : k \in Nat /\ k >= 1
      BY PlaceNat DEF Pass2Frame
    <3>2. QED
      BY <1>1, <2>1, <3>1 DEF Done
  <2>4. QED
    BY <1>1, <2>1, <2>2, <2>3, JumpQuiet, WritesQuiet, Pass2Rest
<1>3. CASE Return
  <2>1. pc' = "exit" /\ i > Len(file2)
    BY <1>3 DEF Return
  <2>2. Stacked'
    BY <2>1 DEF Stacked
  <2>3. \A m \in DOMAIN file2 : \A k \in DOMAIN Obj(m) : Done(m, k)
    <3>1. DOMAIN file2 = 1..Len(file2) /\ Len(file2) \in Nat /\ i \in Nat
      BY RowLen DEF Pass2Frame, LInv, Shape
    <3>2. QED
      BY <2>1, <3>1 DEF Done
  <2>4. QED
    BY <1>1, <2>1, <2>2, <2>3, JumpQuiet, WritesQuiet, Pass2Rest
<1>4. QED
  BY <1>2, <1>3

\* REL_END: the whole module has been carried out.
LEMMA EndMInv ==
  ASSUME Pass2Frame, P2End
  PROVE  MInv'
<1>1. CASE pc' = "exit1"
  BY <1>1, StopMInv
<1>2. CASE pc' # "exit1"
  <2>1. /\ image' = image /\ pc' = "file2" /\ i' = i + 1 /\ Reading("pass2") /\ cmd.op = "end"
    BY <1>2 DEF P2End, pass2vars, Exit1
  <2>2. Stacked'
    BY <2>1 DEF Stacked
  <2>3. PICK b : b = Obj(i)
    OBVIOUS
  <2>4. /\ i \in DOMAIN file2 /\ ObjectOK(b) /\ Len(b) \in Nat /\ ip \in 1..Len(b)
        /\ DOMAIN b = 1..Len(b) /\ cmd = b[ip] /\ pc = "pass2" /\ i \in Nat
    BY <2>1, <2>3, Here2 DEF Pass2Frame
  <2>5. ip = Len(b)
    BY <2>1, <2>4 DEF ObjectOK
  <2>6. DOMAIN file2 = 1..Len(file2) /\ Len(file2) \in Nat
    BY RowLen DEF Pass2Frame, LInv, Shape
  <2>7. ASSUME NEW m \in DOMAIN file2, NEW k \in DOMAIN Obj(m), Done(m, k)'
        PROVE  Done(m, k) \/ Obj(m)[k].op \notin Store
    <3>1. m < i \/ m = i
      BY <2>1, <2>4, <2>6, <2>7 DEF Done
    <3>2. CASE m < i
      BY <3>2 DEF Done
    <3>3. CASE m = i
      <4>1. k \in 1..ip
        BY <2>3, <2>4, <2>5, <3>3
      <4>2. CASE k < ip
        BY <2>4, <3>3, <4>2 DEF Done
      <4>3. CASE k = ip
        BY <2>1, <2>3, <2>4, <3>3, <4>3 DEF Store
      <4>4. QED
        BY <2>4, <4>1, <4>2, <4>3
    <3>4. QED
      BY <3>1, <3>2, <3>3
  <2>8. QED
    BY <2>1, <2>2, <2>7, JumpQuiet, WritesQuiet, Pass2Rest
<1>3. QED
  BY <1>1, <1>2

LEMMA RowSeq ==
  ASSUME NEW S, NEW s \in Seq(S)
  PROVE  Row(s)
<1>1. Len(s) \in Nat /\ s = [k \in 1..Len(s) |-> s[k]]
  OBVIOUS
<1>2. QED
  BY <1>1, RowMade

LEMMA RowPopped ==
  ASSUME Row(stack), NEW n \in Nat
  PROVE  Row(Popped(n))
<1> DEFINE T == {stack[k] : k \in DOMAIN stack}
<1>1. Len(stack) \in Nat /\ DOMAIN stack = 1..Len(stack)
  BY RowLen
<1>2. PICK l : l = Len(stack) - n
  OBVIOUS
<1>3. \A k \in 1..l : stack[k] \in T
  BY <1>1, <1>2
<1>4. l \in Int /\ 1 \in Int
  BY <1>1, <1>2
<1> HIDE DEF T
<1>5. SubSeq(stack, 1, l) \in Seq(T)
  BY ONLY <1>3, <1>4, SubSeqProperties
<1>6. QED
  BY <1>2, <1>5, RowSeq DEF Popped

LEMMA RowTwo ==
  ASSUME NEW s, Row(s), NEW x, NEW y
  PROVE  Row(s \o <<x, y>>)
<1> DEFINE U == {s[k] : k \in DOMAIN s}
           T == U \cup {x, y}
           t == <<x, y>>
<1>1. s \in Seq(U)
  BY DEF Row
<1>2. t \in Seq(T)
  OBVIOUS
<1>3. s \in Seq(T)
  <2>1. U \subseteq T
    OBVIOUS
  <2> HIDE DEF U, T
  <2>2. QED
    BY <1>1, <2>1
<1> HIDE DEF T, U, t
<1>4. s \o t \in Seq(T)
  BY ONLY <1>2, <1>3, ConcatProperties
<1>5. QED
  BY <1>4, RowSeq DEF t

\* The stack in a step that goes to the next command of the same module.
StackGoes ==
  /\ Row(stack')
  /\ cmd.op = "sym" => Len(stack') > 0 /\ stack'[Len(stack')] = name[cmd.sym].value

LEMMA StackedNext ==
  ASSUME Pass2Frame, Reading("pass2"), i' = i, ip' = ip + 1, StackGoes
  PROVE  Stacked'
<1>1. i \in DOMAIN file2 /\ cmd = Obj(i)[ip] /\ ip \in Nat
  BY Here2 DEF Pass2Frame, LInv, Shape
<1>2. Obj(i)' = Obj(i)
  BY <1>1, SameModules DEF Pass2Frame, LInv
<1>3. ip' - 1 = ip
  BY <1>1
<1>4. name' = name
  BY DEF Pass2Frame
<1>5. QED
  BY <1>1, <1>2, <1>3, <1>4 DEF Stacked, StackGoes, Top

LEMMA StaySteady ==
  ASSUME Pass2Frame, P2Alu \/ P2Not \/ P2Neg \/ P2Swap \/ P2Push \/ P2Symbol \/ P2Define
  PROVE  StackGoes
<1>1. Row(stack)
  <2>1. pc = "pass2"
    BY StaySteps DEF Reading
  <2>2. QED
    BY <2>1 DEF Pass2Frame, MInv, Stacked
<1>2. Row(Popped(1)) /\ Row(Popped(2))
  BY <1>1, RowPopped
<1>3. CASE P2Alu \/ P2Not \/ P2Neg
  <2>1. cmd.op # "sym" /\ \E e : stack' = Append(Popped(1), e) \/ stack' = Append(Popped(2), e)
    BY <1>3 DEF P2Alu, P2Not, P2Neg, P2Stack
  <2>2. PICK e : stack' = Append(Popped(1), e) \/ stack' = Append(Popped(2), e)
    BY <2>1
  <2>3. PICK p, q : p = Popped(1) /\ q = Popped(2)
    OBVIOUS
  <2>4. Row(Append(p, e)) /\ Row(Append(q, e))
    BY <1>2, <2>3, RowAppend
  <2>5. QED
    BY <2>1, <2>2, <2>3, <2>4 DEF StackGoes
<1>4. CASE P2Swap
  <2>1. cmd.op # "sym" /\ stack' = Popped(2) \o <<Top, Below>>
    BY <1>4 DEF P2Swap, P2Stack
  <2>2. QED
    BY <1>2, <2>1, RowTwo DEF StackGoes
<1>5. CASE P2Push
  <2>1. cmd.op # "sym" /\ \E e : stack' = Append(stack, e)
    BY <1>5 DEF P2Push, Push
  <2>2. QED
    BY <1>1, <2>1, RowAppend DEF StackGoes
<1>6. CASE P2Symbol
  <2>1. PICK e : e = name[cmd.sym].value
    OBVIOUS
  <2>2. stack' = Append(stack, e)
    BY <1>6, <2>1 DEF P2Symbol, Push
  <2>3. Len(stack) \in Nat
    BY <1>1, RowLen
  <2>4. Row(stack') /\ Len(stack') = Len(stack) + 1 /\ stack'[Len(stack) + 1] = e
    BY <1>1, <2>2, RowAppend
  <2>5. QED
    BY <2>1, <2>3, <2>4 DEF StackGoes
<1>7. CASE P2Define
  BY <1>1, <1>7 DEF P2Define, pass2vars, StackGoes
<1>8. QED
  BY <1>3, <1>4, <1>5, <1>6, <1>7

\* Commands that write nothing.
LEMMA QuietMInv ==
  ASSUME Pass2Frame, Reading("pass2"), i' = i, ip' = ip + 1, pc' = pc, image' = image,
         cmd.op \notin Store, StackGoes
  PROVE  MInv'
<1>1. pc = "pass2" /\ ip \in Nat /\ cmd = Obj(i)[ip]
  BY Here2 DEF Pass2Frame, LInv, Shape
<1>2. \A m \in DOMAIN file2 : \A k \in DOMAIN Obj(m) :
        Done(m, k)' => Done(m, k) \/ Obj(m)[k].op \notin Store
  <2>1. \A m \in DOMAIN file2 : \A k \in DOMAIN Obj(m) : k \in Nat
    BY PlaceNat DEF Pass2Frame
  <2>2. QED
    BY <1>1, <2>1, DoneNext
<1>3. Writes' /\ Jump' /\ Stacked'
  BY <1>1, <1>2, WritesQuiet, JumpQuiet, StackedNext
<1>4. QED
  BY <1>1, <1>3, Pass2Rest

LEMMA StayMInv ==
  ASSUME Pass2Frame,
         P2Alu \/ P2Not \/ P2Neg \/ P2Swap \/ P2Push \/ P2Symbol \/ P2Define \/ P2Org
  PROVE  MInv'
<1>1. CASE P2Org
  <2>1. /\ Reading("pass2") /\ i' = i /\ ip' = ip + 1 /\ pc' = pc /\ image' = image
        /\ cmd.op = "org" /\ stack' = stack
    BY <1>1 DEF P2Org, loops
  <2>2. Row(stack)
    BY <2>1 DEF Pass2Frame, MInv, Stacked, Reading
  <2>3. cmd.op \notin Store /\ StackGoes
    BY <2>1, <2>2 DEF Store, StackGoes
  <2>4. QED
    BY <2>1, <2>3, QuietMInv
<1>2. CASE ~ P2Org
  <2>1. Reading("pass2") /\ Stay /\ StackGoes
    BY <1>2, StaySteps, StaySteady
  <2>2. QED
    BY <2>1, QuietMInv DEF Stay, Store
<1>3. QED
  BY <1>1, <1>2

-----------------------------------------------------------------------------
(* Commands that write                                                     *)

LEMMA HerePlace ==
  ASSUME Pass2Frame, Reading("pass2"), curseg # "UDEF"
  PROVE  /\ out \in Nat /\ out = Place(i, ip) /\ curseg = SegAt(Obj(i), ip) /\ curseg \in Seg
         /\ out >= PREFIX
<1>1. PICK b, fp : b = Obj(i) /\ fp = file2[i]
  OBVIOUS
<1>2. /\ i \in DOMAIN file2 /\ ObjectOK(b) /\ Sized(fp) /\ Len(b) \in Nat /\ ip \in 1..Len(b)
      /\ Follows(b, ip, curseg, fp, out) /\ curseg \in Seg
  BY <1>1, Here2 DEF Pass2Frame
<1>3. curseg = SegAt(b, ip) /\ out = fp.base[curseg] + OfsAt(b, ip)
  BY <1>2 DEF Follows
<1>4. OfsAt(b, ip) \in Nat /\ fp.base[curseg] \in Nat
  BY <1>2, WalkFields DEF Sized
<1>5. fp.base[curseg] >= PREFIX
  BY <1>1, <1>2 DEF Pass2Frame, Apart
<1>6. out \in Nat /\ out >= PREFIX
  BY <1>3, <1>4, <1>5 DEF PREFIX
<1>7. QED
  BY <1>1, <1>2, <1>3, <1>6 DEF Place

LEMMA ShortRows ==
  ASSUME NEW x, NEW y
  PROVE  /\ Row(<<x>>) /\ Len(<<x>>) = 1 /\ <<x>>[1] = x
         /\ Row(<<x, y>>) /\ Len(<<x, y>>) = 2 /\ <<x, y>>[1] = x /\ <<x, y>>[2] = y
<1>1. <<x>> \in Seq({x}) /\ <<x, y>> \in Seq({x, y})
  OBVIOUS
<1>2. Row(<<x>>) /\ Row(<<x, y>>)
  BY <1>1, RowSeq
<1>3. QED
  BY <1>2

\* What a command writes: Size of it.
LEMMA WhatIsWritten ==
  ASSUME Pass2Frame, ObjectsFit, P2Data \/ P2PopByte \/ P2PopWord \/ P2Skip, curseg # "UDEF"
  PROVE  image' = image \/ \E t : Row(t) /\ Len(t) = Size(cmd) /\ Write(t)
<1>1. Reading("pass2")
  BY DEF P2Data, P2PopByte, P2PopWord, P2Skip
<1>2. ObjectOK(Obj(i)) /\ cmd = Obj(i)[ip] /\ ip \in DOMAIN Obj(i)
  BY <1>1, Here2 DEF Pass2Frame
<1>3. CASE P2Data
  <2>1. Write(cmd.bytes) /\ cmd.op = "data" /\ Size(cmd) = Len(cmd.bytes)
    BY <1>3 DEF P2Data, Size
  <2>2. Row(cmd.bytes)
    BY <1>2, <2>1, DataRow
  <2>3. QED
    BY <2>1, <2>2
<1>4. CASE P2PopByte
  <2>1. Write(<<Byte(Lo(Top))>>) /\ Size(cmd) = 1
    BY <1>4 DEF P2PopByte, Size
  <2>2. QED
    BY <2>1, ShortRows
<1>5. CASE P2PopWord
  <2>1. Write(<<Byte(Hi(Top)), Byte(Lo(Top))>>) /\ Size(cmd) = 2
    BY <1>5 DEF P2PopWord, Size, BPW, Bytes
  <2>2. QED
    BY <2>1, ShortRows
<1>6. CASE P2Skip
  <2> DEFINE t == [b \in 1..cmd.n |-> Byte(0)]
  <2>1. cmd.op = "dsb" /\ (Write(t) \/ image' = image)
    BY <1>6 DEF P2Skip
  <2>2. cmd.n \in Nat /\ Size(cmd) = cmd.n
    BY <1>2, <2>1, WordFacts DEF ObjectOK, Size
  <2>3. t = [k \in 1..cmd.n |-> t[k]]
    OBVIOUS
  <2> HIDE DEF t
  <2>4. Row(t) /\ Len(t) = cmd.n
    BY <2>2, <2>3, RowMade
  <2>5. QED
    BY <2>1, <2>2, <2>4
<1>7. QED
  BY <1>3, <1>4, <1>5, <1>6

\* The rest of the image stays.
LEMMA KeptElsewhere ==
  ASSUME Pass2Frame, ObjectsFit, P2Data \/ P2PopByte \/ P2PopWord \/ P2Skip, curseg # "UDEF",
         NEW x, NEW v, Held(image, x, v), x \notin out..(out + Size(cmd) - 1)
  PROVE  Held(image', x, v)
<1>1. CASE image' = image
  BY <1>1
<1>2. CASE \E t : Row(t) /\ Len(t) = Size(cmd) /\ Write(t)
  <2>1. PICK t : Row(t) /\ Len(t) = Size(cmd) /\ Write(t)
    BY <1>2
  <2>2. x \notin out..(out + Len(t) - 1)
    BY <2>1
  <2>3. QED
    BY <2>1, <2>2, HeldStill
<1>3. QED
  BY <1>1, <1>2, WhatIsWritten

\* The command itself is carried out.
LEMMA StoreWritten ==
  ASSUME Pass2Frame, P2Data \/ P2PopByte \/ P2PopWord, curseg # "UDEF"
  PROVE  Written(Obj(i), ip, file2[i].base, name, errflag', image')
<1>1. Reading("pass2")
  BY DEF P2Data, P2PopByte, P2PopWord
<1>2. PICK b, base, a : b = Obj(i) /\ base = file2[i].base /\ a = base[SegAt(b, ip)] + OfsAt(b, ip)
  OBVIOUS
<1>3. /\ ObjectOK(b) /\ cmd = b[ip] /\ ip \in DOMAIN b /\ pc = "pass2"
  BY <1>1, <1>2, Here2 DEF Pass2Frame
<1>4. out \in Nat /\ out = a /\ SegAt(b, ip) # "UDEF"
  BY <1>1, <1>2, HerePlace DEF Place
<1>5. ip > 1 /\ b[ip - 1].op = "sym" => Top = name[b[ip - 1].sym].value
  BY <1>2, <1>3 DEF Pass2Frame, MInv, Stacked
<1>6. CASE P2Data
  <2>0. Write(b[ip].bytes) /\ b[ip].op = "data"
    BY <1>3, <1>6 DEF P2Data
  <2>1. Row(b[ip].bytes) /\ Write(b[ip].bytes) /\ b[ip].op = "data"
    BY <1>3, <2>0, DataRow
  <2>2. PICK t : t = b[ip].bytes
    OBVIOUS
  <2>3. Row(t) /\ Write(t) /\ DOMAIN t = 1..Len(t)
    BY <2>1, <2>2, RowLen
  <2>4. \A n \in DOMAIN t : Held(image', a + n - 1, t[n])
    BY <1>4, <2>3, HeldNew
  <2>5. Written(b, ip, base, name, errflag', image')
    BY <1>2, <1>4, <2>1, <2>2, <2>4 DEF Written
  <2>6. QED
    BY <1>2, <2>5
<1>7. CASE P2PopByte
  <2>1. PICK v, t : v = Top /\ t = <<Byte(Lo(v))>>
    OBVIOUS
  <2>2. Write(t) /\ b[ip].op = "popb"
    BY <1>3, <1>7, <2>1 DEF P2PopByte
  <2>3. Row(t) /\ Len(t) = 1 /\ t[1] = Byte(Lo(v))
    BY <2>1, ShortRows
  <2>4. Held(image', out + 1 - 1, t[1])
    <3>1. 1 \in 1..Len(t)
      BY <2>3
    <3>2. QED
      BY <1>4, <2>2, <2>3, <3>1, HeldNew
  <2>5. Held(image', a, Byte(Lo(v)))
    <3>1. out + 1 - 1 = a
      BY <1>4
    <3>2. QED
      BY <2>3, <2>4, <3>1
  <2>6. errflag' \/ FitsByte(v)
    BY <1>7, <2>1, Zenon DEF P2PopByte
  <2>7. Written(b, ip, base, name, errflag', image')
    BY <1>2, <1>4, <1>5, <2>1, <2>2, <2>5, <2>6 DEF Written
  <2>8. QED
    BY <1>2, <2>7
<1>8. CASE P2PopWord
  <2>1. PICK v, t : v = Top /\ t = <<Byte(Hi(v)), Byte(Lo(v))>>
    OBVIOUS
  <2>2. Write(t) /\ b[ip].op = "popw"
    BY <1>3, <1>8, <2>1 DEF P2PopWord, Bytes
  <2>3. Row(t) /\ Len(t) = 2 /\ t[1] = Byte(Hi(v)) /\ t[2] = Byte(Lo(v))
    BY <2>1, ShortRows
  <2>4. Held(image', out + 1 - 1, t[1]) /\ Held(image', out + 2 - 1, t[2])
    <3>1. 1 \in 1..Len(t) /\ 2 \in 1..Len(t)
      BY <2>3
    <3>2. QED
      BY <1>4, <2>2, <2>3, <3>1, HeldNew
  <2>5. Held(image', a, Byte(Hi(v))) /\ Held(image', a + 1, Byte(Lo(v)))
    <3>1. out + 1 - 1 = a /\ out + 2 - 1 = a + 1
      BY <1>4
    <3>2. QED
      BY <2>3, <2>4, <3>1
  <2>6. Written(b, ip, base, name, errflag', image')
    BY <1>2, <1>4, <1>5, <2>1, <2>2, <2>5 DEF Written
  <2>7. QED
    BY <1>2, <2>6
<1>9. QED
  BY <1>6, <1>7, <1>8

LEMMA StoreMInv ==
  ASSUME Pass2Frame, ObjectsFit, AllStoreOnce, P2Data \/ P2PopByte \/ P2PopWord \/ P2Skip
  PROVE  MInv'
<1>1. Reading("pass2") /\ (Move \/ Stops)
  BY StoreSteps DEF Pass2Frame
<1>2. CASE Stops
  BY <1>2, StopMInv DEF Stops
<1>3. ASSUME Move
      PROVE  MInv'
  <2>1. /\ pc = "pass2" /\ i' = i /\ ip' = ip + 1 /\ pc' = pc /\ ip \in Nat
        /\ cmd.op \in Store \cup {"dsb"}
    BY <1>1, <1>3 DEF Move, Reading, Store, Pass2Frame, LInv, Shape
  <2>2. i \in DOMAIN file2 /\ cmd = Obj(i)[ip] /\ ip \in DOMAIN Obj(i)
    BY <1>1, Here2 DEF Pass2Frame
  <2>3. StackGoes
    <3>1. Row(stack)
      BY <2>1 DEF Pass2Frame, MInv, Stacked
    <3>2. stack' = stack \/ stack' = Popped(1)
      BY DEF P2Data, P2PopByte, P2PopWord, P2Skip
    <3>3. QED
      BY <2>1, <3>1, <3>2, RowPopped DEF StackGoes, Store
  <2>4. CASE curseg = "UDEF"
    <3>1. P2Skip
      BY <2>1, <2>4 DEF P2Data, P2PopByte, P2PopWord, Stored, Exit1
    <3>2. image' = image /\ cmd.op = "dsb"
      BY <2>4, <3>1 DEF P2Skip
    <3>3. QED
      BY <1>1, <2>1, <2>3, <3>2, QuietMInv DEF Store
  <2>5. CASE curseg # "UDEF"
    <3>1. /\ out \in Nat /\ out = Place(i, ip) /\ curseg = SegAt(Obj(i), ip) /\ out >= PREFIX
      BY <1>1, <2>5, HerePlace
    <3>2. Size(cmd) \in Nat
      BY <1>1, Here2 DEF Pass2Frame
    <3>3. Jump'
      <4>1. 1 \notin out..(out + Size(cmd) - 1) /\ 2 \notin out..(out + Size(cmd) - 1)
        BY <3>1, <3>2 DEF PREFIX
      <4>2. PICK v : v = name["___START"].value
        OBVIOUS
      <4>3. Held(image, 1, Byte(Hi(v))) /\ Held(image, 2, Byte(Lo(v)))
        BY <4>2 DEF Pass2Frame, MInv, Jump
      <4>4. Held(image', 1, Byte(Hi(v))) /\ Held(image', 2, Byte(Lo(v)))
        BY <2>5, <4>1, <4>3, KeptElsewhere
      <4>5. name' = name
        BY DEF Pass2Frame
      <4>6. QED
        BY <2>1, <4>2, <4>4, <4>5 DEF Jump, Early
    <3>4. ASSUME NEW m \in DOMAIN file2, NEW k \in DOMAIN Obj(m), Done(m, k)'
          PROVE  \/ Done(m, k) /\ Untouched(m, k)
                 \/ Written(Obj(m), k, file2[m].base, name, errflag', image')
      <4>1. k \in Nat
        BY PlaceNat DEF Pass2Frame
      <4>2. Done(m, k) \/ (m = i /\ k = ip)
        BY <2>1, <3>4, <4>1, DoneNext
      <4>3. CASE m = i /\ k = ip
        <5>1. CASE P2Skip
          <6>1. Obj(m)[k].op \notin Store
            BY <2>2, <4>3, <5>1 DEF P2Skip, Store
          <6>2. QED
            BY <6>1, WrittenPlain
        <5>2. CASE ~ P2Skip
          BY <2>5, <4>3, <5>2, StoreWritten
        <5>3. QED
          BY <5>1, <5>2
      <4>4. CASE Done(m, k)
        <5>0. m \in Nat /\ i \in Nat
          BY RowLen DEF Pass2Frame, LInv, Shape
        <5>1. m # i \/ k < ip
          BY <2>1, <4>4, <5>0 DEF Done
        <5>2. SUFFICES ASSUME Obj(m)[k].op \in Store,
                              NEW x \in Place(m, k)..(Place(m, k) + Size(Obj(m)[k]) - 1),
                              NEW v, Held(image, x, v)
                       PROVE  Held(image', x, v)
          BY <4>4 DEF Untouched
        <5>3. SegAt(Obj(m), k) # "UDEF"
          <6>1. Written(Obj(m), k, file2[m].base, name, errflag, image)
            BY <4>4 DEF Pass2Frame, MInv, Writes
          <6>2. QED
            BY <5>2, <6>1 DEF Written, Store
        <5>4. PICK p, z, y : p = Place(m, k) /\ z = Size(Obj(m)[k]) /\ y = Size(cmd)
          OBVIOUS
        <5>5. p \in Nat /\ z \in Nat /\ y \in Nat /\ (p + z <= out \/ out + y <= p)
          <6>1. Obj(i)[ip].op \in Store \cup {"dsb"} /\ SegAt(Obj(i), ip) # "UDEF"
            BY <2>1, <2>2, <2>5, <3>1
          <6>2. /\ Place(m, k) \in Nat /\ Place(i, ip) \in Nat
                /\ Size(Obj(m)[k]) \in Nat /\ Size(Obj(i)[ip]) \in Nat
                /\ \/ Place(m, k) + Size(Obj(m)[k]) <= Place(i, ip)
                   \/ Place(i, ip) + Size(Obj(i)[ip]) <= Place(m, k)
            BY <2>2, <5>1, <5>2, <5>3, <6>1, OwnPlace DEF Pass2Frame
          <6>3. QED
            BY <2>2, <3>1, <5>4, <6>2
        <5>6. x \in p..(p + z - 1)
          BY <5>2, <5>4
        <5>7. x \notin out..(out + y - 1)
          BY <3>1, <5>5, <5>6
        <5>8. x \notin out..(out + Size(cmd) - 1)
          BY <5>4, <5>7
        <5>9. QED
          BY <2>5, <5>2, <5>8, KeptElsewhere
      <4>5. QED
        BY <4>2, <4>3, <4>4
    <3>5. Writes'
      BY <3>4, WritesStep
    <3>6. Stacked'
      BY <1>1, <2>1, <2>3, StackedNext
    <3>7. QED
      BY <2>1, <3>3, <3>5, <3>6, Pass2Rest
  <2>6. QED
    BY <2>4, <2>5
<1>4. QED
  BY <1>1, <1>2, <1>3

LEMMA InitMInv ==
  ASSUME Init
  PROVE  MInv
<1>1. pc = "startup" /\ file2 = <<>> /\ out = 0
  BY DEF Init, initialize
<1>2. DOMAIN file2 = {}
  BY <1>1
<1>3. QED
  BY <1>1, <1>2 DEF MInv, Values1, Values2, Jump, Stacked, Writes, Early, Late, Laid

LEMMA MInvStep ==
  ASSUME LInv, WInv, Apart, MInv, ObjectsFit, AllStoreOnce, ImageFits, [Next]_vars
  PROVE  MInv'
<1>1. CASE startup \/ main \/ Pass1
  BY <1>1, EarlyMInv
<1>2. CASE doreloc
  BY <1>2, RelocMInv
<1>3. CASE TestUndef \/ Prefix
  BY <1>3, PrefixMInv
<1>4. CASE Pass2
  <2>1. /\ SameMods /\ Laid /\ \A m \in DOMAIN file2 : file2'[m].base = file2[m].base
    BY <1>4, Pass2Sizes
  <2>2. UNCHANGED <<in, name>> /\ (errflag => errflag') /\ pc \in {"file2", "pass2"}
    BY <1>4, Pass2Common
  <2>3. Pass2Frame
    BY <2>1, <2>2 DEF Pass2Frame, Late
  <2>4. P2Underflow => MInv'
    BY StopMInv DEF P2Underflow
  <2>5. QED
    BY <1>4, <2>3, <2>4, BeginMInv, StayMInv, StoreMInv, EndMInv DEF Pass2
<1>5. CASE UNCHANGED vars
  <2>1. UNCHANGED <<in, pc, i, file2, name, errflag, ip, stack, out, image>>
    BY <1>5 DEF vars, loops, pass2vars
  <2>2. Values1' /\ Values2' /\ Jump'
    BY <2>1 DEF MInv, Values1, Values2, Jump, Early, Late, Laid, Obj, Seen, Partial
  <2>3. Stacked'
    BY <2>1 DEF MInv, Stacked, Obj, Top
  <2>4. Writes'
    BY <2>1 DEF MInv, Writes, Late, Obj, Done
  <2>5. QED
    BY <2>2, <2>3, <2>4 DEF MInv
<1>6. QED
  BY <1>1, <1>2, <1>3, <1>4, <1>5 DEF Next

\* A symbol's value is the address where its definer was placed.
LEMMA AddressIsValue ==
  ASSUME LInv, WInv, MInv, pc = "exit", ~ errflag, NEW s
  PROVE  AddressOf(s) = name[s].value
<1>1. CASE Definers(s) = {}
  BY <1>1 DEF AddressOf
<1>2. CASE Definers(s) # {}
  <2>1. PICK m : m = CHOOSE x \in Definers(s) : TRUE
    OBVIOUS
  <2>2. m \in Definers(s)
    BY <1>2, <2>1
  <2>3. PICK b : b = Obj(m)
    OBVIOUS
  <2>4. m \in DOMAIN file2 /\ Defines(b, s) /\ b = in.obj[file2[m].file]
    BY <2>2, <2>3 DEF Definers, Obj
  <2>5. PICK k : k = CHOOSE l \in DOMAIN b : b[l].op = "def" /\ b[l].sym = s
    OBVIOUS
  <2>6. k \in DOMAIN b /\ b[k].op = "def" /\ b[k].sym = s
    BY <2>4, <2>5 DEF Defines
  <2>7. PICK d : d = b[k]
    OBVIOUS
  <2>8. name[s].value = Add(d.ofs, file2[m].base[d.seg])
    BY <2>3, <2>4, <2>6, <2>7 DEF MInv, Values2, Laid
  <2>9. d.ofs \in Nat /\ file2[m].base[d.seg] \in Nat
    <3>1. d.seg \in Seg /\ d.ofs \in Word
      BY <2>3, <2>4, <2>6, <2>7, SymNamed DEF LInv
    <3>2. QED
      BY <2>4, <3>1, WordFacts DEF WInv, Sizes, Sized
  <2>10. Add(d.ofs, file2[m].base[d.seg]) = Add(file2[m].base[d.seg], d.ofs)
    <3>1. PICK x, y : x = d.ofs /\ y = file2[m].base[d.seg]
      OBVIOUS
    <3>2. x + y = y + x
      BY <2>9, <3>1
    <3>3. QED
      BY <3>1, <3>2 DEF Add
  <2>11. AddressOf(s) = Add(file2[m].base[d.seg], d.ofs)
    BY <1>2, <2>1, <2>4, <2>5, <2>7 DEF AddressOf
  <2>12. QED
    BY <2>8, <2>10, <2>11
<1>3. QED
  BY <1>1, <1>2

LEMMA FaithfulAtExit ==
  ASSUME LInv, WInv, MInv
  PROVE  ImageFaithful
<1> SUFFICES ASSUME pc = "exit", ~ errflag
             PROVE  ImageFaithful
  BY DEF ImageFaithful
<1>1. \A s : AddressOf(s) = name[s].value
  BY AddressIsValue
<1>2. ASSUME NEW m \in DOMAIN file2, NEW k \in DOMAIN Obj(m)
      PROVE  LET b == Obj(m)
                 a == file2[m].base[SegAt(b, k)] + OfsAt(b, k)
             IN  /\ b[k].op = "data" =>
                      \A n \in DOMAIN b[k].bytes : image[a + n - 1] = b[k].bytes[n]
                 /\ k > 1 /\ b[k].op = "popw" /\ b[k - 1].op = "sym" =>
                      <<image[a], image[a + 1]>> = Bytes(AddressOf(b[k - 1].sym))
                 /\ k > 1 /\ b[k].op = "popb" /\ b[k - 1].op = "sym" =>
                      /\ FitsByte(AddressOf(b[k - 1].sym))
                      /\ image[a] = Byte(Lo(AddressOf(b[k - 1].sym)))
  <2>1. PICK b, base, a : /\ b = Obj(m) /\ base = file2[m].base
                          /\ a = base[SegAt(b, k)] + OfsAt(b, k)
    OBVIOUS
  <2>2. Written(b, k, base, name, errflag, image)
    BY <2>1 DEF MInv, Writes, Late, Done
  <2>3. b[k].op = "data" => \A n \in DOMAIN b[k].bytes : image[a + n - 1] = b[k].bytes[n]
    BY <2>1, <2>2 DEF Written, Held
  <2>4. k > 1 /\ b[k].op = "popw" /\ b[k - 1].op = "sym" =>
          <<image[a], image[a + 1]>> = Bytes(AddressOf(b[k - 1].sym))
    BY <1>1, <2>1, <2>2 DEF Written, Held, Bytes
  <2>5. k > 1 /\ b[k].op = "popb" /\ b[k - 1].op = "sym" =>
          /\ FitsByte(AddressOf(b[k - 1].sym))
          /\ image[a] = Byte(Lo(AddressOf(b[k - 1].sym)))
    BY <1>1, <2>1, <2>2 DEF Written, Held
  <2>6. QED
    BY <2>1, <2>3, <2>4, <2>5
<1>3. <<image[1], image[2]>> = Bytes(AddressOf("___START"))
  BY <1>1 DEF MInv, Jump, Late, Held, Bytes
<1>4. QED
  BY <1>2, <1>3 DEF ImageFaithful, Obj

\* process(): the image of a link without errors is the objects' bytes, each
\* at its segment's place, with every reference that is a plain symbol filled
\* in as the address of its one definition.  It holds for every input whose
\* objects fit in words, fill no place twice and give an image that fits.
THEOREM ImageIsFaithful ==
  ASSUME ObjectsFit, AllStoreOnce
  PROVE  Spec /\ []ImageFits => []ImageFaithful
<1>1. Init => MInv
  BY InitMInv
<1>2. MInv /\ (LInv /\ WInv /\ Apart) /\ ImageFits /\ [Next]_vars => MInv'
  BY MInvStep
<1>3. (LInv /\ WInv /\ Apart) /\ MInv => ImageFaithful
  BY FaithfulAtExit
<1>4. QED
  BY <1>1, <1>2, <1>3, PlacesInvariant, PTL DEF Spec
=============================================================================
