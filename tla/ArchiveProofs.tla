--------------------------- MODULE ArchiveProofs ---------------------------
(* Proofs about xar: through every sequence of commands and crashes, a      *)
(* library leads to whole objects, and changes as Library says.            *)
EXTENDS Archive, SequenceTheorems, WellFoundedInduction, TLAPS

\* The running sum of n lengths w, from a.
Sums(n, a, w, g) ==
  /\ g \in [0..n -> Int] /\ g[0] = a
  /\ \A k \in 1..n : g[k] = g[k - 1] + w[k]

Distinct(ob, n) == \A k, l \in 1..n : ob[k].mod = ob[l].mod => k = l

\* No library that can be made of the objects at hand, tables included, is as
\* long as half a word can count: offsets are read back with a sign
\* (read_word_olb).
FitsInWords ==
  \A n \in 0..FILEMAX : \A ob \in [1..n -> Objects] : \A g :
    Distinct(ob, n) /\ Sums(n, DataStart(n), [k \in 1..n |-> ob[k].len], g) => g[n] < HALF

\* A sequence of anything.
Row(s) == s \in Seq({s[k] : k \in DOMAIN s})

\* The tables name n different modules, and lead from each symbol to the one
\* that defines it.
Indexed(names, ob, n) ==
  /\ ob \in [1..n -> Objects]
  /\ \A k, l \in 1..n : ob[k].mod = ob[l].mod => k = l
  /\ \A s \in Symbols : /\ names[s] \in 0..n
                        /\ \A k \in 1..n : names[s] = k <=> s \in DefinedBy(ob[k])

\* The objects themselves.
Objs(ob, n) == {ob[k] : k \in 1..n}

\* A table entry for object o, between the tables and the end of words.
Entry(e, o, data) ==
  /\ e.name = o.mod /\ e.length = o.len
  /\ e.offset \in Nat /\ data <= e.offset /\ e.offset + o.len < HALF

\* Library l holds the objects ob.
Laid(l, ob) ==
  LET n == Len(l.files)
      data == DataStart(n)
  IN  /\ Row(l.files) /\ n <= FILEMAX /\ Row(l.cells)
      /\ Indexed(l.names, ob, n)
      /\ \A k \in 1..n :
           /\ Entry(l.files[k], ob[k], data)
           /\ l.files[k].offset + ob[k].len <= data + Len(l.cells)
           /\ \A x \in 1..ob[k].len :
                l.cells[l.files[k].offset - data + x] = Body(ob[k])[x]
Good(l) == \E ob : Laid(l, ob)

\* What one command may make of the contents S.
StepTo(S, T) ==
  \/ T = {}
  \/ \E o \in Objects :
       \/ /\ L!Single(o)
          /\ \A p \in S : p.mod # o.mod => DefinedBy(p) \cap DefinedBy(o) = {}
          /\ T = {p \in S : p.mod # o.mod} \cup {o}
       \/ T = {p \in S : p.mod # o.mod}

\* The new library is planned in memory: where each module will be and where
\* it comes from.
End(k) == mem.files[k].offset + mem.files[k].length
MemShape == mem = [names |-> mem.names, files |-> mem.files, obj |-> mem.obj, next |-> mem.next]
Plan(ob) ==
  LET n == Len(mem.files) IN
  /\ MemShape
  /\ Row(mem.files) /\ n <= FILEMAX
  /\ Indexed(mem.names, ob, n)
  /\ \A k \in 1..n :
       /\ Entry(mem.files[k], ob[k], DataStart(n))
       /\ mem.files[k].offset = IF k = 1 THEN DataStart(n) ELSE End(k - 1)
       /\ IF mem.files[k].oldofs = 0 THEN mem.obj = {ob[k]}
          ELSE /\ Current # <<>> /\ mem.files[k].oldofs \in Nat
               /\ ReadAt(Current[1], mem.files[k].oldofs, ob[k].len) = Body(ob[k])
  /\ StepTo(Contents, Objs(ob, n))

\* Of the planned library, the tables and the modules before the next one are
\* in the temporary file.
FileShape(t) == t = [names |-> t.names, files |-> t.files, cells |-> t.cells]
Copied(ob) ==
  LET n == Len(mem.files)
      t == tmp[1]
  IN  /\ tmp # <<>> /\ FileShape(t) /\ t.names = mem.names
      /\ Row(t.files) /\ Len(t.files) = n /\ Row(t.cells)
      /\ \A k \in 1..n : /\ t.files[k].name = mem.files[k].name
                         /\ t.files[k].length = mem.files[k].length
                         /\ t.files[k].offset = mem.files[k].offset
      /\ mem.next \in 1..(n + 1)
      /\ DataStart(n) + Len(t.cells) = IF mem.next = 1 THEN DataStart(n) ELSE End(mem.next - 1)
      /\ \A k \in 1..(mem.next - 1) :
           /\ End(k) <= DataStart(n) + Len(t.cells)
           /\ \A x \in 1..ob[k].len :
                t.cells[mem.files[k].offset - DataStart(n) + x] = Body(ob[k])[x]

Building ==
  /\ pc # "idle" =>
       \E ob : /\ Plan(ob)
               /\ pc = "build" => mem.next = 1
               /\ pc # "build" => Copied(ob)
               /\ pc \in {"keep", "install"} => mem.next = Len(mem.files) + 1
  /\ pc \in {"build", "copy"} => olb # <<>> \/ bak = <<>>
  /\ pc = "keep" => bak = <<>>
  /\ pc = "install" => olb = <<>>

AInv ==
  /\ pc \in {"idle", "build", "copy", "keep", "install"}
  /\ olb # <<>> => Good(olb[1])
  /\ bak # <<>> => Good(bak[1])
  /\ Building
  /\ ExtractFaithful

-----------------------------------------------------------------------------
(* Sequences of anything, minima and the running sum of do_add             *)

LEMMA RowLen ==
  ASSUME NEW s, Row(s)
  PROVE  Len(s) \in Nat /\ DOMAIN s = 1..Len(s)
<1> DEFINE T == {s[k] : k \in DOMAIN s}
<1>1. s \in Seq(T)
  BY DEF Row
<1> HIDE DEF T
<1>2. QED
  BY <1>1

LEMMA RowMade ==
  ASSUME NEW n \in Nat, NEW s, s = [k \in 1..n |-> s[k]]
  PROVE  Row(s) /\ Len(s) = n
<1> DEFINE T == {s[k] : k \in DOMAIN s}
<1>1. DOMAIN s = 1..n
  OBVIOUS
<1>2. \A k \in 1..n : s[k] \in T
  BY <1>1
<1> HIDE DEF T
<1>3. s \in [1..n -> T]
  BY <1>2
<1>4. s \in Seq(T)
  BY <1>3, IsASeq
<1>5. Len(s) = n
  BY <1>1, <1>4, LenProperties
<1>6. QED
  BY <1>4, <1>5 DEF Row, T

LEMMA RowEqual ==
  ASSUME NEW s, Row(s), NEW t, Row(t), Len(s) = Len(t),
         \A k \in 1..Len(s) : s[k] = t[k]
  PROVE  s = t
<1> DEFINE S == {s[k] : k \in DOMAIN s}
           T == {t[k] : k \in DOMAIN t}
<1>1. s \in Seq(S) /\ t \in Seq(T)
  BY DEF Row
<1> HIDE DEF S, T
<1>2. QED
  BY <1>1, SeqEqual

LEMMA MinPair ==
  ASSUME NEW a \in Int, NEW b \in Int
  PROVE  Min({a, b}) = IF a <= b THEN a ELSE b
<1> DEFINE m == IF a <= b THEN a ELSE b
<1>1. m \in {a, b} /\ \A y \in {a, b} : m <= y
  OBVIOUS
<1>2. \A x \in {a, b} : (\A y \in {a, b} : x <= y) => x = m
  OBVIOUS
<1> HIDE DEF m
<1>3. Min({a, b}) = m
  BY <1>1, <1>2 DEF Min
<1>4. QED
  BY <1>3 DEF m

LEMMA MaxPair ==
  ASSUME NEW a \in Int, NEW b \in Int
  PROVE  Max({a, b}) = IF a >= b THEN a ELSE b
<1> DEFINE m == IF a >= b THEN a ELSE b
<1>1. m \in {a, b} /\ \A y \in {a, b} : m >= y
  OBVIOUS
<1>2. \A x \in {a, b} : (\A y \in {a, b} : x >= y) => x = m
  OBVIOUS
<1> HIDE DEF m
<1>3. Max({a, b}) = m
  BY <1>1, <1>2 DEF Max
<1>4. QED
  BY <1>3 DEF m

LEMMA Times ==
  ASSUME NEW n \in Nat, NEW m \in Nat, n <= m, NEW c \in Nat
  PROVE  n * c \in Nat /\ n * c <= m * c
OBVIOUS

\* Every set of naturals has a least element: induction without an operator.
LEMMA LeastNat ==
  ASSUME NEW T \in SUBSET Nat, T # {}
  PROVE  \E n \in T : \A m \in T : n <= m
<1> DEFINE R == OpToRel(<, Nat)
<1>1. IsWellFoundedOn(R, Nat)
  BY NatLessThanWellFounded
<1>2. \A a, b \in Nat : a < b => <<a, b>> \in R
  BY DEF OpToRel
<1> HIDE DEF R
<1>3. PICK n \in T : \A m \in T : ~ (<<m, n>> \in R)
  BY <1>1, WFMin
<1>4. \A m \in T : n <= m
  <2> SUFFICES ASSUME NEW m \in T PROVE n <= m
    OBVIOUS
  <2>1. m \in Nat /\ n \in Nat
    OBVIOUS
  <2>2. ~ (m < n)
    BY <1>2, <1>3, <2>1
  <2>3. QED
    BY <2>1, <2>2
<1>5. QED
  BY <1>4

\* The running sum exists, so that the recursive definition of Olblen means
\* what it says.
LEMMA RunningSum ==
  ASSUME NEW n \in Nat, NEW a \in Int, NEW w, \A k \in 1..n : w[k] \in Int
  PROVE  \E g : Sums(n, a, w, g)
<1> DEFINE Is(m) == \E g : Sums(m, a, w, g)
           B == {m \in 0..n : ~ Is(m)}
<1>1. Is(0)
  <2> DEFINE g == [k \in 0..0 |-> a]
  <2>1. g \in [0..0 -> Int] /\ g[0] = a /\ 1..0 = {}
    OBVIOUS
  <2> HIDE DEF g
  <2>2. Sums(0, a, w, g)
    BY <2>1 DEF Sums
  <2>3. QED
    BY <2>2
<1>2. ASSUME NEW m \in Nat, m + 1 <= n, Is(m)
      PROVE  Is(m + 1)
  <2>1. PICK g \in [0..m -> Int] : g[0] = a /\ \A k \in 1..m : g[k] = g[k - 1] + w[k]
    BY <1>2 DEF Sums
  <2> DEFINE h == [k \in 0..(m + 1) |-> IF k <= m THEN g[k] ELSE g[m] + w[m + 1]]
  <2>2. w[m + 1] \in Int
    BY <1>2
  <2>3. h \in [0..(m + 1) -> Int]
    BY <2>1, <2>2
  <2>4. h[0] = a
    BY <2>1
  <2>5. \A k \in 1..(m + 1) : h[k] = h[k - 1] + w[k]
    <3> SUFFICES ASSUME NEW k \in 1..(m + 1) PROVE h[k] = h[k - 1] + w[k]
      OBVIOUS
    <3>1. CASE k <= m
      <4>1. h[k] = g[k] /\ h[k - 1] = g[k - 1] /\ k \in 1..m
        BY <3>1
      <4>2. QED
        BY <2>1, <4>1
    <3>2. CASE ~ (k <= m)
      <4>1. k = m + 1
        BY <3>2
      <4>2. h[k] = g[m] + w[m + 1] /\ h[k - 1] = g[m]
        BY <4>1
      <4>3. QED
        BY <4>1, <4>2
    <3>3. QED
      BY <3>1, <3>2
  <2> HIDE DEF h
  <2>6. Sums(m + 1, a, w, h)
    BY <2>3, <2>4, <2>5 DEF Sums
  <2>7. QED
    BY <2>6
<1> HIDE DEF Is
<1>3. B = {}
  <2> SUFFICES ASSUME B # {} PROVE FALSE
    OBVIOUS
  <2>1. B \in SUBSET Nat
    OBVIOUS
  <2>2. PICK m \in B : \A l \in B : m <= l
    BY <2>1, LeastNat
  <2>3. m \in Nat /\ m <= n /\ ~ Is(m)
    OBVIOUS
  <2>4. m # 0
    BY <1>1, <2>3
  <2>5. m - 1 \in 0..n /\ m - 1 \notin B
    BY <2>2, <2>3, <2>4
  <2>6. Is(m - 1)
    BY <2>5
  <2>7. Is((m - 1) + 1)
    BY <1>2, <2>3, <2>5, <2>6
  <2>8. QED
    BY <2>3, <2>7
<1>4. Is(n)
  BY <1>3
<1>5. QED
  BY <1>4 DEF Is

LEMMA OlblenSum ==
  ASSUME NEW files, Row(files), DataStart(Len(files)) \in Int,
         \A k \in 1..Len(files) : files[k].length \in Int
  PROVE  LET n == Len(files)
             g == Olblen(files)
         IN  g = [k \in 0..n |-> IF k = 0 THEN DataStart(n) ELSE g[k - 1] + files[k].length]
<1> DEFINE n == Len(files)
           d == DataStart(n)
           w == [k \in 1..n |-> files[k].length]
           P(g) == g = [k \in 0..n |-> IF k = 0 THEN d ELSE g[k - 1] + files[k].length]
<1>1. n \in Nat /\ d \in Int /\ \A k \in 1..n : w[k] \in Int
  BY RowLen
<1>2. \E g : P(g)
  <2>1. PICK g : Sums(n, d, w, g)
    <3> HIDE DEF w, n, d
    <3>1. QED
      BY <1>1, RunningSum
  <2>2. \A k \in 0..n : g[k] = IF k = 0 THEN d ELSE g[k - 1] + files[k].length
    BY <1>1, <2>1 DEF Sums
  <2>3. P(g)
    BY <1>1, <2>1, <2>2 DEF Sums
  <2>4. QED
    BY <2>3
<1>3. Olblen(files) = CHOOSE g : P(g)
  BY DEF Olblen
<1>4. P(Olblen(files))
  BY <1>2, <1>3, Zenon
<1>5. QED
  BY <1>4

LEMMA SumGrows ==
  ASSUME NEW n \in Nat, NEW a \in Nat, NEW w, NEW g, Sums(n, a, w, g),
         \A k \in 1..n : w[k] \in Nat
  PROVE  \A k \in 0..n : g[k] \in Nat /\ a <= g[k] /\ g[k] <= g[n]
<1> DEFINE Ok(k) == \A i \in 0..k : g[i] \in Nat /\ a <= g[i] /\ g[i] <= g[k]
           B == {k \in 0..n : ~ Ok(k)}
<1>1. Ok(0)
  BY DEF Sums
<1>2. ASSUME NEW k \in 1..n, Ok(k - 1)
      PROVE  Ok(k)
  <2>1. g[k] = g[k - 1] + w[k] /\ w[k] \in Nat
    BY DEF Sums
  <2>2. g[k - 1] \in Nat /\ a <= g[k - 1]
    BY <1>2
  <2>3. \A i \in 0..k : i = k \/ i \in 0..(k - 1)
    OBVIOUS
  <2>4. QED
    BY <1>2, <2>1, <2>2, <2>3
<1> HIDE DEF Ok
<1>3. B = {}
  <2> SUFFICES ASSUME B # {} PROVE FALSE
    OBVIOUS
  <2>1. B \in SUBSET Nat
    OBVIOUS
  <2>2. PICK m \in B : \A l \in B : m <= l
    BY <2>1, LeastNat
  <2>3. m \in Nat /\ m <= n /\ ~ Ok(m)
    OBVIOUS
  <2>4. m # 0
    BY <1>1, <2>3
  <2>5. m \in 1..n /\ m - 1 \in 0..n /\ m - 1 \notin B
    BY <2>2, <2>3, <2>4
  <2>6. QED
    BY <1>2, <2>3, <2>5
<1>4. Ok(n)
  BY <1>3
<1>5. QED
  BY <1>4 DEF Ok

LEMMA SmallWords ==
  ASSUME NEW v \in Nat, v < HALF
  PROVE  v % WORD = v /\ Signed(v) = v
BY ByteAssumption DEF Signed, SignBit, HALF, WORD

-----------------------------------------------------------------------------
(* The layout of a library                                                 *)

LEMMA DataStartNat ==
  ASSUME NEW n \in Nat
  PROVE  DataStart(n) \in Nat \ {0}
<1>1. n * FENT \in Nat
  BY Times, ArchiveAssumption
<1>2. QED
  BY <1>1, ArchiveAssumption DEF DataStart

\* A record of the file table in memory.
Four(e, f) ==
  \E v : e = [name |-> f.name, length |-> f.length, offset |-> v, oldofs |-> f.oldofs]

SetOffset(e, v) == [e EXCEPT !.offset = v]

LEMMA SetOffsetFields ==
  ASSUME NEW e, Four(e, e), NEW v
  PROVE  /\ SetOffset(e, v).name = e.name /\ SetOffset(e, v).length = e.length
         /\ SetOffset(e, v).offset = v /\ SetOffset(e, v).oldofs = e.oldofs
<1> DEFINE a == e.name
           b == e.length
           c == e.oldofs
<1>1. PICK w : e = [name |-> a, length |-> b, offset |-> w, oldofs |-> c]
  BY DEF Four
<1> HIDE DEF a, b, c
<1>2. SetOffset(e, v) = [name |-> a, length |-> b, offset |-> v, oldofs |-> c]
  BY <1>1 DEF SetOffset
<1>3. QED
  BY <1>2 DEF a, b, c

LEMMA WithOffsetsEffect ==
  ASSUME FitsInWords, NEW files, Row(files), Len(files) <= FILEMAX,
         NEW ob \in [1..Len(files) -> Objects], Distinct(ob, Len(files)),
         \A k \in 1..Len(files) : /\ Four(files[k], files[k])
                                  /\ files[k].name = ob[k].mod /\ files[k].length = ob[k].len
  PROVE  LET n == Len(files)
             f == WithOffsets(files)
         IN  /\ Row(f) /\ Len(f) = n
             /\ \A k \in 1..n :
                  /\ Entry(f[k], ob[k], DataStart(n))
                  /\ f[k].offset = IF k = 1 THEN DataStart(n)
                                   ELSE f[k - 1].offset + f[k - 1].length
                  /\ f[k].oldofs = files[k].oldofs
<1> DEFINE n == Len(files)
           d == DataStart(n)
           f == WithOffsets(files)
           g == Olblen(files)
           w == [k \in 1..n |-> files[k].length]
<1>1. n \in Nat /\ DOMAIN files = 1..n /\ n <= FILEMAX
  BY RowLen
<1>2. d \in Nat /\ d \in Int
  BY <1>1, DataStartNat
<1>4. \A k \in 1..n : ob[k].len \in Nat
  BY ObjectsAssumption
<1>5. \A k \in 1..n : files[k].length \in Int /\ w[k] = ob[k].len
  BY <1>4
<1>6. g = [k \in 0..n |-> IF k = 0 THEN d ELSE g[k - 1] + files[k].length]
  <2>1. Row(files) /\ DataStart(Len(files)) \in Int /\ \A k \in 1..Len(files) : files[k].length \in Int
    BY <1>2, <1>5
  <2>2. QED
    BY <2>1, OlblenSum
<1>7. f = [k \in 1..n |-> SetOffset(files[k], g[k - 1])]
  BY <1>1 DEF WithOffsets, SetOffset
<1> HIDE DEF f, g, d
<1>8. PICK h : Sums(n, d, w, h)
  <2> HIDE DEF n, w
  <2>1. \A k \in 1..n : w[k] \in Int
    BY <1>4, <1>5
  <2>2. QED
    BY <1>1, <1>2, <2>1, RunningSum
<1>9. \A k \in 1..n : g[k] = g[k - 1] + ob[k].len
  BY <1>1, <1>5, <1>6
<1>10. g[0] = d
  BY <1>1, <1>6
<1>11. Sums(n, d, w, g)
  <2> DEFINE B == {k \in 0..n : g[k] # h[k]}
  <2>1. B = {}
    <3> SUFFICES ASSUME B # {} PROVE FALSE
      OBVIOUS
    <3>1. B \in SUBSET Nat
      OBVIOUS
    <3>2. PICK m \in B : \A l \in B : m <= l
      BY <3>1, LeastNat
    <3>3. m \in 0..n /\ g[m] # h[m] /\ m # 0
      BY <1>8, <1>10 DEF Sums
    <3>4. m - 1 \in 0..n /\ m - 1 \notin B /\ m \in 1..n
      BY <1>1, <3>2, <3>3
    <3>5. g[m - 1] = h[m - 1]
      BY <3>4
    <3>6. QED
      BY <1>5, <1>8, <1>9, <3>3, <3>4, <3>5 DEF Sums
  <2>2. \A k \in 0..n : g[k] = h[k]
    BY <2>1
  <2>3. g = h
    BY <1>6, <1>8, <2>2 DEF Sums
  <2>4. QED
    BY <1>8, <2>3
<1>12. \A k \in 0..n : g[k] \in Nat /\ d <= g[k] /\ g[k] <= g[n]
  <2> HIDE DEF n, w
  <2>1. \A k \in 1..n : w[k] \in Nat
    BY <1>4, <1>5
  <2>2. QED
    BY <1>1, <1>2, <1>11, <2>1, SumGrows
<1>13. \A k \in 0..n : g[k] < HALF
  <2>1. w = [k \in 1..n |-> ob[k].len]
    BY <1>5
  <2>2. Sums(n, DataStart(n), [k \in 1..n |-> ob[k].len], g)
    BY <1>11, <2>1 DEF d
  <2>3. n \in 0..FILEMAX /\ Distinct(ob, n)
    BY <1>1, ArchiveAssumption
  <2>4. g[n] < HALF
    BY <2>2, <2>3 DEF FitsInWords
  <2>5. HALF \in Int /\ n \in 0..n
    BY <1>1, ByteAssumption DEF HALF, WORD
  <2>6. QED
    BY <1>12, <2>4, <2>5
<1>14. f = [k \in 1..n |-> f[k]]
  BY <1>7
<1>15. Row(f) /\ Len(f) = n
  BY <1>1, <1>14, RowMade
<1>16. \A k \in 1..n : /\ f[k].name = files[k].name /\ f[k].length = files[k].length
                       /\ f[k].offset = g[k - 1] /\ f[k].oldofs = files[k].oldofs
  <2> SUFFICES ASSUME NEW k \in 1..n
               PROVE  /\ f[k].name = files[k].name /\ f[k].length = files[k].length
                      /\ f[k].offset = g[k - 1] /\ f[k].oldofs = files[k].oldofs
    OBVIOUS
  <2>1. f[k] = SetOffset(files[k], g[k - 1])
    BY <1>7
  <2>2. QED
    BY <2>1, SetOffsetFields
<1>17. \A k \in 1..n : k - 1 \in 0..n /\ k \in 0..n /\ (k # 1 => k - 1 \in 1..n)
  BY <1>1
<1>18. ASSUME NEW k \in 1..n
       PROVE  /\ Entry(f[k], ob[k], d)
              /\ f[k].offset = IF k = 1 THEN d ELSE f[k - 1].offset + f[k - 1].length
              /\ f[k].oldofs = files[k].oldofs
  <2>1. /\ f[k].name = ob[k].mod /\ f[k].length = ob[k].len /\ f[k].offset = g[k - 1]
        /\ f[k].oldofs = files[k].oldofs
    BY <1>16
  <2>2. Entry(f[k], ob[k], d)
    BY <1>9, <1>12, <1>13, <1>17, <2>1 DEF Entry
  <2>3. k # 1 => f[k - 1].offset = g[k - 2] /\ f[k - 1].length = ob[k - 1].len
    BY <1>16, <1>17
  <2>4. k # 1 => g[k - 1] = g[k - 2] + ob[k - 1].len
    BY <1>9, <1>17
  <2>5. QED
    BY <1>10, <2>1, <2>2, <2>3, <2>4
<1>19. QED
  BY <1>15, <1>18 DEF f, d

LEMMA BodyRow ==
  ASSUME NEW o \in Objects
  PROVE  Row(Body(o)) /\ Len(Body(o)) = o.len /\ DOMAIN Body(o) = 1..o.len /\ o.len \in Nat \ {0}
<1>1. o.len \in Nat \ {0}
  BY ObjectsAssumption
<1> DEFINE b == Body(o)
<1>2. b = [k \in 1..o.len |-> b[k]] /\ DOMAIN b = 1..o.len
  BY DEF Body
<1> HIDE DEF b
<1>3. Row(b) /\ Len(b) = o.len
  BY <1>1, <1>2, RowMade
<1>4. QED
  BY <1>1, <1>2, <1>3 DEF b

\* Objects are told apart by their bytes.
LEMMA BodyTells ==
  ASSUME NEW o \in Objects, NEW p \in Objects, Body(o) = Body(p)
  PROVE  o = p
<1>1. o.len \in Nat \ {0} /\ p.len \in Nat \ {0}
  BY ObjectsAssumption
<1>2. Body(o)[1] = <<o.mod, o.id, 1>> /\ Body(p)[1] = <<p.mod, p.id, 1>>
  BY <1>1 DEF Body
<1>3. <<o.mod, o.id, 1>> = <<p.mod, p.id, 1>>
  BY <1>2
<1>4. o.mod = p.mod /\ o.id = p.id
  BY <1>3
<1>5. QED
  BY <1>4, ObjectsAssumption

\* Reading where an object is gives the object.
LEMMA ReadWhole ==
  ASSUME NEW l, Row(l.files), Row(l.cells), NEW o \in Objects, NEW ofs \in Nat,
         DataStart(Len(l.files)) <= ofs,
         ofs + o.len <= DataStart(Len(l.files)) + Len(l.cells),
         \A x \in 1..o.len : l.cells[ofs - DataStart(Len(l.files)) + x] = Body(o)[x]
  PROVE  ReadAt(l, ofs, o.len) = Body(o)
<1> DEFINE data == DataStart(Len(l.files))
           most == data + Len(l.cells) - ofs
           r == ReadAt(l, ofs, o.len)
<1>1. data \in Nat /\ Len(l.cells) \in Nat
  BY RowLen, DataStartNat
<1>2. o.len \in Nat /\ Row(Body(o)) /\ Len(Body(o)) = o.len
  BY BodyRow
<1>3. r = [k \in 1..Min({o.len, most}) |->
             IF ofs + k > data THEN l.cells[ofs + k - data] ELSE <<"table", ofs + k>>]
  BY DEF ReadAt
<1>4. Min({o.len, most}) = o.len
  <2>1. most \in Int /\ o.len \in Int /\ o.len <= most
    BY <1>1, <1>2
  <2> HIDE DEF most
  <2>2. QED
    BY <2>1, MinPair
<1>5. \A k \in 1..o.len : r[k] = Body(o)[k]
  <2> SUFFICES ASSUME NEW k \in 1..o.len PROVE r[k] = Body(o)[k]
    OBVIOUS
  <2>1. r[k] = IF ofs + k > data THEN l.cells[ofs + k - data] ELSE <<"table", ofs + k>>
    BY <1>3, <1>4
  <2> HIDE DEF data, r
  <2>2. ofs + k > data /\ ofs + k - data = ofs - data + k
    BY <1>1 DEF data
  <2>3. r[k] = l.cells[ofs + k - data]
    BY <2>1, <2>2
  <2>4. QED
    BY <2>2, <2>3 DEF data
<1>6. r = [k \in 1..o.len |-> r[k]]
  BY <1>3, <1>4
<1> HIDE DEF r
<1>7. Row(r) /\ Len(r) = o.len
  BY <1>2, <1>6, RowMade
<1>8. r = Body(o)
  BY <1>2, <1>5, <1>7, RowEqual
<1>9. QED
  BY <1>8 DEF r

LEMMA LaidReads ==
  ASSUME NEW l, NEW ob, Laid(l, ob), NEW k \in 1..Len(l.files)
  PROVE  /\ ob[k] \in Objects /\ Holds(l, k, ob[k])
         /\ ReadAt(l, l.files[k].offset, ob[k].len) = Body(ob[k])
<1> DEFINE e == l.files[k]
           o == ob[k]
<1>1. Row(l.files) /\ Row(l.cells) /\ o \in Objects
  BY DEF Laid, Indexed
<1>2. /\ Entry(e, o, DataStart(Len(l.files)))
      /\ e.offset + o.len <= DataStart(Len(l.files)) + Len(l.cells)
      /\ \A x \in 1..o.len : l.cells[e.offset - DataStart(Len(l.files)) + x] = Body(o)[x]
  BY DEF Laid
<1>3. e.offset \in Nat /\ DataStart(Len(l.files)) <= e.offset /\ e.name = o.mod /\ e.length = o.len
  BY <1>2 DEF Entry
<1>4. ReadAt(l, e.offset, o.len) = Body(o)
  <2> HIDE DEF e, o
  <2>1. QED
    BY <1>1, <1>2, <1>3, ReadWhole
<1>5. QED
  BY <1>1, <1>3, <1>4 DEF Holds

\* What a library holds.
InLibrary(l) == {o \in Objects : \E k \in DOMAIN l.files : Holds(l, k, o)}

LEMMA LaidHolds ==
  ASSUME NEW l, NEW ob, Laid(l, ob)
  PROVE  InLibrary(l) = Objs(ob, Len(l.files))
<1> DEFINE n == Len(l.files)
<1>1. DOMAIN l.files = 1..n
  BY RowLen DEF Laid
<1>2. InLibrary(l) = {o \in Objects : \E k \in 1..n : Holds(l, k, o)}
  BY <1>1 DEF InLibrary
<1>3. \A k \in 1..n : ob[k] \in Objects /\ Holds(l, k, ob[k])
  BY LaidReads
<1>4. ASSUME NEW k \in 1..n, NEW o \in Objects, Holds(l, k, o)
      PROVE  o = ob[k]
  <2>1. Body(o) = Body(ob[k])
    BY <1>3, <1>4 DEF Holds
  <2>2. QED
    BY <1>3, <2>1, BodyTells
<1>5. \A o : o \in InLibrary(l) <=> \E k \in 1..n : o = ob[k]
  BY <1>2, <1>3, <1>4
<1>6. QED
  BY <1>5 DEF Objs

LEMMA LaidContents ==
  ASSUME NEW ob, Current # <<>>, Laid(Current[1], ob)
  PROVE  Contents = Objs(ob, Len(Current[1].files))
<1>1. Contents = InLibrary(Current[1])
  BY DEF Contents, InLibrary
<1>2. QED
  BY <1>1, LaidHolds

-----------------------------------------------------------------------------
(* The commands                                                            *)

\* Where a planned module comes from.
Source(e, o, obj) ==
  IF e.oldofs = 0 THEN obj = {o}
  ELSE /\ Current # <<>> /\ e.oldofs \in Nat
       /\ ReadAt(Current[1], e.oldofs, o.len) = Body(o)

\* Tables in memory for the objects ob.
Tables(names, files, obj, ob) ==
  /\ Row(files) /\ Len(files) <= FILEMAX
  /\ Indexed(names, ob, Len(files))
  /\ \A k \in 1..Len(files) :
       /\ Four(files[k], files[k])
       /\ files[k].name = ob[k].mod /\ files[k].length = ob[k].len
       /\ Source(files[k], ob[k], obj)

LEMMA LoadedIs ==
  ASSUME olb # <<>> => Good(olb[1]), Usable
  PROVE  \E ob : /\ Tables(Loaded.names, Loaded.files, {}, ob)
                 /\ Contents = Objs(ob, Len(Loaded.files))
                 /\ \A k \in 1..Len(Loaded.files) :
                      /\ Loaded.files[k].oldofs # 0
                      /\ Loaded.files[k].offset = Loaded.files[k].oldofs
<1>1. CASE olb = <<>>
  <2>1. Loaded = NoMem /\ Current = <<>>
    BY <1>1 DEF Loaded, Usable, Current
  <2>2. Loaded.files = <<>> /\ \A s \in Symbols : Loaded.names[s] = 0
    BY <2>1 DEF NoMem, NOLIB
  <2>3. Contents = {}
    BY <2>1 DEF Contents
  <2> DEFINE ob == [k \in 1..0 |-> CHOOSE o \in Objects : TRUE]
             files == Loaded.files
             names == Loaded.names
  <2>4. files = [k \in 1..0 |-> files[k]]
    BY <2>2
  <2> HIDE DEF files
  <2>5. Row(files) /\ Len(files) = 0
    BY <2>4, RowMade
  <2>6. 1..0 = {} /\ ob \in [1..0 -> Objects] /\ 0 \in 0..0
    OBVIOUS
  <2>7. \A s \in Symbols : names[s] = 0
    BY <2>2
  <2> HIDE DEF ob, names
  <2>8. Indexed(names, ob, 0)
    BY <2>6, <2>7 DEF Indexed
  <2>9. Tables(names, files, {}, ob)
    BY <2>5, <2>6, <2>8, ArchiveAssumption DEF Tables
  <2>10. Objs(ob, Len(files)) = {}
    BY <2>5, <2>6 DEF Objs
  <2>11. QED
    BY <2>3, <2>5, <2>6, <2>9, <2>10 DEF files, names
<1>2. CASE olb # <<>>
  <2> DEFINE l == olb[1]
             n == Len(l.files)
             m == Loaded
  <2>1. Current = olb
    BY <1>2 DEF Current
  <2>2. PICK ob : Laid(l, ob)
    BY <1>2 DEF Good
  <2>3. /\ m.names = l.names
        /\ m.files = [k \in DOMAIN l.files |->
             [name |-> l.files[k].name, length |-> Signed(l.files[k].length),
              offset |-> Signed(l.files[k].offset), oldofs |-> Signed(l.files[k].offset)]]
    BY <1>2 DEF Loaded
  <2> HIDE DEF m, l
  <2>4. Row(l.files) /\ n <= FILEMAX /\ Indexed(l.names, ob, n)
    BY <2>2 DEF Laid
  <2>5. n \in Nat /\ DOMAIN l.files = 1..n
    BY <2>4, RowLen
  <2>6. \A k \in 1..n : ob[k] \in Objects /\ ob[k].len \in Nat
    BY <2>4, ObjectsAssumption DEF Indexed
  <2>7. ASSUME NEW k \in 1..n
        PROVE  /\ l.files[k].name = ob[k].mod
               /\ Signed(l.files[k].length) = ob[k].len
               /\ Signed(l.files[k].offset) = l.files[k].offset
               /\ l.files[k].offset \in Nat \ {0}
    <3>1. Entry(l.files[k], ob[k], DataStart(n))
      BY <2>2 DEF Laid
    <3>2. DataStart(n) \in Nat \ {0} /\ HALF \in Int
      BY <2>5, DataStartNat, ByteAssumption DEF HALF, WORD
    <3>3. /\ l.files[k].name = ob[k].mod /\ l.files[k].length = ob[k].len
          /\ l.files[k].offset \in Nat \ {0}
          /\ l.files[k].offset < HALF /\ ob[k].len < HALF
      BY <2>6, <3>1, <3>2 DEF Entry
    <3>4. QED
      BY <2>6, <3>3, SmallWords
  <2>8. m.files = [k \in 1..n |-> m.files[k]]
    BY <2>3, <2>5
  <2>9. ASSUME NEW k \in 1..n
        PROVE  /\ Four(m.files[k], m.files[k])
               /\ m.files[k].name = ob[k].mod /\ m.files[k].length = ob[k].len
               /\ m.files[k].oldofs = l.files[k].offset
               /\ m.files[k].offset = l.files[k].offset
    <3> DEFINE e == m.files[k]
               a == l.files[k].offset
    <3>1. e = [name |-> ob[k].mod, length |-> ob[k].len, offset |-> a, oldofs |-> a]
      BY <2>3, <2>5, <2>7
    <3> HIDE DEF e, a
    <3>2. e.name = ob[k].mod /\ e.length = ob[k].len /\ e.oldofs = a /\ e.offset = a
      BY <3>1
    <3>3. e = [name |-> e.name, length |-> e.length, offset |-> a, oldofs |-> e.oldofs]
      BY <3>1, <3>2
    <3>4. QED
      BY <3>2, <3>3 DEF Four, e, a
  <2>10. ASSUME NEW k \in 1..n
         PROVE  Source(m.files[k], ob[k], {})
    <3>1. ReadAt(l, l.files[k].offset, ob[k].len) = Body(ob[k])
      BY <2>2, LaidReads
    <3>2. QED
      BY <1>2, <2>1, <2>7, <2>9, <3>1 DEF Source, l
  <2>11. Row(m.files) /\ Len(m.files) = n
    <3> DEFINE f == m.files
    <3>1. f = [k \in 1..n |-> f[k]]
      BY <2>8
    <3> HIDE DEF f
    <3>2. Row(f) /\ Len(f) = n
      BY <2>5, <3>1, RowMade
    <3>3. QED
      BY <3>2 DEF f
  <2>12. Tables(m.names, m.files, {}, ob)
    BY <2>3, <2>4, <2>9, <2>10, <2>11 DEF Tables
  <2>13. Contents = Objs(ob, n)
    BY <1>2, <2>1, <2>2, LaidContents DEF l
  <2>14. \A k \in 1..n : m.files[k].oldofs # 0 /\ m.files[k].offset = m.files[k].oldofs
    BY <2>7, <2>9
  <2>15. QED
    BY <2>11, <2>12, <2>13, <2>14 DEF m
<1>3. QED
  BY <1>1, <1>2

LEMMA DiskUnchanged ==
  ASSUME UNCHANGED <<olb, bak>>
  PROVE  Current' = Current /\ Contents' = Contents
BY DEF Current, Contents

\* A command that has made its tables goes on with a plan.
LEMMA BuildStep ==
  ASSUME FitsInWords, AInv, Usable, NEW names, NEW files, NEW obj, NEW ob,
         Tables(names, files, obj, ob),
         StepTo(Contents, Objs(ob, Len(files))),
         Build([names |-> names, files |-> WithOffsets(files), obj |-> obj, next |-> 1])
  PROVE  AInv'
<1> DEFINE f == WithOffsets(files)
           n == Len(files)
<1>1. /\ mem'.names = names /\ mem'.files = f /\ mem'.obj = obj /\ mem'.next = 1
      /\ pc' = "build" /\ UNCHANGED <<olb, bak, tmp>> /\ ext' = NoExt
  BY DEF Build
<1>2. /\ Row(f) /\ Len(f) = n
      /\ \A k \in 1..n : /\ Entry(f[k], ob[k], DataStart(n))
                         /\ f[k].offset = IF k = 1 THEN DataStart(n)
                                          ELSE f[k - 1].offset + f[k - 1].length
                         /\ f[k].oldofs = files[k].oldofs
  <2>1. /\ Row(files) /\ Len(files) <= FILEMAX /\ ob \in [1..Len(files) -> Objects]
        /\ Distinct(ob, Len(files))
        /\ \A k \in 1..Len(files) :
             /\ Four(files[k], files[k])
             /\ files[k].name = ob[k].mod /\ files[k].length = ob[k].len
    BY DEF Tables, Indexed, Distinct
  <2>2. QED
    BY <2>1, WithOffsetsEffect
<1> HIDE DEF f
<1>3. Current' = Current /\ Contents' = Contents
  BY <1>1, DiskUnchanged
<1>4. \A k \in 1..n : Source(files[k], ob[k], obj)
  BY DEF Tables
<1>5. \A k \in 1..n : IF f[k].oldofs = 0 THEN obj = {ob[k]}
                      ELSE /\ Current # <<>> /\ f[k].oldofs \in Nat
                           /\ ReadAt(Current[1], f[k].oldofs, ob[k].len) = Body(ob[k])
  BY <1>2, <1>4 DEF Source
<1>6. n <= FILEMAX /\ Indexed(names, ob, n)
  BY DEF Tables
<1>7. Plan(ob)'
  <2>1. mem' = [names |-> names, files |-> f, obj |-> obj, next |-> 1]
    BY DEF Build, f
  <2>2. MemShape'
    BY <1>1, <2>1 DEF MemShape
  <2>3. QED
    BY <1>1, <1>2, <1>3, <1>5, <1>6, <2>2 DEF Plan, End
<1>8. Building'
  BY <1>1, <1>7 DEF Building, Usable
<1>9. ExtractFaithful'
  BY <1>1 DEF ExtractFaithful, NoExt
<1>10. QED
  BY <1>1, <1>8, <1>9 DEF AInv

LEMMA CreateStep ==
  ASSUME FitsInWords, AInv, Usable, do_cre
  PROVE  AInv'
<1> DEFINE names == [s \in Symbols |-> NOLIB]
           files == <<>>
           ob == [k \in 1..0 |-> CHOOSE o \in Objects : TRUE]
<1>1. Build(NoMem) /\ NoMem = [names |-> names, files |-> <<>>, obj |-> {}, next |-> 1]
  BY DEF do_cre, NoMem
<1>2. WithOffsets(files) = <<>>
  BY DEF WithOffsets
<1>3. files = [k \in 1..0 |-> files[k]] /\ 1..0 = {} /\ ob \in [1..0 -> Objects] /\ 0 \in 0..0
  OBVIOUS
<1>4. \A s \in Symbols : names[s] = 0
  BY DEF NOLIB
<1>5. Build([names |-> names, files |-> WithOffsets(files), obj |-> {}, next |-> 1])
  BY <1>1, <1>2
<1> HIDE DEF names, files, ob
<1>6. Row(files) /\ Len(files) = 0
  BY <1>3, RowMade
<1>7. Indexed(names, ob, 0)
  BY <1>3, <1>4 DEF Indexed
<1>8. Tables(names, files, {}, ob)
  BY <1>3, <1>6, <1>7, ArchiveAssumption DEF Tables
<1>9. StepTo(Contents, Objs(ob, Len(files)))
  BY <1>3, <1>6 DEF StepTo, Objs
<1>10. QED
  BY <1>5, <1>8, <1>9, BuildStep

\* The place of a module in the tables, or the first free place.
LEMMA IndexIs ==
  ASSUME NEW names, NEW files, NEW ob, Tables(names, files, {}, ob), NEW m
  PROVE  LET n == Len(files)
             inx == Index(files, m)
         IN  /\ n \in Nat /\ DOMAIN files = 1..n /\ inx \in 1..(n + 1)
             /\ \A k \in 1..n : ob[k].mod = m <=> k = inx
<1> DEFINE n == Len(files)
           inx == Index(files, m)
<1>1. n \in Nat /\ DOMAIN files = 1..n
  BY RowLen DEF Tables
<1>2. \A k \in 1..n : files[k].name = ob[k].mod
  BY DEF Tables
<1>3. \A k, l \in 1..n : ob[k].mod = ob[l].mod => k = l
  BY DEF Tables, Indexed
<1>4. CASE \E k \in 1..n : files[k].name = m
  <2>1. inx \in 1..n /\ files[inx].name = m
    BY <1>1, <1>4 DEF Index
  <2> HIDE DEF inx, n
  <2>2. \A k \in 1..n : ob[k].mod = m <=> k = inx
    BY <1>2, <1>3, <2>1
  <2>3. inx \in 1..(n + 1)
    BY <1>1, <2>1
  <2>4. QED
    BY <1>1, <2>2, <2>3 DEF inx, n
<1>5. CASE ~ \E k \in 1..n : files[k].name = m
  <2>1. inx = n + 1
    BY <1>1, <1>5 DEF Index
  <2> HIDE DEF inx, n
  <2>2. \A k \in 1..n : ob[k].mod # m /\ k # inx
    BY <1>1, <1>2, <1>5, <2>1
  <2>3. QED
    BY <1>1, <2>1, <2>2 DEF inx, n
<1>6. QED
  BY <1>4, <1>5

\* The objects with o in place inx, which is free or holds the module of the
\* same name.
Placed(n, ob, o, inx, N, nob) ==
  /\ n \in Nat /\ ob \in [1..n -> Objects] /\ o \in Objects
  /\ \A k, l \in 1..n : ob[k].mod = ob[l].mod => k = l
  /\ inx \in 1..(n + 1)
  /\ \A k \in 1..n : ob[k].mod = o.mod <=> k = inx
  /\ N = IF inx <= n THEN n ELSE n + 1
  /\ nob = [k \in 1..N |-> IF k = inx THEN o ELSE ob[k]]

Replaced(n, ob, o, inx, N, nob) ==
  /\ nob \in [1..N -> Objects]
  /\ nob[inx] = o
  /\ \A k \in 1..N : k # inx => k \in 1..n /\ nob[k] = ob[k]
  /\ \A k, l \in 1..N : nob[k].mod = nob[l].mod => k = l
  /\ Objs(nob, N) = {p \in Objs(ob, n) : p.mod # o.mod} \cup {o}

LEMMA PlaceObject ==
  ASSUME NEW n, NEW ob, NEW o, NEW inx, NEW N, NEW nob, Placed(n, ob, o, inx, N, nob)
  PROVE  Replaced(n, ob, o, inx, N, nob)
<1> USE DEF Placed
<1>1. N \in Nat /\ inx \in 1..N /\ \A k \in 1..n : k \in 1..N
  OBVIOUS
<1>2. \A k \in 1..N : k # inx => k \in 1..n
  OBVIOUS
<1>3. \A k \in 1..N : k # inx => nob[k] = ob[k]
  OBVIOUS
<1>4. nob[inx] = o
  BY <1>1
<1>5. nob \in [1..N -> Objects]
  BY <1>2
<1>6. \A k, l \in 1..N : nob[k].mod = nob[l].mod => k = l
  <2> SUFFICES ASSUME NEW k \in 1..N, NEW l \in 1..N, nob[k].mod = nob[l].mod
               PROVE  k = l
    OBVIOUS
  <2>1. CASE k = inx /\ l # inx
    <3>1. l \in 1..n /\ nob[l] = ob[l] /\ nob[k] = o
      BY <1>2, <1>3, <1>4, <2>1
    <3>2. QED
      BY <2>1, <3>1
  <2>2. CASE k # inx /\ l = inx
    <3>1. k \in 1..n /\ nob[k] = ob[k] /\ nob[l] = o
      BY <1>2, <1>3, <1>4, <2>2
    <3>2. QED
      BY <2>2, <3>1
  <2>3. CASE k # inx /\ l # inx
    <3>1. k \in 1..n /\ l \in 1..n /\ nob[k] = ob[k] /\ nob[l] = ob[l]
      BY <1>2, <1>3, <2>3
    <3>2. QED
      BY <3>1
  <2>4. QED
    BY <2>1, <2>2, <2>3
<1> DEFINE S == Objs(ob, n)
           R == {p \in S : p.mod # o.mod}
           T == Objs(nob, N)
<1>7. ASSUME NEW k \in 1..N
      PROVE  nob[k] \in R \cup {o}
  <2>1. CASE k = inx
    BY <1>4, <2>1
  <2>2. CASE k # inx
    <3>1. k \in 1..n /\ nob[k] = ob[k]
      BY <1>2, <1>3, <2>2
    <3>2. ob[k].mod # o.mod
      BY <2>2, <3>1
    <3>3. QED
      BY <3>1, <3>2 DEF Objs
  <2>3. QED
    BY <2>1, <2>2
<1>8. ASSUME NEW k \in 1..n, ob[k].mod # o.mod
      PROVE  ob[k] \in T
  <2>1. k # inx /\ k \in 1..N
    BY <1>1, <1>8
  <2>2. nob[k] = ob[k]
    BY <1>3, <2>1
  <2>3. QED
    BY <2>1, <2>2 DEF Objs
<1>9. o \in T
  BY <1>1, <1>4 DEF Objs
<1>10. T = R \cup {o}
  <2>1. \A p \in T : p \in R \cup {o}
    BY <1>7 DEF Objs
  <2>2. \A p \in R : p \in T
    BY <1>8 DEF Objs
  <2> HIDE DEF T, R
  <2>3. QED
    BY <1>9, <2>1, <2>2
<1>11. QED
  BY <1>2, <1>3, <1>4, <1>5, <1>6, <1>10 DEF Replaced

LEMMA AddIndexed ==
  ASSUME NEW n, NEW names, NEW ob, Indexed(names, ob, n), NEW o,
         NEW inx, NEW N, NEW nob, Placed(n, ob, o, inx, N, nob),
         NEW without, NEW names2,
         \A s \in Symbols : without[s] = IF names[s] = inx THEN 0 ELSE names[s],
         \A s \in Symbols : s \in DefinedBy(o) => without[s] = 0,
         \A s \in Symbols : names2[s] = IF s \in DefinedBy(o) THEN inx ELSE without[s]
  PROVE  Indexed(names2, nob, N)
<1>0. /\ n \in Nat /\ inx \in 1..(n + 1) /\ N = IF inx <= n THEN n ELSE n + 1
  BY DEF Placed
<1>p. /\ nob \in [1..N -> Objects] /\ nob[inx] = o
      /\ \A k \in 1..N : k # inx => k \in 1..n /\ nob[k] = ob[k]
      /\ \A k, l \in 1..N : nob[k].mod = nob[l].mod => k = l
  BY PlaceObject DEF Replaced
<1>1. N \in Nat /\ inx \in 1..N
  BY <1>0
<1>2. ASSUME NEW s \in Symbols
      PROVE  names2[s] \in 0..N /\ \A k \in 1..N : names2[s] = k <=> s \in DefinedBy(nob[k])
  <2> DEFINE D == s \in DefinedBy(o)
  <2>1. names[s] \in 0..n /\ \A k \in 1..n : names[s] = k <=> s \in DefinedBy(ob[k])
    BY DEF Indexed
  <2>2. /\ without[s] = IF names[s] = inx THEN 0 ELSE names[s]
        /\ D => without[s] = 0
        /\ names2[s] = IF D THEN inx ELSE without[s]
    OBVIOUS
  <2> HIDE DEF D
  <2>3. names2[s] \in 0..N
    BY <1>0, <1>1, <2>1, <2>2
  <2>4. ASSUME NEW k \in 1..N, k # inx
        PROVE  names2[s] = k <=> s \in DefinedBy(nob[k])
    <3>1. k \in 1..n /\ nob[k] = ob[k] /\ k # 0
      BY <1>0, <1>p, <2>4
    <3>2. names[s] = k <=> s \in DefinedBy(nob[k])
      BY <2>1, <3>1
    <3>3. names2[s] = k <=> names[s] = k
      BY <2>2, <2>4, <3>1
    <3>4. QED
      BY <3>2, <3>3
  <2>5. names2[s] = inx <=> s \in DefinedBy(nob[inx])
    <3>1. inx # 0 /\ (D <=> s \in DefinedBy(nob[inx]))
      BY <1>0, <1>p DEF D
    <3>2. QED
      BY <2>2, <3>1
  <2>6. QED
    BY <2>3, <2>4, <2>5
<1>3. QED
  BY <1>2, <1>p DEF Indexed

\* do_add makes tables for the objects with o in place inx.
Added(names, files, ob, o, inx, N, new, names2, files2, nob) ==
  /\ inx = Index(files, o.mod) /\ inx <= FILEMAX /\ ~ Clash(Without(names, inx), o)
  /\ N = Max({Len(files), inx})
  /\ new = [name |-> o.mod, length |-> o.len, offset |-> 0, oldofs |-> 0]
  /\ names2 = [s \in Symbols |-> IF \E k \in DOMAIN o.defs : o.defs[k] = s THEN inx
                                 ELSE Without(names, inx)[s]]
  /\ files2 = [k \in 1..N |-> IF k = inx THEN new ELSE files[k]]
  /\ nob = [k \in 1..N |-> IF k = inx THEN o ELSE ob[k]]

LEMMA AddTables ==
  ASSUME NEW names, NEW files, NEW ob, Tables(names, files, {}, ob), NEW o \in Objects,
         \A k \in 1..Len(files) : files[k].oldofs # 0,
         NEW inx, NEW N, NEW new, NEW names2, NEW files2, NEW nob,
         Added(names, files, ob, o, inx, N, new, names2, files2, nob)
  PROVE  /\ Tables(names2, files2, {o}, nob) /\ Len(files2) = N
         /\ StepTo(Objs(ob, Len(files)), Objs(nob, N))
<1> DEFINE n == Len(files)
           without == Without(names, inx)
           S == Objs(ob, n)
           T == Objs(nob, N)
<1> USE DEF Added
<1>1. /\ n \in Nat /\ inx \in 1..(n + 1)
      /\ \A k \in 1..n : ob[k].mod = o.mod <=> k = inx
  BY IndexIs
<1> HIDE DEF n
<1>2. N = (IF inx <= n THEN n ELSE n + 1) /\ N \in Nat /\ N <= FILEMAX /\ inx \in 1..N
  <2>1. N = IF n >= inx THEN n ELSE inx
    BY <1>1, MaxPair DEF n
  <2>2. n <= FILEMAX /\ FILEMAX \in Nat
    BY ArchiveAssumption DEF Tables, n
  <2>3. QED
    BY <1>1, <2>1, <2>2
<1>3. Indexed(names, ob, n)
  BY DEF Tables, n
<1>4. /\ ob \in [1..n -> Objects]
      /\ \A k, l \in 1..n : ob[k].mod = ob[l].mod => k = l
      /\ \A s \in Symbols : \A k \in 1..n : names[s] = k <=> s \in DefinedBy(ob[k])
  BY <1>3 DEF Indexed
<1>5. nob = [k \in 1..N |-> IF k = inx THEN o ELSE ob[k]]
  OBVIOUS
<1>p. Placed(n, ob, o, inx, N, nob)
  BY <1>1, <1>2, <1>4, <1>5 DEF Placed
<1>6. /\ nob \in [1..N -> Objects] /\ nob[inx] = o
      /\ \A k \in 1..N : k # inx => k \in 1..n /\ nob[k] = ob[k]
      /\ \A k, l \in 1..N : nob[k].mod = nob[l].mod => k = l
      /\ T = {p \in S : p.mod # o.mod} \cup {o}
  <2>1. Replaced(n, ob, o, inx, N, nob)
    BY <1>p, PlaceObject
  <2>2. QED
    BY <2>1 DEF Replaced
<1>7. \A s \in Symbols : without[s] = IF names[s] = inx THEN 0 ELSE names[s]
  BY DEF Without, NOLIB
<1>8. \A s \in Symbols : s \in DefinedBy(o) => without[s] = 0
  BY DEF Clash, DefinedBy, NOLIB
<1>9. \A s \in Symbols : names2[s] = IF s \in DefinedBy(o) THEN inx ELSE without[s]
  BY DEF DefinedBy
<1> HIDE DEF without
<1>10. Indexed(names2, nob, N)
  BY <1>p, <1>3, <1>7, <1>8, <1>9, AddIndexed
<1>11. Row(files2) /\ Len(files2) = N
  <2>1. files2 = [k \in 1..N |-> files2[k]]
    OBVIOUS
  <2>2. QED
    BY <1>2, <2>1, RowMade
<1>12. ASSUME NEW k \in 1..N
       PROVE  /\ Four(files2[k], files2[k])
              /\ files2[k].name = nob[k].mod /\ files2[k].length = nob[k].len
              /\ Source(files2[k], nob[k], {o})
  <2>1. CASE k = inx
    <3>1. files2[k] = new /\ nob[k] = o
      BY <1>6, <2>1
    <3>2. new.name = o.mod /\ new.length = o.len /\ new.oldofs = 0
      OBVIOUS
    <3>3. new = [name |-> new.name, length |-> new.length, offset |-> 0, oldofs |-> new.oldofs]
      BY <3>2
    <3>4. Four(new, new)
      BY <3>3 DEF Four
    <3>5. QED
      BY <3>1, <3>2, <3>4 DEF Source
  <2>2. CASE k # inx
    <3>1. files2[k] = files[k] /\ nob[k] = ob[k] /\ k \in 1..n
      BY <1>6, <2>2
    <3>2. /\ Four(files[k], files[k]) /\ files[k].name = ob[k].mod
          /\ files[k].length = ob[k].len /\ Source(files[k], ob[k], {})
          /\ files[k].oldofs # 0
      BY <3>1 DEF Tables, n
    <3>3. Source(files[k], ob[k], {o})
      BY <3>2 DEF Source
    <3>4. QED
      BY <3>1, <3>2, <3>3
  <2>3. QED
    BY <2>1, <2>2
<1>13. Tables(names2, files2, {o}, nob)
  BY <1>2, <1>10, <1>11, <1>12 DEF Tables
<1>14. L!Single(o)
  <2>1. o.defs \in Seq(Symbols)
    BY ObjectsAssumption
  <2>2. \A k \in DOMAIN o.defs : \A l \in 1..(k - 1) : o.defs[l] # o.defs[k]
    BY DEF Clash
  <2>3. \A k, l \in DOMAIN o.defs : k \in Nat \ {0} /\ l \in Nat \ {0}
    BY <2>1
  <2>4. QED
    BY <2>2, <2>3 DEF L!Single
<1>15. \A p \in S : p.mod # o.mod => DefinedBy(p) \cap DefinedBy(o) = {}
  <2> SUFFICES ASSUME NEW k \in 1..n, ob[k].mod # o.mod,
                      NEW s \in DefinedBy(ob[k]), s \in DefinedBy(o)
               PROVE  FALSE
    BY DEF Objs
  <2>1. s \in Symbols
    BY ObjectsAssumption DEF DefinedBy
  <2>2. names[s] = k /\ k # inx /\ k # 0
    BY <1>1, <1>4, <2>1
  <2>3. QED
    BY <1>7, <1>8, <2>1, <2>2
<1>16. StepTo(S, T)
  <2> HIDE DEF S, T
  <2>1. QED
    BY <1>6, <1>14, <1>15 DEF StepTo
<1>17. QED
  BY <1>11, <1>13, <1>16 DEF n

LEMMA AddStep ==
  ASSUME FitsInWords, AInv, Usable, NEW o \in Objects, do_add(o)
  PROVE  AInv'
<1>1. PICK ob : /\ Tables(Loaded.names, Loaded.files, {}, ob)
                /\ Contents = Objs(ob, Len(Loaded.files))
                /\ \A k \in 1..Len(Loaded.files) : Loaded.files[k].oldofs # 0
  <2>1. olb # <<>> => Good(olb[1])
    BY DEF AInv
  <2>2. QED
    BY <2>1, LoadedIs
<1> DEFINE names == Loaded.names
           files == Loaded.files
           inx == Index(files, o.mod)
           N == Max({Len(files), inx})
           new == [name |-> o.mod, length |-> o.len, offset |-> 0, oldofs |-> 0]
           names2 == [s \in Symbols |-> IF \E k \in DOMAIN o.defs : o.defs[k] = s THEN inx
                                        ELSE Without(names, inx)[s]]
           files2 == [k \in 1..N |-> IF k = inx THEN new ELSE files[k]]
           nob == [k \in 1..N |-> IF k = inx THEN o ELSE ob[k]]
<1>2. Build([names |-> names2, files |-> WithOffsets(files2), obj |-> {o}, next |-> 1])
  BY DEF do_add
<1>3. Added(names, files, ob, o, inx, N, new, names2, files2, nob)
  BY DEF do_add, Added
<1>4. /\ Tables(names, files, {}, ob) /\ \A k \in 1..Len(files) : files[k].oldofs # 0
      /\ Contents = Objs(ob, Len(files))
  BY <1>1
<1> HIDE DEF new, inx, N, names2, files2, names, files, nob
<1>5. /\ Tables(names2, files2, {o}, nob) /\ Len(files2) = N
      /\ StepTo(Objs(ob, Len(files)), Objs(nob, N))
  BY <1>3, <1>4, AddTables
<1>6. StepTo(Contents, Objs(nob, Len(files2)))
  BY <1>4, <1>5
<1>7. QED
  BY <1>2, <1>5, <1>6, BuildStep

\* The objects without the one in place inx.
Removed(n, ob, inx, nob) ==
  /\ n \in Nat /\ ob \in [1..n -> Objects]
  /\ \A k, l \in 1..n : ob[k].mod = ob[l].mod => k = l
  /\ inx \in 1..n
  /\ nob = [k \in 1..(n - 1) |-> IF k < inx THEN ob[k] ELSE ob[k + 1]]

Shift(k, inx) == IF k < inx THEN k ELSE k + 1

Shifted(n, ob, inx, nob) ==
  /\ nob \in [1..(n - 1) -> Objects]
  /\ \A k \in 1..(n - 1) : Shift(k, inx) \in 1..n /\ nob[k] = ob[Shift(k, inx)]
  /\ \A k, l \in 1..(n - 1) : nob[k].mod = nob[l].mod => k = l
  /\ Objs(nob, n - 1) = {p \in Objs(ob, n) : p.mod # ob[inx].mod}

LEMMA RemoveObject ==
  ASSUME NEW n, NEW ob, NEW inx, NEW nob, Removed(n, ob, inx, nob)
  PROVE  Shifted(n, ob, inx, nob)
<1> USE DEF Removed
<1>1. \A k \in 1..(n - 1) : /\ Shift(k, inx) \in 1..n /\ Shift(k, inx) # inx
                            /\ nob[k] = ob[Shift(k, inx)]
  BY DEF Shift
<1>2. \A k, l \in 1..(n - 1) : Shift(k, inx) = Shift(l, inx) => k = l
  BY DEF Shift
<1>3. \A k \in 1..n : k # inx => \E l \in 1..(n - 1) : k = Shift(l, inx)
  <2> SUFFICES ASSUME NEW k \in 1..n, k # inx
               PROVE  \E l \in 1..(n - 1) : k = Shift(l, inx)
    OBVIOUS
  <2>1. CASE k < inx
    <3>1. k \in 1..(n - 1) /\ k = Shift(k, inx)
      BY <2>1 DEF Shift
    <3>2. QED
      BY <3>1
  <2>2. CASE k > inx
    <3>1. k - 1 \in 1..(n - 1) /\ k = Shift(k - 1, inx)
      BY <2>2 DEF Shift
    <3>2. QED
      BY <3>1
  <2>3. QED
    BY <2>1, <2>2
<1>4. nob \in [1..(n - 1) -> Objects]
  OBVIOUS
<1>5. \A k, l \in 1..(n - 1) : nob[k].mod = nob[l].mod => k = l
  <2> SUFFICES ASSUME NEW k \in 1..(n - 1), NEW l \in 1..(n - 1), nob[k].mod = nob[l].mod
               PROVE  k = l
    OBVIOUS
  <2>1. Shift(k, inx) = Shift(l, inx)
    BY <1>1
  <2>2. QED
    BY <1>2, <2>1
<1> DEFINE S == Objs(ob, n)
           R == {p \in S : p.mod # ob[inx].mod}
           T == Objs(nob, n - 1)
<1>6. ASSUME NEW k \in 1..(n - 1)
      PROVE  nob[k] \in R
  <2>1. Shift(k, inx) \in 1..n /\ nob[k] = ob[Shift(k, inx)]
    BY <1>1
  <2>2. ob[Shift(k, inx)].mod # ob[inx].mod
    BY <1>1
  <2>3. QED
    BY <2>1, <2>2 DEF Objs
<1>7. ASSUME NEW k \in 1..n, ob[k].mod # ob[inx].mod
      PROVE  ob[k] \in T
  <2>1. k # inx
    BY <1>7
  <2>2. PICK l \in 1..(n - 1) : k = Shift(l, inx)
    BY <1>3, <2>1
  <2>3. nob[l] = ob[k]
    BY <1>1, <2>2
  <2>4. QED
    BY <2>3 DEF Objs
<1>8. T = R
  <2>1. \A p \in T : p \in R
    BY <1>6 DEF Objs
  <2>2. \A p \in R : p \in T
    BY <1>7 DEF Objs
  <2> HIDE DEF T, R
  <2>3. QED
    BY <2>1, <2>2
<1>9. QED
  BY <1>1, <1>4, <1>5, <1>8 DEF Shifted

\* do_del makes tables for the objects without the one in place inx.
Deleted(names, files, ob, m, inx, names2, files2, nob) ==
  /\ inx = Index(files, m) /\ inx <= Len(files)
  /\ names2 = [s \in Symbols |-> IF names[s] = inx THEN NOLIB
                                 ELSE IF names[s] > inx THEN names[s] - 1 ELSE names[s]]
  /\ files2 = [k \in 1..(Len(files) - 1) |-> IF k < inx THEN files[k] ELSE files[k + 1]]
  /\ nob = [k \in 1..(Len(files) - 1) |-> IF k < inx THEN ob[k] ELSE ob[k + 1]]

LEMMA DeleteTables ==
  ASSUME NEW names, NEW files, NEW ob, Tables(names, files, {}, ob), NEW m,
         NEW inx, NEW names2, NEW files2, NEW nob,
         Deleted(names, files, ob, m, inx, names2, files2, nob)
  PROVE  /\ Tables(names2, files2, {}, nob) /\ Len(files2) = Len(files) - 1
         /\ StepTo(Objs(ob, Len(files)), Objs(nob, Len(files) - 1))
<1> DEFINE n == Len(files)
<1>1. n \in Nat /\ inx \in 1..n
  <2>1. n \in Nat /\ inx \in 1..(n + 1)
    BY IndexIs DEF Deleted
  <2>2. inx <= n
    BY DEF Deleted
  <2> HIDE DEF n
  <2>3. QED
    BY <2>1, <2>2
<1>2. /\ \A s \in Symbols : names2[s] = IF names[s] = inx THEN 0
                                        ELSE IF names[s] > inx THEN names[s] - 1 ELSE names[s]
      /\ \A k \in 1..(n - 1) : files2[k] = files[Shift(k, inx)]
      /\ files2 = [k \in 1..(n - 1) |-> files2[k]]
  BY DEF Deleted, NOLIB, Shift
<1>3. nob = [k \in 1..(n - 1) |-> IF k < inx THEN ob[k] ELSE ob[k + 1]]
  BY DEF Deleted
<1>4. n <= FILEMAX /\ FILEMAX \in Nat /\ Indexed(names, ob, n)
  BY ArchiveAssumption DEF Tables
<1>5. \A k \in 1..n : /\ Four(files[k], files[k])
                      /\ files[k].name = ob[k].mod /\ files[k].length = ob[k].len
                      /\ Source(files[k], ob[k], {})
  BY DEF Tables
<1> HIDE DEF n
<1>6. Shifted(n, ob, inx, nob)
  <2>1. Removed(n, ob, inx, nob)
    BY <1>1, <1>3, <1>4 DEF Removed, Indexed
  <2>2. QED
    BY <2>1, RemoveObject
<1>7. Indexed(names2, nob, n - 1)
  <2>1. ASSUME NEW s \in Symbols
        PROVE  /\ names2[s] \in 0..(n - 1)
               /\ \A k \in 1..(n - 1) : names2[s] = k <=> s \in DefinedBy(nob[k])
    <3>1. names[s] \in 0..n /\ \A k \in 1..n : names[s] = k <=> s \in DefinedBy(ob[k])
      BY <1>4 DEF Indexed
    <3>2. names2[s] = IF names[s] = inx THEN 0
                      ELSE IF names[s] > inx THEN names[s] - 1 ELSE names[s]
      BY <1>2
    <3>3. names2[s] \in 0..(n - 1)
      BY <1>1, <3>1, <3>2
    <3>4. ASSUME NEW k \in 1..(n - 1)
          PROVE  names2[s] = k <=> s \in DefinedBy(nob[k])
      <4>1. Shift(k, inx) \in 1..n /\ nob[k] = ob[Shift(k, inx)]
        BY <1>6 DEF Shifted
      <4>2. names2[s] = k <=> names[s] = Shift(k, inx)
        BY <1>1, <3>1, <3>2 DEF Shift
      <4>3. QED
        BY <3>1, <4>1, <4>2
    <3>5. QED
      BY <3>3, <3>4
  <2>2. QED
    BY <1>6, <2>1 DEF Indexed, Shifted
<1>8. Row(files2) /\ Len(files2) = n - 1 /\ n - 1 <= FILEMAX
  <2>1. n - 1 \in Nat /\ n - 1 <= FILEMAX
    BY <1>1, <1>4
  <2>2. QED
    BY <1>2, <2>1, RowMade
<1>9. \A k \in 1..(n - 1) : /\ Four(files2[k], files2[k])
                            /\ files2[k].name = nob[k].mod /\ files2[k].length = nob[k].len
                            /\ Source(files2[k], nob[k], {})
  <2> SUFFICES ASSUME NEW k \in 1..(n - 1)
               PROVE  /\ Four(files2[k], files2[k])
                      /\ files2[k].name = nob[k].mod /\ files2[k].length = nob[k].len
                      /\ Source(files2[k], nob[k], {})
    OBVIOUS
  <2>1. Shift(k, inx) \in 1..n /\ nob[k] = ob[Shift(k, inx)] /\ files2[k] = files[Shift(k, inx)]
    BY <1>2, <1>6 DEF Shifted
  <2>2. QED
    BY <1>5, <2>1
<1>10. Tables(names2, files2, {}, nob)
  BY <1>7, <1>8, <1>9 DEF Tables
<1>11. StepTo(Objs(ob, n), Objs(nob, n - 1))
  <2>1. Objs(nob, n - 1) = {p \in Objs(ob, n) : p.mod # ob[inx].mod}
    BY <1>6 DEF Shifted
  <2>2. ob[inx] \in Objects
    BY <1>1, <1>4 DEF Indexed
  <2>3. QED
    BY <2>1, <2>2 DEF StepTo
<1>12. QED
  BY <1>8, <1>10, <1>11 DEF n

LEMMA DeleteStep ==
  ASSUME FitsInWords, AInv, Usable, NEW m, do_del(m)
  PROVE  AInv'
<1>1. PICK ob : /\ Tables(Loaded.names, Loaded.files, {}, ob)
                /\ Contents = Objs(ob, Len(Loaded.files))
  <2>1. olb # <<>> => Good(olb[1])
    BY DEF AInv
  <2>2. QED
    BY <2>1, LoadedIs
<1> DEFINE names == Loaded.names
           files == Loaded.files
           inx == Index(files, m)
           names2 == [s \in Symbols |-> IF names[s] = inx THEN NOLIB
                                        ELSE IF names[s] > inx THEN names[s] - 1 ELSE names[s]]
           files2 == [k \in 1..(Len(files) - 1) |-> IF k < inx THEN files[k] ELSE files[k + 1]]
           nob == [k \in 1..(Len(files) - 1) |-> IF k < inx THEN ob[k] ELSE ob[k + 1]]
<1>2. Build([names |-> names2, files |-> WithOffsets(files2), obj |-> {}, next |-> 1])
  BY DEF do_del
<1>3. Deleted(names, files, ob, m, inx, names2, files2, nob)
  BY DEF do_del, Deleted
<1>4. Tables(names, files, {}, ob) /\ Contents = Objs(ob, Len(files))
  BY <1>1
<1> HIDE DEF inx, names2, files2, names, files, nob
<1>5. /\ Tables(names2, files2, {}, nob) /\ Len(files2) = Len(files) - 1
      /\ StepTo(Objs(ob, Len(files)), Objs(nob, Len(files) - 1))
  BY <1>3, <1>4, DeleteTables
<1>6. StepTo(Contents, Objs(nob, Len(files2)))
  BY <1>4, <1>5
<1>7. QED
  BY <1>2, <1>5, <1>6, BuildStep

\* What do_ext writes is the module.
LEMMA ExtractStep ==
  ASSUME AInv, Usable, NEW m \in Modules, do_ext(m)
  PROVE  AInv'
<1> DEFINE files == Loaded.files
           inx == Index(files, m)
           e == files[inx]
<1>1. PICK ob : /\ Tables(Loaded.names, files, {}, ob)
                /\ \A k \in 1..Len(files) : files[k].oldofs # 0 /\ files[k].offset = files[k].oldofs
  <2>1. olb # <<>> => Good(olb[1])
    BY DEF AInv
  <2>2. QED
    BY <2>1, LoadedIs
<1>2. /\ inx <= Len(files) /\ UNCHANGED <<olb, bak, tmp, pc, mem, pos>>
      /\ ext' = [mod |-> m, cells |-> ReadAt(olb[1], Seeked(AfterTables, e.offset), e.length)]
  BY DEF do_ext
<1> HIDE DEF files
<1>3. inx \in 1..Len(files) /\ ob[inx].mod = m
  <2>1. Len(files) \in Nat /\ inx \in 1..(Len(files) + 1)
    BY <1>1, IndexIs
  <2>2. inx \in 1..Len(files)
    BY <1>2, <2>1
  <2>3. \A k \in 1..Len(files) : ob[k].mod = m <=> k = inx
    BY <1>1, IndexIs
  <2> HIDE DEF inx
  <2>4. QED
    BY <2>2, <2>3
<1> HIDE DEF inx
<1>4. /\ ob[inx] \in Objects /\ e.length = ob[inx].len
      /\ e.offset \in Nat /\ Current # <<>>
      /\ ReadAt(Current[1], e.offset, ob[inx].len) = Body(ob[inx])
  BY <1>1, <1>3 DEF Tables, Indexed, Source
<1>5. Current = olb
  BY <1>4 DEF Current, Usable
<1> HIDE DEF e
<1>6. Seeked(AfterTables, e.offset) = e.offset
  BY <1>4 DEF Seeked
<1>7. ext'.mod = ob[inx].mod /\ ext'.cells = Body(ob[inx])
  BY <1>2, <1>3, <1>4, <1>5, <1>6
<1>8. ExtractFaithful'
  BY <1>4, <1>7 DEF ExtractFaithful
<1>9. Current' = Current /\ Contents' = Contents
  BY <1>2, DiskUnchanged
<1>10. QED
  BY <1>2, <1>8, <1>9 DEF AInv, Building, Plan, MemShape, Copied, End

-----------------------------------------------------------------------------
(* Writing the new library                                                 *)

LEMMA RowConcat ==
  ASSUME NEW s, Row(s), NEW t, Row(t)
  PROVE  /\ Row(s \o t) /\ Len(s \o t) = Len(s) + Len(t)
         /\ \A k \in 1..Len(s) : (s \o t)[k] = s[k]
         /\ \A k \in 1..Len(t) : (s \o t)[Len(s) + k] = t[k]
<1> DEFINE S == {s[k] : k \in DOMAIN s}
           T == {t[k] : k \in DOMAIN t}
           c == s \o t
<1>1. s \in Seq(S) /\ t \in Seq(T)
  BY DEF Row
<1> HIDE DEF S, T
<1>2. s \in Seq(S \cup T) /\ t \in Seq(S \cup T)
  BY <1>1
<1> DEFINE U == S \cup T
<1> HIDE DEF U
<1>3. s \in Seq(U) /\ t \in Seq(U)
  BY <1>2 DEF U
<1>4. /\ c \in Seq(U) /\ Len(c) = Len(s) + Len(t)
      /\ Len(s) \in Nat /\ Len(t) \in Nat
  BY <1>3
<1>5. \A k \in 1..Len(s) : c[k] = s[k]
  BY <1>3
<1>6. \A k \in 1..Len(t) : c[Len(s) + k] = t[k]
  BY <1>3
<1> HIDE DEF c
<1>7. c = [k \in 1..Len(c) |-> c[k]] /\ Len(c) \in Nat
  BY <1>4
<1>8. Row(c)
  BY <1>7, RowMade
<1>9. QED
  BY <1>4, <1>5, <1>6, <1>8 DEF c

LEMMA CurrentContents ==
  ASSUME Current' = Current
  PROVE  Contents' = Contents
BY DEF Contents

\* The plan does not depend on the files other than through the library its
\* users see.
LEMMA PlanKept ==
  ASSUME NEW ob, Plan(ob), Current' = Current, UNCHANGED mem
  PROVE  Plan(ob)'
<1>1. Contents' = Contents
  BY CurrentContents
<1>2. QED
  BY <1>1 DEF Plan, MemShape, End

LEMMA WriteoutStep ==
  ASSUME AInv, Writeout
  PROVE  AInv'
<1>1. /\ pc = "build" /\ tmp' = <<OnDisk(mem)>> /\ pc' = "copy"
      /\ UNCHANGED <<olb, bak, mem, pos, ext>>
  BY DEF Writeout
<1>2. PICK ob : Plan(ob) /\ mem.next = 1
  BY <1>1 DEF AInv, Building
<1> DEFINE t == tmp'[1]
           n == Len(mem.files)
           d == OnDisk(mem)
<1>3. t = d /\ tmp' # <<>>
  BY <1>1
<1>4. Row(mem.files) /\ Indexed(mem.names, ob, n)
  BY <1>2 DEF Plan
<1>5. n \in Nat /\ DOMAIN mem.files = 1..n
  BY <1>4, RowLen
<1>6. /\ d.names = mem.names /\ d.cells = <<>>
      /\ d.files = [k \in 1..n |->
           [name |-> mem.files[k].name, length |-> mem.files[k].length % WORD,
            offset |-> mem.files[k].offset % WORD]]
      /\ FileShape(d)
  BY <1>5 DEF OnDisk, FileShape
<1> HIDE DEF d
<1>7. ASSUME NEW k \in 1..n
      PROVE  mem.files[k].length % WORD = mem.files[k].length
             /\ mem.files[k].offset % WORD = mem.files[k].offset
  <2>1. Entry(mem.files[k], ob[k], DataStart(n))
    BY <1>2 DEF Plan
  <2>2. ob[k].len \in Nat /\ HALF \in Int
    BY <1>4, ObjectsAssumption, ByteAssumption DEF Indexed, HALF, WORD
  <2>3. /\ mem.files[k].length \in Nat /\ mem.files[k].length < HALF
        /\ mem.files[k].offset \in Nat /\ mem.files[k].offset < HALF
    BY <2>1, <2>2 DEF Entry
  <2>4. QED
    BY <2>3, SmallWords
<1>8. \A k \in 1..n : /\ d.files[k].name = mem.files[k].name
                      /\ d.files[k].length = mem.files[k].length
                      /\ d.files[k].offset = mem.files[k].offset
  BY <1>6, <1>7
<1>9. Row(d.files) /\ Len(d.files) = n
  <2> DEFINE f == d.files
  <2>1. f = [k \in 1..n |-> f[k]]
    BY <1>6
  <2> HIDE DEF f
  <2>2. Row(f) /\ Len(f) = n
    BY <1>5, <2>1, RowMade
  <2>3. QED
    BY <2>2 DEF f
<1>10. Row(d.cells) /\ Len(d.cells) = 0
  <2> DEFINE c == d.cells
  <2>1. c = [k \in 1..0 |-> c[k]]
    BY <1>6
  <2> HIDE DEF c
  <2>2. Row(c) /\ Len(c) = 0
    BY <2>1, RowMade
  <2>3. QED
    BY <2>2 DEF c
<1>11. DataStart(n) \in Nat
  BY <1>5, DataStartNat
<1>12. Copied(ob)'
  <2>1. 1 \in 1..(n + 1) /\ 1..(1 - 1) = {} /\ DataStart(n) + 0 = DataStart(n)
    BY <1>5, <1>11
  <2>2. mem' = mem
    BY <1>1
  <2>3. QED
    BY <1>2, <1>3, <1>6, <1>8, <1>9, <1>10, <2>1, <2>2 DEF Copied
<1>13. Current' = Current
  BY <1>1 DEF Current
<1>14. Plan(ob)'
  BY <1>1, <1>2, <1>13, PlanKept
<1>15. QED
  BY <1>1, <1>12, <1>14 DEF AInv, Building, ExtractFaithful

\* The objects the plan is for, and where the next one goes.
LEMMA NextCells ==
  ASSUME NEW ob, Plan(ob), Copied(ob), mem.next <= Len(mem.files),
         olb # <<>> \/ bak = <<>>, NEW e, e = mem.files[mem.next], NEW cells,
         cells = IF e.oldofs # 0 THEN ReadAt(olb[1], Seeked(pos, e.oldofs), e.length)
                 ELSE Body(CHOOSE o \in mem.obj : TRUE)
  PROVE  /\ mem.next \in 1..Len(mem.files) /\ ob[mem.next] \in Objects
         /\ cells = Body(ob[mem.next]) /\ e.length = ob[mem.next].len
         /\ DataStart(Len(mem.files)) + Len(tmp[1].cells) = e.offset
<1> DEFINE n == Len(mem.files)
           j == mem.next
           o == ob[j]
<1>1. n \in Nat
  BY RowLen DEF Plan
<1>2. j \in 1..n
  BY <1>1 DEF Copied
<1>3. /\ e.offset = IF j = 1 THEN DataStart(n) ELSE End(j - 1)
      /\ Entry(e, o, DataStart(n))
      /\ IF e.oldofs = 0 THEN mem.obj = {o}
         ELSE /\ Current # <<>> /\ e.oldofs \in Nat
              /\ ReadAt(Current[1], e.oldofs, o.len) = Body(o)
  BY <1>2 DEF Plan
<1>4. o \in Objects
  BY <1>2 DEF Plan, Indexed
<1>5. DataStart(n) + Len(tmp[1].cells) = IF j = 1 THEN DataStart(n) ELSE End(j - 1)
  BY DEF Copied
<1>6. e.length = o.len
  BY <1>3 DEF Entry
<1> HIDE DEF o
<1>7. cells = Body(o)
  <2>1. CASE e.oldofs = 0
    <3>1. (CHOOSE p \in mem.obj : TRUE) = o
      BY <1>3, <2>1
    <3>2. QED
      BY <2>1, <3>1
  <2>2. CASE e.oldofs # 0
    <3>1. Current = olb
      BY <1>3, <2>2 DEF Current
    <3>2. Seeked(pos, e.oldofs) = e.oldofs
      BY <1>3, <2>2 DEF Seeked
    <3>3. QED
      BY <1>3, <1>6, <2>2, <3>1, <3>2
  <2>3. QED
    BY <2>1, <2>2
<1>8. QED
  BY <1>2, <1>3, <1>4, <1>5, <1>6, <1>7 DEF o

LEMMA CopyStep ==
  ASSUME AInv, copy_obj
  PROVE  AInv'
<1> DEFINE n == Len(mem.files)
           j == mem.next
           e == mem.files[j]
           cells == IF e.oldofs # 0 THEN ReadAt(olb[1], Seeked(pos, e.oldofs), e.length)
                    ELSE Body(CHOOSE o \in mem.obj : TRUE)
           t == tmp[1]
           data == DataStart(n)
<1>1. /\ pc = "copy" /\ j <= n /\ UNCHANGED <<olb, bak, pc, ext>>
      /\ tmp' = <<[t EXCEPT !.cells = t.cells \o cells]>>
      /\ mem' = [mem EXCEPT !.next = mem.next + 1]
  BY DEF copy_obj
<1>2. PICK ob : Plan(ob) /\ Copied(ob)
  BY <1>1 DEF AInv, Building
<1>3. olb # <<>> \/ bak = <<>>
  BY <1>1 DEF AInv, Building
<1> DEFINE o == ob[j]
<1>4. /\ cells = IF e.oldofs # 0 THEN ReadAt(olb[1], Seeked(pos, e.oldofs), e.length)
                 ELSE Body(CHOOSE p \in mem.obj : TRUE)
      /\ e = mem.files[mem.next]
  OBVIOUS
<1> HIDE DEF cells, e
<1>5. j \in 1..n /\ o \in Objects /\ cells = Body(o) /\ e.length = o.len /\ data + Len(t.cells) = e.offset
  BY <1>1, <1>2, <1>3, <1>4, NextCells
<1>6. /\ mem'.names = mem.names /\ mem'.files = mem.files /\ mem'.obj = mem.obj
      /\ mem'.next = j + 1 /\ MemShape'
  <2>1. MemShape
    BY <1>2 DEF Plan
  <2> DEFINE a == mem.names
             b == mem.files
             c == mem.obj
             d == mem.next
  <2>2. mem = [names |-> a, files |-> b, obj |-> c, next |-> d]
    BY <2>1 DEF MemShape
  <2>3. mem' = [mem EXCEPT !.next = d + 1]
    BY <1>1
  <2> HIDE DEF a, b, c, d
  <2>4. mem' = [names |-> a, files |-> b, obj |-> c, next |-> d + 1]
    BY <2>2, <2>3
  <2>5. mem'.names = a /\ mem'.files = b /\ mem'.obj = c /\ mem'.next = d + 1
    BY <2>4
  <2>6. MemShape'
    BY <2>4, <2>5 DEF MemShape
  <2>7. QED
    BY <2>5, <2>6 DEF a, b, c, d
<1> DEFINE u == tmp'[1]
<1>7. /\ u.names = t.names /\ u.files = t.files /\ u.cells = t.cells \o Body(o)
      /\ FileShape(u) /\ tmp' # <<>>
  <2>1. FileShape(t)
    BY <1>2 DEF Copied
  <2>2. u = [t EXCEPT !.cells = t.cells \o Body(o)] /\ tmp' # <<>>
    BY <1>1, <1>5
  <2> DEFINE a == t.names
             b == t.files
             c == t.cells
             v == c \o Body(o)
  <2>3. t = [names |-> a, files |-> b, cells |-> c]
    BY <2>1 DEF FileShape
  <2>4. u = [t EXCEPT !.cells = v]
    BY <2>2
  <2> HIDE DEF a, b, c, v, t, u
  <2>5. u = [names |-> a, files |-> b, cells |-> v]
    BY <2>3, <2>4
  <2>6. u.names = a /\ u.files = b /\ u.cells = v
    BY <2>5
  <2>7. FileShape(u)
    BY <2>5, <2>6 DEF FileShape
  <2>8. QED
    BY <2>2, <2>6, <2>7 DEF a, b, c, v
<1>8. /\ Row(t.files) /\ Len(t.files) = n /\ Row(t.cells) /\ t.names = mem.names
      /\ \A k \in 1..n : /\ t.files[k].name = mem.files[k].name
                         /\ t.files[k].length = mem.files[k].length
                         /\ t.files[k].offset = mem.files[k].offset
      /\ \A k \in 1..(j - 1) :
           /\ End(k) <= data + Len(t.cells)
           /\ \A x \in 1..ob[k].len : t.cells[mem.files[k].offset - data + x] = Body(ob[k])[x]
  BY <1>2 DEF Copied
<1>9. n \in Nat /\ data \in Nat /\ Len(t.cells) \in Nat
  BY <1>2, <1>8, RowLen, DataStartNat DEF Plan
<1>10. Row(Body(o)) /\ Len(Body(o)) = o.len /\ o.len \in Nat \ {0}
  BY <1>5, BodyRow
<1>11. /\ Row(u.cells) /\ Len(u.cells) = Len(t.cells) + o.len
       /\ \A k \in 1..Len(t.cells) : u.cells[k] = t.cells[k]
       /\ \A k \in 1..o.len : u.cells[Len(t.cells) + k] = Body(o)[k]
  <2> DEFINE c == t.cells
             b == Body(o)
  <2>1. Row(c) /\ Row(b) /\ Len(b) = o.len
    BY <1>8, <1>10
  <2> HIDE DEF c, b
  <2>2. /\ Row(c \o b) /\ Len(c \o b) = Len(c) + Len(b)
        /\ \A k \in 1..Len(c) : (c \o b)[k] = c[k]
        /\ \A k \in 1..Len(b) : (c \o b)[Len(c) + k] = b[k]
    BY <2>1, RowConcat, SMTT(60)
  <2>3. u.cells = c \o b
    BY <1>7 DEF c, b
  <2>4. QED
    BY <2>1, <2>2, <2>3 DEF c, b
<1> HIDE DEF u, t
<1>12. End(j) = e.offset + o.len /\ End(j) = data + Len(u.cells)
  BY <1>5, <1>9, <1>10, <1>11 DEF End, e
<1>13. ASSUME NEW k \in 1..j
       PROVE  /\ End(k) <= data + Len(u.cells)
              /\ \A x \in 1..ob[k].len : u.cells[mem.files[k].offset - data + x] = Body(ob[k])[x]
  <2>1. CASE k = j
    <3>1. mem.files[k].offset - data = Len(t.cells) /\ ob[k] = o
      BY <1>5, <1>9, <2>1 DEF e
    <3>2. End(k) <= data + Len(u.cells)
      BY <1>9, <1>10, <1>11, <1>12, <2>1
    <3>3. QED
      BY <1>11, <3>1, <3>2
  <2>2. CASE k # j
    <3>1. k \in 1..(j - 1) /\ k \in 1..n
      BY <1>5, <1>9, <2>2
    <3>2. Entry(mem.files[k], ob[k], data) /\ ob[k] \in Objects
      BY <1>2, <3>1 DEF Plan, Indexed
    <3>3. /\ mem.files[k].offset \in Nat /\ data <= mem.files[k].offset /\ ob[k].len \in Nat
          /\ End(k) = mem.files[k].offset + ob[k].len
      BY <3>2, ObjectsAssumption DEF Entry, End
    <3>4. End(k) <= data + Len(t.cells)
      BY <1>8, <3>1
    <3>5. ASSUME NEW x \in 1..ob[k].len
          PROVE  u.cells[mem.files[k].offset - data + x] = Body(ob[k])[x]
      <4>1. mem.files[k].offset - data + x \in 1..Len(t.cells)
        <5> DEFINE a == mem.files[k].offset
                   b == ob[k].len
                   c == Len(t.cells)
        <5>1. a \in Nat /\ data <= a /\ b \in Nat /\ a + b <= data + c /\ x \in 1..b
          BY <3>3, <3>4
        <5>2. data \in Nat /\ c \in Nat
          BY <1>9
        <5> HIDE DEF a, b, c, data
        <5>3. a - data + x \in 1..c
          BY <5>1, <5>2
        <5>4. QED
          BY <5>3 DEF a, c
      <4>2. t.cells[mem.files[k].offset - data + x] = Body(ob[k])[x]
        BY <1>8, <3>1
      <4>3. QED
        BY <1>11, <4>1, <4>2
    <3>6. End(k) <= data + Len(u.cells)
      <4>1. Len(u.cells) = Len(t.cells) + o.len
        BY <1>11
      <4>2. End(k) \in Int
        BY <3>3
      <4> HIDE DEF data, o
      <4>3. QED
        BY <1>9, <1>10, <3>4, <4>1, <4>2
    <3>7. QED
      BY <3>5, <3>6
  <2>3. QED
    BY <2>1, <2>2
<1>14. \A k : End(k)' = End(k)
  BY <1>6 DEF End
<1>15. j + 1 \in 1..(n + 1) /\ (j + 1) - 1 = j /\ j + 1 # 1
  BY <1>5, <1>9
<1>16. Copied(ob)'
  <2>1. /\ tmp' # <<>> /\ FileShape(u) /\ u.names = mem'.names
        /\ Row(u.files) /\ Len(u.files) = n /\ Row(u.cells)
    BY <1>6, <1>7, <1>8, <1>11
  <2>2. \A k \in 1..n : /\ u.files[k].name = mem'.files[k].name
                        /\ u.files[k].length = mem'.files[k].length
                        /\ u.files[k].offset = mem'.files[k].offset
    BY <1>6, <1>7, <1>8
  <2>3. mem'.next \in 1..(n + 1) /\ mem'.next # 1 /\ mem'.next - 1 = j
    BY <1>6, <1>15
  <2>4. data + Len(u.cells) = IF mem'.next = 1 THEN data ELSE End(mem.next - 1)'
    BY <1>12, <1>14, <2>3
  <2>5. \A k \in 1..(mem'.next - 1) :
          /\ End(k)' <= data + Len(u.cells)
          /\ \A x \in 1..ob[k].len : u.cells[mem'.files[k].offset - data + x] = Body(ob[k])[x]
    BY <1>6, <1>13, <1>14, <2>3
  <2>6. Len(mem'.files) = n
    BY <1>6
  <2>7. QED
    BY <2>1, <2>2, <2>3, <2>4, <2>5, <2>6 DEF Copied, u
<1>17. Current' = Current
  BY <1>1 DEF Current
<1>18. Contents' = Contents
  BY <1>17, CurrentContents
<1>19. Plan(ob)'
  BY <1>2, <1>6, <1>14, <1>17, <1>18 DEF Plan
<1>20. QED
  BY <1>1, <1>3, <1>16, <1>19 DEF AInv, Building, ExtractFaithful

\* The two renames: while the names change, the backup is the library.
LEMMA UnlinkBakStep ==
  ASSUME AInv, UnlinkBak
  PROVE  AInv' /\ Current' = Current
<1>1. /\ pc = "copy" /\ mem.next > Len(mem.files) /\ bak' = <<>> /\ pc' = "keep"
      /\ UNCHANGED <<olb, tmp, mem, pos, ext>>
  BY DEF UnlinkBak
<1>2. PICK ob : Plan(ob) /\ Copied(ob)
  BY <1>1 DEF AInv, Building
<1>3. mem.next = Len(mem.files) + 1
  <2>1. Len(mem.files) \in Nat /\ mem.next \in 1..(Len(mem.files) + 1)
    BY <1>2, RowLen DEF Plan, Copied
  <2>2. QED
    BY <1>1, <2>1
<1>4. Current' = Current
  BY <1>1 DEF AInv, Building, Current
<1>5. Plan(ob)'
  BY <1>1, <1>2, <1>4, PlanKept
<1>6. Copied(ob)'
  BY <1>1, <1>2 DEF Copied, End
<1>7. QED
  BY <1>1, <1>3, <1>4, <1>5, <1>6 DEF AInv, Building, ExtractFaithful

LEMMA RenameOlbStep ==
  ASSUME AInv, RenameOlb
  PROVE  AInv' /\ Current' = Current
<1>1. /\ pc = "keep" /\ pc' = "install" /\ UNCHANGED <<tmp, mem, pos, ext>>
      /\ IF olb = <<>> THEN UNCHANGED <<olb, bak>> ELSE bak' = olb /\ olb' = <<>>
  BY DEF RenameOlb
<1>2. PICK ob : Plan(ob) /\ Copied(ob) /\ mem.next = Len(mem.files) + 1
  BY <1>1 DEF AInv, Building
<1>3. bak = <<>>
  BY <1>1 DEF AInv, Building
<1>4. Current' = Current
  BY <1>1, <1>3 DEF Current
<1>5. Plan(ob)'
  BY <1>1, <1>2, <1>4, PlanKept
<1>6. Copied(ob)'
  BY <1>1, <1>2 DEF Copied, End
<1>7. olb' = <<>> /\ (bak' # <<>> => Good(bak[1])')
  <2>1. CASE olb = <<>>
    BY <1>1, <1>3, <2>1
  <2>2. CASE olb # <<>>
    <3>1. Good(olb[1]) /\ bak' = olb
      BY <1>1, <2>2 DEF AInv
    <3>2. QED
      BY <1>1, <2>2, <3>1
  <2>3. QED
    BY <2>1, <2>2
<1>8. QED
  BY <1>1, <1>2, <1>4, <1>5, <1>6, <1>7 DEF AInv, Building, ExtractFaithful

LEMMA RenameTmpStep ==
  ASSUME AInv, RenameTmp
  PROVE  AInv' /\ StepTo(Contents, Contents')
<1>1. /\ pc = "install" /\ olb' = tmp /\ pc' = "idle" /\ UNCHANGED <<bak, ext>>
  BY DEF RenameTmp
<1>2. PICK ob : Plan(ob) /\ Copied(ob) /\ mem.next = Len(mem.files) + 1
  BY <1>1 DEF AInv, Building
<1> DEFINE n == Len(mem.files)
           t == tmp[1]
<1>3. n \in Nat /\ n <= FILEMAX /\ Indexed(mem.names, ob, n)
  BY <1>2, RowLen DEF Plan
<1>4. mem.next - 1 = n
  BY <1>2, <1>3
<1>5. /\ tmp # <<>> /\ t.names = mem.names
      /\ Row(t.files) /\ Len(t.files) = n /\ Row(t.cells)
      /\ \A k \in 1..n : /\ t.files[k].name = mem.files[k].name
                         /\ t.files[k].length = mem.files[k].length
                         /\ t.files[k].offset = mem.files[k].offset
  BY <1>2 DEF Copied
<1>6. \A k \in 1..n :
        /\ End(k) <= DataStart(n) + Len(t.cells)
        /\ \A x \in 1..ob[k].len : t.cells[mem.files[k].offset - DataStart(n) + x] = Body(ob[k])[x]
  BY <1>2, <1>4 DEF Copied
<1>7. \A k \in 1..n : Entry(mem.files[k], ob[k], DataStart(n))
  BY <1>2 DEF Plan
<1> HIDE DEF t
<1>8. \A k \in 1..n : /\ Entry(t.files[k], ob[k], DataStart(n))
                      /\ t.files[k].offset + ob[k].len <= DataStart(n) + Len(t.cells)
                      /\ \A x \in 1..ob[k].len :
                           t.cells[t.files[k].offset - DataStart(n) + x] = Body(ob[k])[x]
  BY <1>5, <1>6, <1>7 DEF Entry, End
<1>9. Laid(t, ob)
  BY <1>3, <1>5, <1>8 DEF Laid
<1>10. olb' # <<>> /\ olb'[1] = t
  BY <1>1, <1>5 DEF t
<1>11. Good(olb[1])'
  BY <1>9, <1>10 DEF Good
<1>12. Contents' = Objs(ob, n)
  <2>1. (Current # <<>>)' /\ Current'[1] = t
    BY <1>10 DEF Current
  <2>2. Contents' = InLibrary(t)
    BY <2>1 DEF Contents, InLibrary
  <2>3. InLibrary(t) = Objs(ob, Len(t.files))
    BY <1>9, LaidHolds
  <2>4. QED
    BY <1>5, <2>2, <2>3
<1>13. StepTo(Contents, Contents')
  BY <1>2, <1>12 DEF Plan
<1>14. AInv'
  BY <1>1, <1>11 DEF AInv, Building, ExtractFaithful
<1>15. QED
  BY <1>13, <1>14

LEMMA StopStep ==
  ASSUME AInv, Crash \/ Restore
  PROVE  AInv' /\ Current' = Current
<1>1. CASE Crash
  <2>1. pc' = "idle" /\ UNCHANGED <<olb, bak, ext>>
    BY <1>1 DEF Crash
  <2>2. QED
    BY <2>1 DEF AInv, Building, ExtractFaithful, Current
<1>2. CASE Restore
  <2>1. pc' = "idle" /\ olb = <<>> /\ bak # <<>> /\ olb' = bak /\ bak' = <<>> /\ ext' = ext
    BY <1>2 DEF Restore
  <2>2. Good(olb[1])'
    BY <2>1 DEF AInv
  <2>3. QED
    BY <2>1, <2>2 DEF AInv, Building, ExtractFaithful, Current
<1>3. QED
  BY <1>1, <1>2

-----------------------------------------------------------------------------
(* The theorems                                                            *)

LEMMA InitAInv ==
  ASSUME Init
  PROVE  AInv
BY DEF Init, AInv, Building, ExtractFaithful, NoExt

LEMMA StutterStep ==
  ASSUME AInv, UNCHANGED vars
  PROVE  AInv'
<1>1. UNCHANGED <<olb, bak, tmp, pc, mem, pos, ext>>
  BY DEF vars
<1>2. Current' = Current
  BY <1>1 DEF Current
<1>3. \A ob : Plan(ob) => Plan(ob)'
  BY <1>1, <1>2, PlanKept
<1>4. \A ob : Copied(ob) => Copied(ob)'
  BY <1>1 DEF Copied, End
<1>5. Building'
  BY <1>1, <1>3, <1>4 DEF AInv, Building
<1>6. QED
  BY <1>1, <1>5 DEF AInv, ExtractFaithful

\* A step keeps the invariant and changes what the library holds only as a
\* command may: when the new library takes its name.
LEMMA NextStep ==
  ASSUME FitsInWords, AInv, [Next]_vars
  PROVE  AInv' /\ (Contents' = Contents \/ StepTo(Contents, Contents'))
<1>1. CASE Command
  <2>1. Usable
    BY <1>1 DEF Command
  <2>2. UNCHANGED <<olb, bak>>
    BY <1>1 DEF Command, do_cre, do_add, do_addRefused, do_del, do_ext, Build, vars
  <2>3. Contents' = Contents
    BY <2>2, DiskUnchanged
  <2>4. AInv'
    <3>1. CASE do_cre
      BY <2>1, <3>1, CreateStep
    <3>2. ASSUME NEW o \in Objects, do_add(o)
          PROVE  AInv'
      BY <2>1, <3>2, AddStep
    <3>3. ASSUME NEW o \in Objects, do_addRefused(o)
          PROVE  AInv'
      <4>1. UNCHANGED vars
        BY <3>3 DEF do_addRefused
      <4>2. QED
        BY <4>1, StutterStep
    <3>4. ASSUME NEW m \in Modules, do_del(m)
          PROVE  AInv'
      BY <2>1, <3>4, DeleteStep
    <3>5. ASSUME NEW m \in Modules, do_ext(m)
          PROVE  AInv'
      BY <2>1, <3>5, ExtractStep
    <3>6. QED
      BY <1>1, <3>1, <3>2, <3>3, <3>4, <3>5 DEF Command
  <2>5. QED
    BY <2>3, <2>4
<1>2. CASE Writeout \/ copy_obj
  <2>1. UNCHANGED <<olb, bak>>
    BY <1>2 DEF Writeout, copy_obj
  <2>2. QED
    BY <1>2, <2>1, DiskUnchanged, WriteoutStep, CopyStep
<1>3. CASE UnlinkBak
  BY <1>3, UnlinkBakStep, CurrentContents
<1>4. CASE RenameOlb
  BY <1>4, RenameOlbStep, CurrentContents
<1>5. CASE RenameTmp
  BY <1>5, RenameTmpStep
<1>6. CASE Crash \/ Restore
  BY <1>6, StopStep, CurrentContents
<1>7. CASE UNCHANGED vars
  <2>1. UNCHANGED <<olb, bak>>
    BY <1>7 DEF vars
  <2>2. Contents' = Contents
    BY <2>1, DiskUnchanged
  <2>3. QED
    BY <1>7, <2>2, StutterStep
<1>8. QED
  BY <1>1, <1>2, <1>3, <1>4, <1>5, <1>6, <1>7 DEF Next, Finish

LEMMA LibraryStep ==
  ASSUME Contents' = Contents \/ StepTo(Contents, Contents')
  PROVE  [L!Next]_Contents
<1> DEFINE S == Contents
           T == Contents'
<1>1. \A o : L!DefinedBy(o) = DefinedBy(o)
  BY DEF L!DefinedBy, DefinedBy
<1>2. \A m : L!Others(m) = {p \in S : p.mod # m}
  BY DEF L!Others
<1>3. ASSUME NEW o \in Objects, L!Single(o),
             \A p \in S : p.mod # o.mod => DefinedBy(p) \cap DefinedBy(o) = {},
             T = {p \in S : p.mod # o.mod} \cup {o}
      PROVE  L!Add(o)
  <2>1. \A p \in L!Others(o.mod) : L!DefinedBy(p) \cap L!DefinedBy(o) = {}
    BY <1>1, <1>2, <1>3
  <2>2. T = L!Others(o.mod) \cup {o}
    BY <1>2, <1>3
  <2>3. QED
    BY <1>3, <2>1, <2>2 DEF L!Add
<1>4. ASSUME NEW o \in Objects, T = {p \in S : p.mod # o.mod}
      PROVE  L!Delete(o.mod)
  BY <1>2, <1>4 DEF L!Delete
<1>5. ASSUME T = {}
      PROVE  L!Create
  BY <1>5 DEF L!Create
<1>6. StepTo(S, T) => L!Next
  BY <1>3, <1>4, <1>5 DEF StepTo, L!Next
<1>7. QED
  BY <1>6

\* The inductive invariant: every library on disk, the backup included, holds
\* whole objects; while a new one is written, the tables in memory plan a
\* library one command away from the old, and the temporary file is its
\* beginning.
THEOREM ArchiveInvariant ==
  ASSUME FitsInWords
  PROVE  Spec => []AInv
<1>1. Init => AInv
  BY InitAInv
<1>2. AInv /\ [Next]_vars => AInv'
  BY NextStep
<1>3. QED
  BY <1>1, <1>2, PTL DEF Spec

\* In every library that xar leaves, after any commands and crashes, the table
\* leads to whole objects and each symbol to exactly the module defining it.
THEOREM LibraryIndex ==
  ASSUME FitsInWords
  PROVE  Spec => []IndexConsistent
<1>1. AInv => IndexConsistent
  <2> SUFFICES ASSUME AInv, olb # <<>>
               PROVE  IndexConsistent
    BY DEF IndexConsistent
  <2> DEFINE l == olb[1]
             n == Len(l.files)
  <2>1. PICK ob : Laid(l, ob)
    BY DEF AInv, Good
  <2>2. DOMAIN l.files = 1..n /\ Indexed(l.names, ob, n)
    BY <2>1, RowLen DEF Laid
  <2>3. \A k \in 1..n : ob[k] \in Objects /\ Holds(l, k, ob[k])
    BY <2>1, LaidReads
  <2> HIDE DEF l
  <2>4. /\ \A s \in Symbols : l.names[s] \in 0..n
        /\ \A k \in 1..n : \A s \in Symbols : l.names[s] = k <=> s \in DefinedBy(ob[k])
    BY <2>2 DEF Indexed
  <2>5. QED
    BY <2>2, <2>3, <2>4 DEF IndexConsistent, l
<1>2. QED
  BY <1>1, ArchiveInvariant, PTL

\* The object file that do_ext writes is the module of that name, byte by byte.
THEOREM ExtractsModule ==
  ASSUME FitsInWords
  PROVE  Spec => []ExtractFaithful
<1>1. AInv => ExtractFaithful
  BY DEF AInv
<1>2. QED
  BY <1>1, ArchiveInvariant, PTL

\* xar implements Library: whatever is killed and when, its users see the set
\* of modules before the command or after it.
THEOREM ArchiveImplementsLibrary ==
  ASSUME FitsInWords
  PROVE  Spec => ImplementsLibrary
<1>1. Init => L!Init
  BY DEF Init, L!Init, Contents, Current
<1>2. AInv /\ [Next]_vars => [L!Next]_Contents
  BY NextStep, LibraryStep
<1>3. QED
  BY <1>1, <1>2, ArchiveInvariant, PTL DEF Spec, ImplementsLibrary, L!Spec
=============================================================================
