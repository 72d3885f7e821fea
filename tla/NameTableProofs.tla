-------------------------- MODULE NameTableProofs --------------------------
(* Proofs about the identifier table, for every table size and alphabet.   *)
EXTENDS NameTable, FiniteSetTheorems, TLAPS

\* Multiplication facts the probe arithmetic needs.
LEMMA AtLeastOnce ==
  ASSUME NEW n \in Nat \ {0}, NEW d \in Int, d >= 1
  PROVE  n * d >= n
  OBVIOUS

\* The remainder is determined by any quotient that leaves one below n.
LEMMA ModUnique ==
  ASSUME NEW n \in Nat \ {0}, NEW q \in Int, NEW r \in 0..(n - 1)
  PROVE  (n * q + r) % n = r
<1> DEFINE a == n * q + r
           p == a \div n
           m == a % n
<1>1. a \in Int /\ p \in Int /\ m \in 0..(n - 1) /\ a = n * p + m
  OBVIOUS
<1>2. n * (q - p) = m - r
  BY <1>1
<1>3. q - p < 1
  BY <1>1, <1>2, AtLeastOnce
<1>4. p - q < 1
  <2>1. n * (p - q) = r - m
    BY <1>1
  <2>2. QED
    BY <1>1, <2>1, AtLeastOnce
<1>5. QED
  BY <1>1, <1>3, <1>4

LEMMA ProbeType ==
  ASSUME NEW t \in Nat, NEW c \in Nat, NEW i \in Nat
  PROVE  ProbeSlot(t, c, i) \in Slot
<1>1. c * c \in Nat /\ i * c \in Nat
  OBVIOUS
<1>2. QED
  BY <1>1, SizeAssumption DEF ProbeSlot, Slot

\* hash += *ident; if (hash >= NAMEMAX) hash -= NAMEMAX: the next attempt.
LEMMA ProbeNext ==
  ASSUME NEW t \in Nat, NEW c \in Chars, NEW i \in Nat
  PROVE  Wrap(ProbeSlot(t, c, i) + c) = ProbeSlot(t, c, i + 1)
<1> DEFINE a == t + c * c + i * c
           q == a \div NAMEMAX
           r == a % NAMEMAX
<1>1. c \in 1..(NAMEMAX - 1) /\ NAMEMAX \in Nat \ {0}
  BY CharsAssumption, SizeAssumption
<1>2. c * c \in Nat /\ i * c \in Nat /\ (i + 1) * c = i * c + c
  BY <1>1
<1>3. a \in Int /\ t + c * c + (i + 1) * c = a + c
  BY <1>1, <1>2
<1> HIDE DEF a
<1>4. q \in Int /\ r \in 0..(NAMEMAX - 1) /\ a = NAMEMAX * q + r
  BY <1>1, <1>3
<1> HIDE DEF q, r
<1>5. CASE r + c < NAMEMAX
  <2>1. a + c = NAMEMAX * q + (r + c) /\ r + c \in 0..(NAMEMAX - 1)
    BY <1>1, <1>4, <1>5
  <2>2. (a + c) % NAMEMAX = r + c
    BY <1>1, <1>4, <2>1, ModUnique
  <2>3. QED
    BY <1>1, <1>3, <1>4, <1>5, <2>2 DEF ProbeSlot, Wrap, a, r
<1>6. CASE r + c >= NAMEMAX
  <2>1. a + c = NAMEMAX * (q + 1) + (r + c - NAMEMAX)
    BY <1>1, <1>4
  <2>2. r + c - NAMEMAX \in 0..(NAMEMAX - 1)
    BY <1>1, <1>4, <1>6
  <2>3. (a + c) % NAMEMAX = r + c - NAMEMAX
    <3>1. q + 1 \in Int
      BY <1>4
    <3>2. (NAMEMAX * (q + 1) + (r + c - NAMEMAX)) % NAMEMAX = r + c - NAMEMAX
      BY <1>1, <2>2, <3>1, ModUnique
    <3>3. QED
      BY <2>1, <3>2
  <2>4. QED
    BY <1>1, <1>3, <1>4, <1>6, <2>3 DEF ProbeSlot, Wrap, a, r
<1>7. QED
  BY <1>1, <1>4, <1>5, <1>6

LEMMA ProbeFirst ==
  ASSUME NEW t \in Nat, NEW c \in Nat
  PROVE  (t + c * c) % NAMEMAX = ProbeSlot(t, c, 0)
<1>1. c * c \in Nat /\ 0 * c = 0
  OBVIOUS
<1>2. t + c * c + 0 * c = t + c * c
  BY <1>1
<1>3. QED
  BY <1>2 DEF ProbeSlot

\* Reading one more character of the argument.
LEMMA Prefix ==
  ASSUME NEW id \in Seq(Chars), NEW n \in Nat, n < Len(id)
  PROVE  SubSeq(id, 1, n + 1) = Append(SubSeq(id, 1, n), id[n + 1])
  OBVIOUS

LEMMA AppendInjective ==
  \A x, y \in Seq(Chars), c, d \in Chars :
    Append(x, c) = Append(y, d) => x = y /\ c = d
<1> SUFFICES ASSUME NEW x \in Seq(Chars), NEW y \in Seq(Chars),
                    NEW c \in Chars, NEW d \in Chars,
                    Append(x, c) = Append(y, d)
             PROVE  x = y /\ c = d
  OBVIOUS
<1>1. Len(x) = Len(y)
  OBVIOUS
<1>2. c = d
  BY <1>1
<1>3. \A i \in 1..Len(x) : x[i] = Append(x, c)[i] /\ y[i] = Append(y, d)[i]
  BY <1>1
<1>4. x = y
  BY <1>1, <1>3
<1>5. QED
  BY <1>2, <1>4

-----------------------------------------------------------------------------
(***************************************************************************)
(* IInv(Nat) holds initially and every step preserves it.                  *)
(***************************************************************************)
Inv == IInv(Nat)

\* The codes are distinct numbers and no identifier is empty.
LEMMA Codes ==
  /\ NAMEMAX \in Nat \ {0} /\ 0 \in Slot
  /\ \A c \in Chars : c \in Nat /\ c # 0 /\ c # RESERVED
  /\ RESERVED \in Nat /\ RESERVED # 0
  /\ \A id \in Idents : id \in Seq(Chars) /\ id # <<>>
BY SizeAssumption, CharsAssumption, ReservedAssumption, IdentsAssumption
   DEF Slot

LEMMA InitInv == Init => Inv
<1> SUFFICES ASSUME Init PROVE Inv
  OBVIOUS
<1> USE Codes
<1>1. TypeOK
  BY DEF Init, TypeOK, Slot, NONE
<1>2. \A s \in Slot : nchar[s] \notin Chars
  BY DEF Init
<1>3. Reachable(Nat) /\ Tried(Nat) /\ Running
  BY <1>2 DEF Init, Reachable, Tried, Running
<1>4. Spelling
  BY <1>2 DEF Init, Spelling, Used
<1>5. Binding
  BY DEF Init, Binding
<1>6. QED
  BY <1>1, <1>3, <1>4, <1>5 DEF Inv, IInv

LEMMA DohashInv ==
  ASSUME Inv, NEW id \in Idents, dohash(id)
  PROVE  Inv'
<1> USE Codes DEF Inv, IInv, dohash, table
<1>1. TypeOK'
  <2>1. id \in Seq(Chars) /\ Len(id) \in Nat /\ 0 \in 0..Len(id)
    OBVIOUS
  <2>2. QED
    BY <2>1 DEF TypeOK
<1>2. Reachable(Nat)' /\ Spelling' /\ Binding' /\ Tried(Nat)'
  BY DEF Reachable, Spelling, Binding, Tried, Used
<1>3. SubSeq(id, 1, 0) = <<>>
  OBVIOUS
<1>4. Running'
  BY <1>3 DEF Running, Spelling, Used
<1>5. QED
  BY <1>1, <1>2, <1>4

LEMMA NextCharInv ==
  ASSUME Inv, NextChar
  PROVE  Inv'
<1> USE Codes DEF Inv, IInv, NextChar, table
<1>1. ident \in Idents /\ ident \in Seq(Chars) /\ len \in Nat /\ len + 1 \in 1..Len(ident)
  BY DEF TypeOK, Running
<1>2. ch \in Chars /\ ch' = ch
  BY <1>1 DEF ch
<1>3. hash' = ProbeSlot(tab, ch, 0) /\ hash' \in Slot
  <2>1. hash = tab /\ tab \in Nat /\ ch \in Nat
    BY <1>2 DEF Running, TypeOK, Slot
  <2>2. hash' = (tab + ch * ch) % NAMEMAX
    BY <2>1
  <2> HIDE DEF Inv, NextChar
  <2>3. (tab + ch * ch) % NAMEMAX = ProbeSlot(tab, ch, 0)
    BY <2>1, ProbeFirst
  <2>4. ProbeSlot(tab, ch, 0) \in Slot
    BY <2>1, ProbeType
  <2>5. QED
    BY <2>2, <2>3, <2>4
<1>4. TypeOK'
  BY <1>3 DEF TypeOK
<1>5. Reachable(Nat)' /\ Spelling' /\ Binding'
  BY DEF Reachable, Spelling, Binding, Used
<1>6. Tried(Nat)'
  <2>1. \A i \in 0..(0 - 1) : FALSE
    OBVIOUS
  <2>2. QED
    BY <1>2, <1>3, <2>1 DEF Tried
<1>7. Running'
  BY DEF Running, Used
<1>8. QED
  BY <1>4, <1>5, <1>6, <1>7

\* The slot a finished call has reached spells its argument.
LEMMA ReturnSpells ==
  ASSUME Inv, Return
  PROVE  /\ ident \in Idents /\ tab \in Slot /\ Used(tab)
         /\ spell[tab] = ident
<1> USE Codes DEF Inv, IInv, Return
<1>1. ident \in Idents /\ ident \in Seq(Chars)
  BY DEF Running
<1>2. SubSeq(ident, 1, Len(ident)) = ident
  BY <1>1
<1>3. QED
  BY <1>1, <1>2 DEF Running, TypeOK

LEMMA ReturnInv ==
  ASSUME Inv, Return
  PROVE  Inv'
<1> USE Codes DEF Inv, IInv, Return, table
<1>1. TypeOK'
  <2>1. 0 \in 0..Len(<<>>)
    OBVIOUS
  <2>2. bound' \in [Idents -> Slot \cup {NONE}]
    BY ReturnSpells DEF TypeOK
  <2>3. QED
    BY <2>1, <2>2 DEF TypeOK
<1>2. Reachable(Nat)' /\ Spelling' /\ Tried(Nat)' /\ Running'
  BY DEF Reachable, Spelling, Tried, Running, Used
<1>3. Binding'
  BY ReturnSpells DEF Binding, Used, TypeOK
<1>4. QED
  BY <1>1, <1>2, <1>3

\* What both ways of accepting a slot start from.
LEMMA Probing ==
  ASSUME Inv, pc = "probe"
  PROVE  /\ ident \in Idents /\ ident \in Seq(Chars)
         /\ len \in Nat /\ len < Len(ident) /\ ch \in Chars
         /\ hash \in Slot /\ tab \in Slot
         /\ Used(tab) /\ spell[tab] \in Seq(Chars)
         /\ Append(spell[tab], ch) = SubSeq(ident, 1, len + 1)
<1> USE Codes DEF Inv, IInv
<1>1. /\ ident \in Idents /\ ident \in Seq(Chars)
      /\ len \in Nat /\ len < Len(ident)
      /\ hash \in Slot /\ tab \in Slot /\ Used(tab)
      /\ spell[tab] \in Seq(Chars) /\ spell[tab] = SubSeq(ident, 1, len)
  BY DEF TypeOK, Running
<1>2. ch \in Chars
  BY <1>1 DEF ch
<1>3. QED
  BY <1>1, <1>2, Prefix DEF ch

LEMMA FoundInv ==
  ASSUME Inv, Found
  PROVE  Inv'
<1> USE Codes DEF Inv, IInv, Found, Accept, table
<1>1. pc = "probe"
  OBVIOUS
<1>2. spell[hash] = SubSeq(ident, 1, len + 1)
  BY <1>1, Probing DEF Matches, Spelling
<1>3. TypeOK'
  BY <1>1, Probing DEF TypeOK
<1>4. Reachable(Nat)' /\ Spelling' /\ Binding' /\ Tried(Nat)'
  BY DEF Reachable, Spelling, Binding, Tried, Used
<1>5. Running'
  BY <1>1, <1>2, Probing DEF Running, Used, Matches
<1>6. QED
  BY <1>3, <1>4, <1>5

\* No used slot already stands for the prefix that is about to be inserted.
LEMMA NotYetThere ==
  ASSUME Inv, pc = "probe", ~ Used(hash), NEW s \in Slot, Used(s)
  PROVE  spell[s] # Append(spell[tab], ch)
<1> USE Codes DEF Inv, IInv
<1> SUFFICES ASSUME spell[s] = Append(spell[tab], ch) PROVE FALSE
  OBVIOUS
<1>1. nchar[s] \in Chars
  <2>1. Append(spell[tab], ch) # <<>>
    BY SMTT(30), Probing
  <2>2. nchar[s] # RESERVED
    BY <2>1 DEF Spelling
  <2>3. QED
    BY <2>2 DEF TypeOK, Used
<1>2. nchar[s] = ch /\ ntab[s] = tab
  <2>1. /\ spell[s] = Append(spell[ntab[s]], nchar[s])
        /\ ntab[s] \in Slot /\ Used(ntab[s]) /\ spell[ntab[s]] \in Seq(Chars)
    BY <1>1 DEF Spelling, TypeOK
  <2>2. nchar[s] = ch /\ spell[ntab[s]] = spell[tab]
    <3>1. ch \in Chars /\ spell[tab] \in Seq(Chars)
      BY Probing
    <3>2. Append(spell[ntab[s]], nchar[s]) = Append(spell[tab], ch)
      BY <2>1
    <3> DEFINE x == spell[ntab[s]]
               y == spell[tab]
               c == nchar[s]
               d == ch
    <3>3. /\ x \in Seq(Chars) /\ y \in Seq(Chars) /\ c \in Chars /\ d \in Chars
          /\ Append(x, c) = Append(y, d)
      BY <1>1, <2>1, <3>1, <3>2
    <3> HIDE Codes DEF Inv, IInv, x, y, c, d
    <3>4. x = y /\ c = d
      BY <3>3, AppendInjective, ZenonT(30)
    <3>5. QED
      BY <3>4 DEF x, y, c, d
  <2>3. QED
    BY <2>1, <2>2, Probing DEF Spelling
<1>3. PICK k \in Nat :
        /\ hash = ProbeSlot(tab, ch, k)
        /\ \A i \in 0..(k - 1) : ~ Matches(ProbeSlot(tab, ch, i))
  BY DEF Tried
<1>4. PICK j \in Nat :
        /\ s = ProbeSlot(tab, ch, j)
        /\ \A i \in 0..(j - 1) : Used(ProbeSlot(tab, ch, i))
  BY <1>1, <1>2 DEF Reachable
<1>5. Matches(s)
  BY <1>2 DEF Matches
<1>6. ~ (j < k)
  BY <1>3, <1>4, <1>5
<1>7. ~ (k < j)
  BY <1>3, <1>4
<1>8. j # k
  BY <1>3, <1>4
<1>9. QED
  BY <1>6, <1>7, <1>8

LEMMA InsertInv ==
  ASSUME Inv, Insert
  PROVE  Inv'
<1>1. /\ pc = "probe" /\ ~ Used(hash) /\ pc' = "char"
      /\ nchar' = [nchar EXCEPT ![hash] = ch]
      /\ ntab' = [ntab EXCEPT ![hash] = tab]
      /\ spell' = [spell EXCEPT ![hash] = Append(spell[tab], ch)]
      /\ tab' = hash /\ len' = len + 1
      /\ UNCHANGED <<ident, start, hash, bound>>
  BY DEF Insert, Accept
<1>2. TypeOK /\ Reachable(Nat) /\ Tried(Nat) /\ Running /\ Spelling /\ Binding
  BY DEF Inv, IInv
<1>3. /\ ident \in Idents /\ ident \in Seq(Chars)
      /\ len \in Nat /\ len < Len(ident) /\ ch \in Chars
      /\ hash \in Slot /\ tab \in Slot
      /\ Used(tab) /\ spell[tab] \in Seq(Chars)
      /\ Append(spell[tab], ch) = SubSeq(ident, 1, len + 1)
      /\ Append(spell[tab], ch) \in Seq(Chars)
  BY <1>1, Probing
<1>4. \A s \in Slot : s # hash =>
        /\ nchar'[s] = nchar[s] /\ ntab'[s] = ntab[s] /\ spell'[s] = spell[s]
        /\ (nchar'[s] # 0) <=> Used(s)
  BY <1>1, <1>2 DEF Used, TypeOK
<1>5. /\ nchar'[hash] = ch /\ ntab'[hash] = tab
      /\ spell'[hash] = Append(spell[tab], ch)
      /\ nchar'[hash] # 0 /\ hash # tab
  BY <1>1, <1>2, <1>3, Codes DEF Used, TypeOK
<1>6. hash # 0
  BY <1>1, <1>2 DEF Spelling
<1>7. TypeOK'
  BY <1>1, <1>2, <1>3 DEF TypeOK
<1>8. Reachable(Nat)'
  <2> SUFFICES ASSUME NEW s \in Slot, nchar'[s] \in Chars
               PROVE  \E k \in Nat :
                        /\ s = ProbeSlot(ntab'[s], nchar'[s], k)
                        /\ \A i \in 0..(k - 1) :
                             nchar'[ProbeSlot(ntab'[s], nchar'[s], i)] # 0
    BY DEF Reachable, ProbeSlot, Used
  <2>1. \A t \in Slot, c \in Chars, i \in Nat : ProbeSlot(t, c, i) \in Slot
    <3> SUFFICES ASSUME NEW t \in Slot, NEW c \in Chars, NEW i \in Nat
                 PROVE  ProbeSlot(t, c, i) \in Slot
      OBVIOUS
    <3>1. t \in Nat /\ c \in Nat
      BY Codes DEF Slot
    <3>2. QED
      BY <3>1, ProbeType
  <2>2. \A t \in Slot, c \in Chars, i \in Nat :
          Used(ProbeSlot(t, c, i)) => nchar'[ProbeSlot(t, c, i)] # 0
    BY <1>4, <1>5, <2>1
  <2>3. CASE s = hash
    <3>1. PICK k \in Nat :
            /\ hash = ProbeSlot(tab, ch, k)
            /\ \A i \in 0..(k - 1) : Used(ProbeSlot(tab, ch, i))
      BY <1>1, <1>2 DEF Tried
    <3>2. \A i \in 0..(k - 1) : nchar'[ProbeSlot(tab, ch, i)] # 0
      BY <1>3, <2>2, <3>1 DEF Used
    <3>3. QED
      BY <1>5, <2>3, <3>1, <3>2
  <2>4. CASE s # hash
    <3>1. nchar[s] \in Chars /\ ntab[s] \in Slot
      BY <1>2, <1>4, <2>4 DEF TypeOK
    <3>2. PICK k \in Nat :
            /\ s = ProbeSlot(ntab[s], nchar[s], k)
            /\ \A i \in 0..(k - 1) : Used(ProbeSlot(ntab[s], nchar[s], i))
      BY <1>2, <3>1 DEF Reachable
    <3>3. \A i \in 0..(k - 1) : nchar'[ProbeSlot(ntab[s], nchar[s], i)] # 0
      BY <2>2, <3>1, <3>2
    <3>4. QED
      BY <1>4, <2>4, <3>2, <3>3
  <2>5. QED
    BY <2>3, <2>4
<1>9. Tried(Nat)'
  BY <1>1 DEF Tried
<1>10. Running'
  BY <1>1, <1>3, <1>5 DEF Running, Used
<1>11. Spelling'
  <2>1. nchar'[0] # 0 /\ nchar'[0] = RESERVED /\ spell'[0] = <<>>
    BY <1>2, <1>4, <1>6, Codes DEF Spelling
  <2>2. \A s \in Slot : nchar'[s] = RESERVED => s = 0
    BY <1>2, <1>3, <1>4, <1>5, Codes DEF Spelling
  <2>3. \A s \in Slot : nchar'[s] \in Chars =>
          nchar'[ntab'[s]] # 0 /\ spell'[s] = Append(spell'[ntab'[s]], nchar'[s])
    <3> SUFFICES ASSUME NEW s \in Slot, nchar'[s] \in Chars
                 PROVE  /\ nchar'[ntab'[s]] # 0
                        /\ spell'[s] = Append(spell'[ntab'[s]], nchar'[s])
      OBVIOUS
    <3>1. CASE s = hash
      <4>1. nchar'[tab] # 0 /\ spell'[tab] = spell[tab]
        BY <1>3, <1>4, <1>5
      <4>2. ntab'[s] = tab /\ nchar'[s] = ch
        BY <1>5, <3>1
      <4>3. nchar'[ntab'[s]] # 0
        BY <4>1, <4>2 DEF Used
      <4>4. QED
        BY <1>5, <3>1, <4>1, <4>2, <4>3
    <3>2. CASE s # hash
      <4> DEFINE t == ntab[s]
      <4>1. nchar[s] \in Chars /\ t \in Slot
        BY <1>2, <1>4, <3>2 DEF TypeOK
      <4>2. Used(t) /\ spell[s] = Append(spell[t], nchar[s])
        BY <1>2, <4>1 DEF Spelling
      <4>3. t # hash
        BY <1>1, <4>2
      <4>4. nchar'[t] # 0 /\ spell'[t] = spell[t] /\ ntab'[s] = t
        BY <1>4, <3>2, <4>1, <4>2, <4>3
      <4>5. nchar'[ntab'[s]] # 0
        BY <4>4 DEF Used
      <4>6. QED
        BY <1>4, <3>2, <4>2, <4>4, <4>5
    <3>3. QED
      BY <3>1, <3>2
  <2>4. \A s, u \in Slot :
          nchar'[s] # 0 /\ nchar'[u] # 0 /\ spell'[s] = spell'[u] => s = u
    <3>1. \A s \in Slot : Used(s) => spell[s] # Append(spell[tab], ch)
      BY <1>1, NotYetThere
    <3>2. QED
      BY <1>2, <1>4, <1>5, <3>1 DEF Spelling
  <2>5. QED
    BY <2>1, <2>2, <2>3, <2>4 DEF Spelling, Used
<1>12. Binding'
  <2>1. \A a \in Idents : bound[a] # NONE =>
          bound[a] \in Slot /\ Used(bound[a]) /\ spell[bound[a]] = a
    BY <1>2 DEF TypeOK, Binding
  <2>2. \A s \in Slot : Used(s) => nchar'[s] # 0 /\ spell'[s] = spell[s]
    BY <1>1, <1>4 DEF Used
  <2>3. QED
    BY <1>1, <2>1, <2>2 DEF Binding, Used
<1>13. QED
  BY <1>7, <1>8, <1>9, <1>10, <1>11, <1>12 DEF Inv, IInv

LEMMA CollideInv ==
  ASSUME Inv, Collide
  PROVE  Inv'
<1> USE Codes DEF Inv, IInv, Collide, table
<1>1. pc = "probe" /\ ch' = ch
  BY DEF ch
<1>2. PICK k \in Nat :
        /\ hash = ProbeSlot(tab, ch, k)
        /\ \A i \in 0..(k - 1) :
             LET q == ProbeSlot(tab, ch, i) IN Used(q) /\ ~ Matches(q)
  BY <1>1 DEF Tried
<1>3. hash' = ProbeSlot(tab, ch, k + 1) /\ hash' \in Slot
  <2>1. tab \in Nat /\ k + 1 \in Nat /\ ch \in Chars /\ ch \in Nat
    BY <1>1, Probing DEF Slot
  <2>2. QED
    BY <1>2, <2>1, ProbeNext, ProbeType
<1>4. TypeOK'
  BY <1>3 DEF TypeOK
<1>5. Reachable(Nat)' /\ Spelling' /\ Binding'
  BY DEF Reachable, Spelling, Binding, Used
<1>6. Tried(Nat)'
  <2>1. \A i \in 0..((k + 1) - 1) :
          Used(ProbeSlot(tab, ch, i)) /\ ~ Matches(ProbeSlot(tab, ch, i))
    <3>1. \A i \in 0..((k + 1) - 1) : i = k \/ i \in 0..(k - 1)
      OBVIOUS
    <3>2. QED
      BY <1>2, <3>1
  <2>2. \A q : (Used(q)' <=> Used(q)) /\ (Matches(q)' <=> Matches(q))
    BY <1>1 DEF Used, Matches
  <2>3. k + 1 \in Nat
    OBVIOUS
  <2>4. QED
    BY <1>1, <1>3, <2>1, <2>2, <2>3 DEF Tried
<1>7. Running'
  BY <1>1 DEF Running, Used
<1>8. QED
  BY <1>4, <1>5, <1>6, <1>7

LEMMA StutterInv ==
  ASSUME Inv, UNCHANGED vars
  PROVE  Inv'
BY DEF Inv, IInv, vars, TypeOK, Reachable, Tried, Running, Spelling, Binding,
       Used, Matches, ch

LEMMA NextInv == Inv /\ [Next]_vars => Inv'
BY DohashInv, NextCharInv, ReturnInv, FoundInv, InsertInv, CollideInv,
   StutterInv DEF Next, Step

-----------------------------------------------------------------------------

\* dohash keeps every index inside the table and every table column in its
\* type, for every table size and every set of identifiers.
THEOREM TypeCorrect == Spec => []TypeOK
<1>1. Inv => TypeOK
  BY DEF Inv, IInv
<1>2. QED
  BY <1>1, InitInv, NextInv, PTL DEF Spec

\* Two identifiers are never given the same slot by dohash.
THEOREM ValuesUnique == Spec => []UniqueValue
<1>1. Inv => UniqueValue
  BY DEF Inv, IInv, Binding, UniqueValue
<1>2. QED
  BY <1>1, InitInv, NextInv, PTL DEF Spec

\* An identifier keeps the slot dohash first gave it.
THEOREM ValuesStable == Spec => ValueStable
<1> DEFINE Keeps == \A a \in Idents : bound[a] # NONE => bound'[a] = bound[a]
<1>1. Inv /\ [Next]_vars => [Keeps]_vars
  <2> SUFFICES ASSUME Inv, Next, NEW a \in Idents, bound[a] # NONE
               PROVE  bound'[a] = bound[a]
    OBVIOUS
  <2>1. CASE Return
    <3>1. CASE a = ident
      <4>1. bound[a] \in Slot /\ Used(bound[a]) /\ spell[bound[a]] = a
        BY DEF Inv, IInv, Binding, TypeOK
      <4>2. bound[a] = tab
        BY <2>1, <3>1, <4>1, ReturnSpells DEF Inv, IInv, Spelling
      <4>3. QED
        BY <2>1, <3>1, <4>2 DEF Return, Inv, IInv, TypeOK
    <3>2. CASE a # ident
      BY <2>1, <3>2 DEF Return, Inv, IInv, TypeOK
    <3>3. QED
      BY <3>1, <3>2
  <2>2. CASE ~ Return
    BY <2>2 DEF Next, Step, dohash, NextChar, Found, Insert, Collide, Accept
  <2>3. QED
    BY <2>1, <2>2
<1>2. QED
  BY <1>1, InitInv, NextInv, PTL DEF Spec, ValueStable

-----------------------------------------------------------------------------
(***************************************************************************)
(* The table overflows only when it is full.                               *)
(***************************************************************************)

\* Every set of naturals has a least element: induction without an operator.
LEMMA LeastNat ==
  ASSUME NEW T \in SUBSET Nat, T # {}
  PROVE  \E n \in T : \A m \in T : n <= m
<1> DEFINE R == OpToRel(<, Nat)
<1>1. IsWellFoundedOn(R, Nat)
  BY NatLessThanWellFounded
<1>2. \A a, b \in Nat : a < b => <<a, b>> \in R
  BY DEF OpToRel
<1> HIDE DEF R
<1>3. PICK n \in T : \A m \in T : ~ (<<m, n>> \in R)
  BY <1>1, WFMin
<1>4. \A m \in T : n <= m
  <2> SUFFICES ASSUME NEW m \in T PROVE n <= m
    OBVIOUS
  <2>1. m \in Nat /\ n \in Nat
    OBVIOUS
  <2>2. ~ (m < n)
    BY <1>2, <1>3, <2>1
  <2>3. QED
    BY <2>1, <2>2
<1>5. QED
  BY <1>4

\* Euclid's lemma: a prime divides no product of two smaller numbers.
LEMMA Euclid ==
  ASSUME NEW p \in Nat \ {0}, \A u, v \in 2..(p - 1) : u * v # p,
         NEW a \in 1..(p - 1), NEW b \in 1..(p - 1)
  PROVE  (a * b) % p # 0
<1> SUFFICES ASSUME (a * b) % p = 0 PROVE FALSE
  OBVIOUS
<1> DEFINE T == {n \in 1..(p - 1) : (n * b) % p = 0}
<1>1. PICK n \in T : \A m \in T : n <= m
  <2>1. T \in SUBSET Nat /\ a \in T
    OBVIOUS
  <2>2. QED
    BY <2>1, LeastNat
<1>2. n \in 1..(p - 1) /\ (n * b) % p = 0
  BY <1>1
<1> DEFINE q == p \div n
           r == p % n
           k == (n * b) \div p
<1>3. q \in Int /\ r \in 0..(n - 1) /\ p = n * q + r
  BY <1>2
<1>4. k \in Int /\ n * b = p * k
  <2>1. n * b \in Int
    BY <1>2
  <2>2. QED
    BY <2>1, <1>2
<1> HIDE DEF q, r, k
<1>5. r = 0
  <2> SUFFICES ASSUME r # 0 PROVE FALSE
    OBVIOUS
  <2>1. r * b = p * (b - q * k) + 0
    <3>1. r = p - n * q
      BY <1>2, <1>3
    <3>2. r * b = p * b - (n * q) * b
      BY <1>2, <1>3, <3>1
    <3>3. (n * q) * b = q * (n * b)
      BY <1>2, <1>3
    <3>4. q * (p * k) = p * (q * k)
      BY <1>3, <1>4
    <3>5. p * b - p * (q * k) = p * (b - q * k)
      BY <1>3, <1>4
    <3>6. p * b \in Int /\ p * (b - q * k) \in Int
      BY <1>3, <1>4
    <3>7. QED
      BY <1>4, <3>2, <3>3, <3>4, <3>5, <3>6
  <2>2. b - q * k \in Int /\ 0 \in 0..(p - 1)
    BY <1>3, <1>4
  <2>3. (r * b) % p = 0
    BY <2>1, <2>2, ModUnique
  <2>4. r \in T /\ r < n /\ r \in Int /\ n \in Int
    BY <1>2, <1>3, <2>3
  <2>5. n <= r
    BY <1>1, <2>4
  <2>6. QED
    BY <2>4, <2>5
<1>6. p = n * q
  BY <1>2, <1>3, <1>5
<1>7. n # 1
  <2> SUFFICES ASSUME n = 1 PROVE FALSE
    OBVIOUS
  <2>1. b % p = 0
    BY <1>2
  <2>2. p * 0 + b = b /\ b \in 0..(p - 1)
    OBVIOUS
  <2>3. (p * 0 + b) % p = b
    BY <2>2, ModUnique
  <2>4. QED
    BY <2>1, <2>2, <2>3
<1>8. q \in 2..(p - 1)
  <2>1. q >= 1
    <3> SUFFICES ASSUME q <= 0 PROVE FALSE
      BY <1>3
    <3>1. n * (-q) >= 0
      BY <1>2, <1>3
    <3>2. QED
      BY <1>2, <1>3, <1>6, <3>1
  <2>2. q # 1
    BY <1>2, <1>6
  <2>3. 2 * q <= n * q
    BY <1>2, <1>3, <1>7, <2>1
  <2>4. QED
    BY <1>2, <1>3, <1>6, <2>1, <2>2, <2>3
<1>9. n \in 2..(p - 1)
  BY <1>2, <1>7
<1>10. QED
  BY <1>6, <1>8, <1>9

\* Two attempts less than NAMEMAX apart are at different slots.
LEMMA ProbeApart ==
  ASSUME NEW t \in Nat, NEW c \in Chars, NEW i \in Nat, NEW j \in Nat,
         i < j, j - i < NAMEMAX
  PROVE  ProbeSlot(t, c, i) # ProbeSlot(t, c, j)
<1> SUFFICES ASSUME ProbeSlot(t, c, i) = ProbeSlot(t, c, j) PROVE FALSE
  OBVIOUS
<1>1. c \in 1..(NAMEMAX - 1) /\ NAMEMAX \in Nat \ {0}
  BY CharsAssumption, SizeAssumption
<1> DEFINE a == t + c * c + i * c
           b == t + c * c + j * c
<1>2. a \in Int /\ b \in Int /\ b - a = (j - i) * c
  BY <1>1
<1>3. a % NAMEMAX = b % NAMEMAX
  BY DEF ProbeSlot
<1> HIDE DEF a, b
<1> DEFINE q == a \div NAMEMAX
           u == b \div NAMEMAX
<1>4. q \in Int /\ u \in Int /\ b - a = NAMEMAX * u - NAMEMAX * q
  BY <1>1, <1>2, <1>3
<1> HIDE DEF q, u
<1>5. (j - i) * c = NAMEMAX * (u - q) + 0
  BY <1>1, <1>2, <1>4
<1>6. ((j - i) * c) % NAMEMAX = 0
  <2>1. u - q \in Int /\ 0 \in 0..(NAMEMAX - 1)
    BY <1>1, <1>4
  <2>2. QED
    BY <1>1, <1>5, <2>1, ModUnique
<1>7. j - i \in 1..(NAMEMAX - 1)
  BY <1>1
<1>8. QED
  BY <1>1, <1>6, <1>7, Euclid, PrimeAssumption

\* NAMEMAX attempts in a row visit every slot.
LEMMA ProbeVisitsAll ==
  ASSUME NEW t \in Nat, NEW c \in Chars, NEW s \in Slot
  PROVE  \E i \in Slot : s = ProbeSlot(t, c, i)
<1> DEFINE f == [i \in Slot |-> ProbeSlot(t, c, i)]
<1>1. c \in Nat /\ NAMEMAX \in Nat \ {0}
  BY CharsAssumption, SizeAssumption
<1>2. f \in [Slot -> Slot]
  <2>1. \A i \in Slot : i \in Nat
    BY <1>1 DEF Slot
  <2>2. QED
    BY <1>1, <2>1, ProbeType
<1>3. \A i, j \in Slot : f[i] = f[j] => i = j
  <2> SUFFICES ASSUME NEW i \in Slot, NEW j \in Slot, f[i] = f[j], i # j
               PROVE  FALSE
    OBVIOUS
  <2>1. i \in Nat /\ j \in Nat /\ i < NAMEMAX /\ j < NAMEMAX
    BY <1>1 DEF Slot
  <2>2. CASE i < j
    <3>1. j - i < NAMEMAX
      BY <1>1, <2>1
    <3>2. QED
      BY <2>1, <2>2, <3>1, ProbeApart
  <2>3. CASE j < i
    <3>1. i - j < NAMEMAX
      BY <1>1, <2>1
    <3>2. QED
      BY <2>1, <2>3, <3>1, ProbeApart
  <2>4. QED
    BY <2>1, <2>2, <2>3
<1>4. f \in Injection(Slot, Slot)
  BY <1>2, <1>3 DEF Injection, IsInjective
<1>5. IsFiniteSet(Slot)
  BY <1>1, FS_Interval DEF Slot
<1>6. f \in Surjection(Slot, Slot)
  BY <1>4, <1>5, FS_Injection
<1>7. QED
  BY <1>6 DEF Surjection

\* When the probe is back at its start, every slot has been tried.
LEMMA OverflowFull ==
  ASSUME Inv, Started, Collide, pc' = "fatal"
  PROVE  \A s \in Slot : Used(s)
<1> SUFFICES ASSUME NEW s \in Slot PROVE Used(s)
  OBVIOUS
<1>1. pc = "probe" /\ hash' = start /\ hash' = Wrap(hash + ch) /\ Used(hash)
  BY DEF Collide
<1>2. PICK k \in Nat :
        /\ hash = ProbeSlot(tab, ch, k)
        /\ \A i \in 0..(k - 1) : Used(ProbeSlot(tab, ch, i))
  BY <1>1 DEF Inv, IInv, Tried
<1>3. tab \in Nat /\ ch \in Chars /\ NAMEMAX \in Nat \ {0}
  BY <1>1, Probing, Codes DEF Slot
<1>4. ProbeSlot(tab, ch, 0) = ProbeSlot(tab, ch, k + 1)
  BY <1>1, <1>2, <1>3, ProbeNext DEF Started
<1>5. k + 1 >= NAMEMAX
  <2> SUFFICES ASSUME k + 1 < NAMEMAX PROVE FALSE
    BY <1>3
  <2>1. 0 \in Nat /\ k + 1 \in Nat /\ 0 < k + 1 /\ (k + 1) - 0 < NAMEMAX
    BY <1>3
  <2>2. QED
    BY <1>3, <1>4, <2>1, ProbeApart
<1>6. PICK i \in Slot : s = ProbeSlot(tab, ch, i)
  BY <1>3, ProbeVisitsAll
<1>7. i \in 0..(k - 1) \/ i = k
  BY <1>3, <1>5, <1>6 DEF Slot
<1>8. QED
  BY <1>1, <1>2, <1>6, <1>7

LEMMA InitStarted == Init => Started /\ Roots /\ OverflowOnlyWhenFull
BY Codes DEF Init, Started, Roots, OverflowOnlyWhenFull

LEMMA NextStarted ==
  ASSUME Inv, Started, Roots, OverflowOnlyWhenFull, [Next]_vars
  PROVE  Started' /\ Roots' /\ OverflowOnlyWhenFull'
<1> USE DEF table
<1>1. ASSUME NEW id \in Idents, dohash(id)
      PROVE  Started' /\ Roots' /\ OverflowOnlyWhenFull'
  BY <1>1 DEF dohash, Started, Roots, OverflowOnlyWhenFull
<1>2. CASE NextChar
  <2>1. hash = tab /\ tab \in Nat /\ ch \in Nat /\ ch' = ch
    <3>1. ident \in Seq(Chars) /\ len + 1 \in 1..Len(ident)
      BY <1>2, Codes DEF NextChar, Inv, IInv, TypeOK, Running
    <3>2. ch \in Chars
      BY <3>1 DEF ch
    <3>3. hash = tab /\ tab \in Slot
      BY <1>2 DEF NextChar, Inv, IInv, TypeOK, Running
    <3>4. ch' = ch
      BY <1>2 DEF NextChar, ch
    <3>5. QED
      BY <3>2, <3>3, <3>4, Codes DEF Slot
  <2>2. start' = (tab + ch * ch) % NAMEMAX
    BY <1>2, <2>1 DEF NextChar
  <2>3. start' = ProbeSlot(tab, ch, 0)
    BY <2>1, <2>2, ProbeFirst
  <2>4. QED
    BY <1>2, <2>1, <2>3 DEF NextChar, Started, Roots, OverflowOnlyWhenFull
<1>3. CASE Return \/ Found
  BY <1>3 DEF Return, Found, Accept, Started, Roots, OverflowOnlyWhenFull
<1>4. CASE Insert
  <2>1. ch \in Chars /\ hash \in Slot
    BY <1>4, Probing DEF Insert
  <2>2. Roots'
    BY <1>4, <2>1 DEF Insert, Roots, Inv, IInv, TypeOK
  <2>3. QED
    BY <1>4, <2>2 DEF Insert, Accept, Started, OverflowOnlyWhenFull
<1>5. CASE Collide
  <2>1. ch' = ch /\ Roots' /\ Started'
    BY <1>5 DEF Collide, Roots, Started, ch
  <2>2. pc' = "fatal" => \A s \in Slot : Used(s)
    BY <1>5, OverflowFull
  <2>3. QED
    BY <1>5, <2>1, <2>2 DEF Collide, OverflowOnlyWhenFull, Used
<1>6. CASE UNCHANGED vars
  BY <1>6 DEF vars, Started, Roots, OverflowOnlyWhenFull, ch, Used
<1>7. QED
  BY <1>1, <1>2, <1>3, <1>4, <1>5, <1>6 DEF Next, Step

\* "name table overflow" means that no slot is free, for every prime size.
THEOREM OverflowsWhenFull == Spec => []OverflowOnlyWhenFull
BY InitInv, NextInv, InitStarted, NextStarted, PTL DEF Spec

-----------------------------------------------------------------------------
(***************************************************************************)
(* What soutname reads back.                                               *)
(***************************************************************************)

\* soutname's recursion has a value: NTAB leads to slot 0 from every slot.
LEMMA SoutnameReads ==
  ASSUME Inv, Roots
  PROVE  \A s \in Slot : soutname[s] =
           IF ntab[s] = 0 THEN <<nchar[s]>>
           ELSE Append(soutname[ntab[s]], nchar[s])
<1> DEFINE Reads(f) == f = [s \in Slot |-> IF ntab[s] = 0 THEN <<nchar[s]>>
                                         ELSE Append(f[ntab[s]], nchar[s])]
<1>1. soutname = CHOOSE f : Reads(f)
  BY DEF soutname
<1>2. \E f : Reads(f)
  <2> DEFINE g == [s \in Slot |-> IF nchar[s] \in Chars THEN spell[s]
                                  ELSE <<nchar[s]>>]
  <2>1. ASSUME NEW s \in Slot
        PROVE  g[s] = IF ntab[s] = 0 THEN <<nchar[s]>>
                      ELSE Append(g[ntab[s]], nchar[s])
    <3>1. CASE nchar[s] \notin Chars
      BY <3>1 DEF Roots
    <3>2. CASE nchar[s] \in Chars
      <4>1. ntab[s] \in Slot /\ Used(ntab[s])
            /\ spell[s] = Append(spell[ntab[s]], nchar[s])
        BY <3>2 DEF Inv, IInv, TypeOK, Spelling
      <4>2. CASE ntab[s] = 0
        <5>1. spell[0] = <<>> /\ Append(<<>>, nchar[s]) = <<nchar[s]>>
          BY DEF Inv, IInv, Spelling
        <5>2. QED
          BY <3>2, <4>1, <4>2, <5>1
      <4>3. CASE ntab[s] # 0
        <5>1. nchar[ntab[s]] \in Chars
          BY <4>1, <4>3 DEF Inv, IInv, TypeOK, Spelling, Used
        <5>2. QED
          BY <3>2, <4>1, <4>3, <5>1
      <4>4. QED
        BY <4>2, <4>3
    <3>3. QED
      BY <3>1, <3>2
  <2>2. Reads(g)
    BY <2>1, Zenon
  <2>3. QED
    BY <2>2, Zenon
<1>3. Reads(soutname)
  BY <1>1, <1>2, Zenon
<1>4. QED
  BY <1>3, Zenon

\* Reading back a used slot gives the identifier it stands for: a slot with
\* the shortest wrong spelling would have a parent with a wrong spelling.
LEMMA SoutnameSpells ==
  ASSUME Inv, Roots, NEW s \in Slot, nchar[s] \in Chars
  PROVE  soutname[s] = spell[s]
<1> SUFFICES ASSUME soutname[s] # spell[s] PROVE FALSE
  OBVIOUS
<1> DEFINE Wrong == {u \in Slot : nchar[u] \in Chars /\ soutname[u] # spell[u]}
           T == {n \in Nat : \E u \in Wrong : n = Len(spell[u])}
<1>1. \A u \in Slot : spell[u] \in Seq(Chars) /\ Len(spell[u]) \in Nat
  BY DEF Inv, IInv, TypeOK
<1>2. T \in SUBSET Nat /\ T # {}
  <2>1. s \in Wrong
    OBVIOUS
  <2>2. Len(spell[s]) \in T
    BY <1>1, <2>1
  <2>3. QED
    BY <2>2
<1>3. PICK n \in T : \A m \in T : n <= m
  BY <1>2, LeastNat
<1>4. PICK u \in Wrong : n = Len(spell[u])
  BY <1>3
<1>5. /\ u \in Slot /\ nchar[u] \in Chars /\ ntab[u] \in Slot /\ Used(ntab[u])
      /\ spell[u] = Append(spell[ntab[u]], nchar[u])
  BY <1>4 DEF Inv, IInv, TypeOK, Spelling
<1>6. CASE ntab[u] = 0
  <2>1. spell[u] = <<nchar[u]>>
    <3>1. spell[0] = <<>> /\ Append(<<>>, nchar[u]) = <<nchar[u]>>
      BY DEF Inv, IInv, Spelling
    <3>2. QED
      BY <1>5, <1>6, <3>1
  <2>2. soutname[u] = <<nchar[u]>>
    BY <1>5, <1>6, SoutnameReads
  <2>3. QED
    BY <1>4, <2>1, <2>2
<1>7. CASE ntab[u] # 0
  <2>1. soutname[u] = Append(soutname[ntab[u]], nchar[u])
    BY <1>5, <1>7, SoutnameReads
  <2>2. soutname[ntab[u]] # spell[ntab[u]]
    BY <1>4, <1>5, <2>1
  <2>3. nchar[ntab[u]] \in Chars
    BY <1>5, <1>7 DEF Inv, IInv, TypeOK, Spelling, Used
  <2>4. Len(spell[ntab[u]]) \in T
    BY <1>1, <1>5, <2>2, <2>3
  <2>5. n = Len(spell[ntab[u]]) + 1
    BY <1>1, <1>4, <1>5
  <2>6. n <= Len(spell[ntab[u]])
    BY <1>3, <2>4
  <2>7. QED
    BY <1>1, <1>5, <2>5, <2>6
<1>8. QED
  BY <1>6, <1>7

\* The linker looks up in the library what soutname prints of its own table:
\* it is the identifier dohash was given.
THEOREM ReadsBack == Spec => []RoundTrip
<1>1. Inv /\ Roots => RoundTrip
  <2> SUFFICES ASSUME Inv, Roots, NEW a \in Idents, bound[a] # NONE
               PROVE  soutname[bound[a]] = a
    BY DEF RoundTrip
  <2>1. bound[a] \in Slot /\ Used(bound[a]) /\ spell[bound[a]] = a
    BY DEF Inv, IInv, TypeOK, Binding
  <2>2. nchar[bound[a]] \in Chars
    BY <2>1, Codes DEF Inv, IInv, TypeOK, Spelling, Used
  <2>3. QED
    BY <2>1, <2>2, SoutnameSpells
<1>2. QED
  BY <1>1, InitInv, NextInv, InitStarted, NextStarted, PTL DEF Spec
=============================================================================
