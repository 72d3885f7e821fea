------------------------- MODULE PreprocessorProofs -------------------------
(* Proofs about the preprocessor, for every source and every table size.   *)
EXTENDS Preprocessor, SequenceTheorems, TLAPS

Macro == [name : Idents, to : Body]

\* A name with entries has a first one.
FirstExists ==
  \A w \in Word : IsMacro(w) =>
    \E k \in Entries(w) : \A n \in Entries(w) : k <= n

\* What the steps preserve together.
IInv == TypeOK /\ SkipExact /\ FirstExists

-----------------------------------------------------------------------------
(* The line being read.                                                    *)

LEMMA LineType ==
  ASSUME TypeOK, HasLine
  PROVE  line \in Line
<1>1. Current \in Seq(Line) /\ Position \in Nat
  BY SourcesAssumption, WordsAssumption DEF TypeOK, Current, Position, Including
<1>2. Position + 1 \in 1..Len(Current)
  BY <1>1 DEF HasLine
<1>3. QED
  BY <1>1, <1>2 DEF line

LEMMA LineFields ==
  ASSUME NEW l \in Line
  PROVE  /\ l.op \in {"ifdef", "ifndef", "define", "text"} => l.id \in Word
         /\ l.op = "define" => l.to \in Body
  BY DEF Line

LEMMA AdvanceType ==
  ASSUME TypeOK, Advance
  PROVE  inppos' \in Nat /\ incpos' \in Nat
  BY DEF TypeOK, Advance

-----------------------------------------------------------------------------
(* Macros.                                                                 *)

\* findmac() returns an entry for the name, the first one.
LEMMA FindmacFirst ==
  ASSUME FirstExists, NEW w \in Word, IsMacro(w)
  PROVE  findmac(w) \in Entries(w) /\ \A n \in Entries(w) : findmac(w) <= n
<1>1. \E k \in Entries(w) : \A n \in Entries(w) : k <= n
  BY DEF FirstExists
<1>2. QED
  BY <1>1, Zenon DEF findmac

LEMMA ExpandType ==
  ASSUME TypeOK, FirstExists, NEW w \in Word
  PROVE  Expand(w) \in Body
<1>1. CASE IsMacro(w)
  <2>1. findmac(w) \in DOMAIN mac
    BY <1>1, FindmacFirst DEF Entries
  <2>2. mac[findmac(w)] \in Macro
    <3>1. mac \in Seq(Macro)
      BY DEF TypeOK, Macro
    <3>2. QED
      BY <2>1, <3>1
  <2>3. QED
    BY <1>1, <2>2 DEF Expand, Macro
<1>2. CASE ~IsMacro(w)
  BY <1>2 DEF Expand, Body
<1>3. QED
  BY <1>1, <1>2

LEMMA BodyCases ==
  ASSUME NEW a
  PROVE  a \in Body <=> a = <<>> \/ \E w \in Word : a = <<w>>
  BY Zenon DEF Body

LEMMA OneWord ==
  ASSUME NEW w \in Word
  PROVE  /\ <<w>> \in Seq(Word) /\ <<w>>[1] = w
         /\ Tail(<<w>>) = <<>> /\ Len(<<w>>) = 1
  OBVIOUS

LEMMA BodyType ==
  ASSUME NEW a \in Body
  PROVE  /\ a \in Seq(Word)
         /\ a # <<>> => a[1] \in Word /\ Tail(a) = <<>> /\ Len(a) = 1
<1>1. CASE a = <<>>
  BY <1>1
<1>2. CASE \E w \in Word : a = <<w>>
  BY <1>2, OneWord, Zenon
<1>3. QED
  BY <1>1, <1>2, BodyCases, Zenon

\* Two expansions in a row: the first word and the rest.
LEMMA BodyConcat ==
  ASSUME NEW a \in Body, NEW b \in Body, a \o b # <<>>
  PROVE  (a \o b)[1] \in Word /\ Tail(a \o b) \in Body /\ Len(a \o b) \in 1..2
<1>0. <<>> \in Body
  BY BodyCases
<1>. 1 \in 1..2 /\ 2 \in 1..2
  OBVIOUS
<1>1. CASE a = <<>>
  <2>1. a \o b = b
    BY <1>1, BodyType, ConcatEmptySeq
  <2>2. QED
    BY <1>0, <2>1, BodyType, Zenon
<1>2. CASE b = <<>>
  <2>1. a \o b = a
    BY <1>2, BodyType, ConcatEmptySeq
  <2>2. QED
    BY <1>0, <2>1, BodyType, Zenon
<1>3. CASE a # <<>> /\ b # <<>>
  <2>1. PICK v \in Word, w \in Word : a = <<v>> /\ b = <<w>>
    BY <1>3, BodyCases, Zenon
  <2>2. a \o b = <<v, w>>
    <3>1. <<v>> \in Seq(Word)
      BY OneWord
    <3>2. Append(<<v>>, w) = <<v, w>>
      <4> DEFINE s == Append(<<v>>, w)
                 t == <<v, w>>
      <4>1. s \in Seq(Word) /\ Len(s) = 2 /\ s[1] = v /\ s[2] = w
        BY <3>1, AppendProperties, OneWord
      <4>2. t \in Seq(Word) /\ Len(t) = 2 /\ t[1] = v /\ t[2] = w
        OBVIOUS
      <4>3. \A i \in 1..Len(s) : s[i] = t[i]
        <5> HIDE DEF s, t
        <5>1. QED
          BY <4>1, <4>2
      <4> HIDE DEF s, t
      <4>4. s = t
        BY <4>1, <4>2, <4>3, SeqEqual
      <4>5. QED
        BY <4>4 DEF s, t
    <3>3. <<v>> \o <<w>> = Append(<<v>>, w)
      BY <3>1, AppendIsConcat, Zenon
    <3>4. QED
      BY <2>1, <3>2, <3>3, Zenon
  <2>3. Tail(<<v, w>>) = <<w>> /\ Len(<<v, w>>) = 2 /\ <<v, w>>[1] = v
    OBVIOUS
  <2>4. QED
    BY <2>2, <2>3, BodyCases, Zenon
<1>4. QED
  BY <1>1, <1>2, <1>3

\* What declmac() defines is an identifier with an expansion.
LEMMA DeclaredType ==
  ASSUME TypeOK, FirstExists, HasLine, line.op = "define",
         Expanded # <<>>, Expanded[1] \in Idents
  PROVE  /\ [name |-> Expanded[1], to |-> Tail(Expanded)] \in Macro
         /\ Len(Expanded) \in 1..2
<1> DEFINE a == Expand(line.id)
           b == IF line.to = <<>> THEN <<>> ELSE Expand(line.to[1])
<1>1. line.id \in Word /\ line.to \in Body
  BY LineType, LineFields
<1>2. a \in Body
  BY <1>1, ExpandType
<1>3. b \in Body
  <2>1. CASE line.to = <<>>
    BY <2>1, BodyCases, Zenon
  <2>2. CASE line.to # <<>>
    <3>1. line.to[1] \in Word
      BY <1>1, <2>2, BodyType, Zenon
    <3>2. QED
      BY <2>2, <3>1, ExpandType
  <2>3. QED
    BY <2>1, <2>2
<1>4. Expanded = a \o b
  BY Zenon DEF Expanded
<1> HIDE DEF a, b
<1>5. Tail(Expanded) \in Body /\ Len(Expanded) \in 1..2
  BY <1>2, <1>3, <1>4, BodyConcat, Zenon
<1>6. QED
  BY <1>5 DEF Macro

\* The table of macros grows by one entry, starts anew with a pass, or stays.
MacStep ==
  \/ mac' = mac
  \/ pass' # pass /\ mac' = <<>>
  \/ \E e \in Macro : mac' = Append(mac, e)

LEMMA MacStepped ==
  ASSUME TypeOK, FirstExists, [Next]_vars
  PROVE  MacStep
<1>1. CASE declmac
  <2>1. HasLine /\ line.op = "define"
    BY <1>1 DEF declmac, readline
  <2>2. CASE mac' = mac
    BY <2>2 DEF MacStep
  <2>3. CASE mac' # mac
    <3>1. /\ Expanded # <<>> /\ Expanded[1] \in Idents
          /\ mac' = Append(mac, [name |-> Expanded[1], to |-> Tail(Expanded)])
      BY <1>1, <2>3 DEF declmac, exit, macros
    <3>2. QED
      BY <2>1, <3>1, DeclaredType, Zenon DEF MacStep
  <2>4. QED
    BY <2>2, <2>3
<1>2. CASE NextPass
  BY <1>2 DEF NextPass, Begin, MacStep
<1>3. CASE EndOfInclude \/ EndOfInput \/ Ifdef \/ Ifndef \/ Else \/ Endif \/ Skip
  BY <1>3 DEF EndOfInclude, EndOfInput, Ifdef, Ifndef, Conditional, Else, Endif,
              Skip, macros, MacStep
<1>4. CASE doinclude \/ Statement \/ Finish \/ UNCHANGED vars
  BY <1>4 DEF doinclude, exit, Statement, Finish, vars, macros, MacStep
<1>5. QED
  BY <1>1, <1>2, <1>3, <1>4 DEF Next

\* The entries for a name after a new one.
LEMMA EntriesAppend ==
  ASSUME TypeOK, NEW e \in Macro, mac' = Append(mac, e), NEW w
  PROVE  Entries(w)' = Entries(w) \cup (IF e.name = w THEN {Len(mac) + 1} ELSE {})
<1>1. mac \in Seq(Macro)
  BY DEF TypeOK, Macro
<1>2. /\ mac' \in Seq(Macro)
      /\ Len(mac') = Len(mac) + 1
      /\ \A k \in 1..Len(mac) : mac'[k] = mac[k]
      /\ mac'[Len(mac) + 1] = e
  BY <1>1, AppendProperties
<1>3. /\ DOMAIN mac = 1..Len(mac) /\ DOMAIN mac' = 1..(Len(mac) + 1)
      /\ Len(mac) \in Nat
  BY <1>1, <1>2
<1>4. QED
  BY <1>2, <1>3 DEF Entries

LEMMA FirstStep ==
  ASSUME TypeOK, FirstExists, MacStep
  PROVE  FirstExists'
<1>1. CASE mac' = mac
  BY <1>1 DEF FirstExists, IsMacro, Entries
<1>2. CASE mac' = <<>>
  BY <1>2 DEF FirstExists, IsMacro, Entries
<1>3. ASSUME NEW e \in Macro, mac' = Append(mac, e)
      PROVE  FirstExists'
  <2> SUFFICES ASSUME NEW w \in Word, IsMacro(w)'
               PROVE  \E k \in Entries(w)' : \A n \in Entries(w)' : k <= n
    BY Zenon DEF FirstExists
  <2>1. Entries(w)' = Entries(w) \cup (IF e.name = w THEN {Len(mac) + 1} ELSE {})
    BY <1>3, EntriesAppend
  <2>2. Entries(w) \subseteq 1..Len(mac) /\ Len(mac) \in Nat
    BY DEF TypeOK, Entries
  <2>3. CASE IsMacro(w)
    BY <2>1, <2>2, <2>3 DEF FirstExists
  <2>4. CASE ~IsMacro(w)
    BY <2>1, <2>2, <2>4 DEF IsMacro
  <2>5. QED
    BY <2>3, <2>4
<1>4. QED
  BY <1>1, <1>2, <1>3 DEF MacStep

-----------------------------------------------------------------------------
(* Conditional lines.                                                      *)

\* SkipExact as a fact about a level, a level to skip and the conditions.
Exact(lev, skip, c) ==
  /\ lev = Len(c)
  /\ skip = 0 => \A k \in 1..Len(c) : c[k]
  /\ skip # 0 => /\ skip \in 1..Len(c)
                 /\ ~c[skip]
                 /\ \A k \in 1..(skip - 1) : c[k]

LEMMA ExactOpen ==
  ASSUME NEW c \in Seq(BOOLEAN), NEW skip \in Nat, NEW h \in BOOLEAN,
         Exact(Len(c), skip, c)
  PROVE  /\ Append(c, h) \in Seq(BOOLEAN)
         /\ Exact(Len(c) + 1,
                  IF skip = 0 /\ ~h THEN Len(c) + 1 ELSE skip, Append(c, h))
<1> DEFINE d == Append(c, h)
<1>1. /\ d \in Seq(BOOLEAN) /\ Len(d) = Len(c) + 1 /\ Len(c) \in Nat
      /\ d[Len(c) + 1] = h
      /\ \A k \in 1..Len(c) : d[k] = c[k]
  BY AppendProperties
<1> HIDE DEF d
<1>2. d \in Seq(BOOLEAN)
      /\ Exact(Len(c) + 1, IF skip = 0 /\ ~h THEN Len(c) + 1 ELSE skip, d)
  BY <1>1 DEF Exact
<1>3. QED
  BY <1>2 DEF d

LEMMA ExactElse ==
  ASSUME NEW c \in Seq(BOOLEAN), NEW skip \in Nat, Len(c) # 0,
         Exact(Len(c), skip, c)
  PROVE  /\ [c EXCEPT ![Len(c)] = ~@] \in Seq(BOOLEAN)
         /\ Exact(Len(c), IF skip = Len(c) THEN 0
                          ELSE IF skip = 0 THEN Len(c) ELSE skip,
                  [c EXCEPT ![Len(c)] = ~@])
<1> DEFINE n == Len(c)
           d == [c EXCEPT ![n] = ~c[n]]
<1>1. n \in Nat /\ n \in 1..Len(c) /\ (~c[n]) \in BOOLEAN
  OBVIOUS
<1>2. /\ d \in Seq(BOOLEAN) /\ Len(d) = n
      /\ \A k \in 1..n : d[k] = IF k = n THEN ~c[n] ELSE c[k]
  BY <1>1, ExceptSeq
<1>3. [c EXCEPT ![Len(c)] = ~@] = d
  BY Zenon
<1> HIDE DEF d
<1>4. Exact(n, IF skip = n THEN 0 ELSE IF skip = 0 THEN n ELSE skip, d)
  BY <1>1, <1>2 DEF Exact
<1>5. QED
  BY <1>2, <1>3, <1>4

LEMMA ExactClose ==
  ASSUME NEW c \in Seq(BOOLEAN), NEW skip \in Nat, Len(c) # 0,
         Exact(Len(c), skip, c)
  PROVE  /\ SubSeq(c, 1, Len(c) - 1) \in Seq(BOOLEAN)
         /\ Exact(Len(c) - 1, IF skip = Len(c) THEN 0 ELSE skip,
                  SubSeq(c, 1, Len(c) - 1))
<1> DEFINE n == Len(c) - 1
           d == SubSeq(c, 1, n)
<1>1. n \in Nat /\ \A k \in 1..n : c[k] \in BOOLEAN
  OBVIOUS
<1>2. /\ d \in Seq(BOOLEAN) /\ Len(d) = n
      /\ \A k \in 1..n : d[k] = c[k]
  <2>1. /\ d \in Seq(BOOLEAN)
        /\ Len(d) = IF 1 <= n THEN n - 1 + 1 ELSE 0
        /\ \A k \in 1..(n - 1 + 1) : d[k] = c[1 + k - 1]
    BY <1>1, SubSeqProperties
  <2> HIDE DEF d, n
  <2>2. QED
    BY <1>1, <2>1
<1> HIDE DEF d
<1>3. Exact(n, IF skip = n + 1 THEN 0 ELSE skip, d)
  BY <1>1, <1>2 DEF Exact
<1>4. QED
  BY <1>2, <1>3 DEF d

\* The levels after a step: as before, all closed, or changed by one line.
LEMMA SkipStep ==
  ASSUME TypeOK, SkipExact, [Next]_vars
  PROVE  conds' \in Seq(BOOLEAN) /\ SkipExact'
<1>0. /\ Exact(iflevel, skiplevel, conds) /\ iflevel = Len(conds)
      /\ conds \in Seq(BOOLEAN) /\ skiplevel \in Nat
  BY DEF TypeOK, SkipExact, Exact
<1> SUFFICES conds' \in Seq(BOOLEAN) /\ Exact(iflevel', skiplevel', conds')
  BY DEF SkipExact, Exact
<1>1. CASE UNCHANGED levels
  BY <1>0, <1>1 DEF levels
<1>2. ASSUME NEW op, NEW true \in BOOLEAN, Conditional(op, true)
      PROVE  conds' \in Seq(BOOLEAN) /\ Exact(iflevel', skiplevel', conds')
  <2> DEFINE holds == ~(line.id \in Idents) \/ true
  <2>1. /\ iflevel' = Len(conds) + 1
        /\ conds' = Append(conds, holds)
        /\ skiplevel' = IF skiplevel = 0 /\ ~holds THEN Len(conds) + 1 ELSE skiplevel
        /\ holds \in BOOLEAN
    BY <1>0, <1>2 DEF Conditional
  <2> HIDE DEF holds
  <2>2. QED
    BY <1>0, <2>1, ExactOpen
<1>3. CASE Ifdef \/ Ifndef
  BY <1>2, <1>3 DEF Ifdef, Ifndef, IsMacro
<1>4. CASE Else /\ ~UNCHANGED levels
  <2>1. /\ Len(conds) # 0
        /\ iflevel' = Len(conds)
        /\ conds' = [conds EXCEPT ![Len(conds)] = ~@]
        /\ skiplevel' = IF skiplevel = Len(conds) THEN 0
                        ELSE IF skiplevel = 0 THEN Len(conds) ELSE skiplevel
    BY <1>0, <1>4 DEF Else
  <2>2. QED
    BY <1>0, <2>1, ExactElse
<1>5. CASE Endif /\ ~UNCHANGED levels
  <2>1. /\ Len(conds) # 0
        /\ iflevel' = Len(conds) - 1
        /\ conds' = SubSeq(conds, 1, Len(conds) - 1)
        /\ skiplevel' = IF skiplevel = Len(conds) THEN 0 ELSE skiplevel
    BY <1>0, <1>5 DEF Endif
  <2>2. QED
    BY <1>0, <2>1, ExactClose
<1>6. CASE NextPass
  BY <1>6 DEF NextPass, Begin, Exact
<1>7. CASE EndOfInclude \/ EndOfInput \/ Skip \/ doinclude \/ declmac \/ Statement
             \/ Finish \/ UNCHANGED vars
  BY <1>1, <1>7 DEF EndOfInclude, EndOfInput, Skip, doinclude, declmac,
                    Statement, Finish, vars
<1>8. QED
  BY <1>1, <1>3, <1>4, <1>5, <1>6, <1>7 DEF Next

-----------------------------------------------------------------------------
(* Types.                                                                  *)

LEMMA MacType ==
  ASSUME TypeOK, FirstExists, [Next]_vars, MacStep
  PROVE  mac' \in Seq(Macro) /\ Len(mac') <= MACMAX
<1>1. mac \in Seq(Macro) /\ Len(mac) <= MACMAX
  BY DEF TypeOK, Macro
<1>2. CASE mac' = mac
  BY <1>1, <1>2
<1>3. CASE mac' = <<>>
  BY <1>3, LimitsAssumption
<1>4. ASSUME NEW e \in Macro, mac' = Append(mac, e)
      PROVE  mac' \in Seq(Macro) /\ Len(mac') <= MACMAX
  <2>1. mac' \in Seq(Macro) /\ Len(mac') = Len(mac) + 1 /\ Len(mac) \in Nat
    BY <1>1, <1>4, AppendProperties
  <2>2. mac' # mac
    BY <1>1, <2>1
  <2>3. declmac \/ NextPass
    BY <2>2 DEF Next, vars, EndOfInclude, EndOfInput, Ifdef, Ifndef, Conditional,
                Else, Endif, Skip, doinclude, exit, Statement, Finish, macros
  <2>4. CASE declmac
    <3>1. Len(mac) < MACMAX
      BY <2>2, <2>4 DEF declmac, exit, macros
    <3>2. QED
      BY <1>1, <2>1, <3>1, LimitsAssumption
  <2>5. CASE NextPass
    <3>1. mac' = <<>>
      BY <2>5 DEF NextPass, Begin
    <3>2. QED
      BY <2>1, <3>1
  <2>6. QED
    BY <2>3, <2>4, <2>5
<1>5. QED
  BY <1>2, <1>3, <1>4 DEF MacStep

\* The parts of TypeOK that need no argument of their own.
Simple ==
  /\ src \in Sources
  /\ pc \in {"run", "ended", "exit", "done"}
  /\ pass \in {1, 2}
  /\ inppos \in Nat /\ incpos \in Nat
  /\ inchdl \in DOMAIN src.inc \cup {NONE}
  /\ iflevel \in Nat /\ skiplevel \in Nat

LEMMA SimpleStep ==
  ASSUME TypeOK, SkipExact, [Next]_vars
  PROVE  Simple'
<1>0. Simple
  BY DEF TypeOK, Simple
<1>1. CASE EndOfInclude \/ EndOfInput
  BY <1>0, <1>1 DEF EndOfInclude, EndOfInput, Simple, input, macros, levels
<1>10. CASE Finish \/ NextPass
  BY <1>0, <1>10 DEF Finish, NextPass, Begin, Simple, input, macros, levels
<1>2. ASSUME NEW op, NEW true \in BOOLEAN, Conditional(op, true)
      PROVE  Simple'
  BY <1>0, <1>2, AdvanceType DEF Conditional, readline, Simple, macros
<1>3. CASE Ifdef \/ Ifndef
  BY <1>2, <1>3 DEF Ifdef, Ifndef, IsMacro
<1>4. CASE Else \/ Endif
  <2>1. Len(conds) \in Nat /\ iflevel = Len(conds)
    BY DEF TypeOK, SkipExact
  <2>2. QED
    <3>1. CASE Else
      BY <1>0, <3>1, <2>1, AdvanceType DEF Else, readline, Simple, levels, macros
    <3>2. CASE Endif
      BY <1>0, <3>2, <2>1, AdvanceType DEF Endif, readline, Simple, levels, macros
    <3>3. QED
      BY <1>4, <3>1, <3>2
<1>5. CASE Skip \/ Statement
  BY <1>0, <1>5, AdvanceType DEF Skip, Statement, readline, Simple, macros, levels
<1>6. CASE doinclude
  <2>1. inppos' \in Nat /\ incpos' \in Nat
    BY <1>0, <1>6, AdvanceType DEF doinclude, Simple
  <2>2. /\ UNCHANGED <<src, pass, iflevel, skiplevel>>
        /\ inchdl' = inchdl \/ inchdl' \in DOMAIN src.inc
        /\ pc' = pc \/ pc' = "exit"
    BY <1>6 DEF doinclude, exit, levels
  <2>3. QED
    BY <1>0, <2>1, <2>2 DEF Simple
<1>7. CASE declmac
  <2>1. inppos' \in Nat /\ incpos' \in Nat /\ UNCHANGED <<src, pass, inchdl, levels>>
    BY <1>7, AdvanceType DEF declmac, readline, exit
  <2>2. pc' \in {"run", "ended", "exit", "done"}
    BY <1>0, <1>7 DEF declmac, exit, Simple
  <2>3. QED
    BY <1>0, <2>1, <2>2 DEF Simple, levels
<1>8. CASE UNCHANGED vars
  BY <1>0, <1>8 DEF vars, input, macros, levels, Simple
<1>9. QED
  BY <1>1, <1>3, <1>4, <1>5, <1>6, <1>7, <1>8, <1>10 DEF Next

LEMMA ErrflagType ==
  ASSUME TypeOK, [Next]_vars
  PROVE  errflag' \in BOOLEAN
<1>1. errflag \in BOOLEAN
  BY DEF TypeOK
<1>2. CASE UNCHANGED errflag \/ errflag' = TRUE
  BY <1>1, <1>2
<1>3. CASE Ifdef \/ Ifndef \/ NextPass \/ Finish
  <2>1. \E b \in BOOLEAN : errflag' = (errflag \/ b)
    BY <1>3, Zenon DEF Ifdef, Ifndef, Conditional, NextPass, Finish
  <2>2. QED
    BY <1>1, <2>1, Zenon
<1>4. CASE EndOfInclude \/ EndOfInput \/ Else \/ Endif \/ Skip \/ Statement
  BY <1>2, <1>4 DEF EndOfInclude, EndOfInput, Else, Endif, Skip, Statement
<1>5. CASE doinclude \/ declmac \/ UNCHANGED vars
  BY <1>2, <1>5 DEF doinclude, declmac, exit, vars
<1>6. QED
  BY <1>3, <1>4, <1>5 DEF Next

LEMMA StoreType ==
  ASSUME TypeOK, FirstExists, [Next]_vars
  PROVE  macqinx' \in 0..MACQMAX
<1>1. CASE declmac
  <2>1. HasLine /\ line.op = "define"
    BY <1>1 DEF declmac, readline
  <2>2. CASE UNCHANGED macros
    BY <2>2 DEF TypeOK, macros
  <2>3. CASE ~UNCHANGED macros
    <3>1. /\ Expanded # <<>> /\ Expanded[1] \in Idents
          /\ macqinx' = Stored(Len(Expanded) - 1)
      BY <1>1, <2>3 DEF declmac, exit
    <3>2. Len(Expanded) \in 1..2
      BY <2>1, <3>1, DeclaredType
    <3>3. QED
      BY <3>1, <3>2, LimitsAssumption DEF Stored, TypeOK
  <2>4. QED
    BY <2>2, <2>3
<1>2. CASE NextPass
  BY <1>2, LimitsAssumption DEF NextPass, Begin
<1>3. CASE ~declmac /\ ~NextPass
  BY <1>3 DEF Next, vars, EndOfInclude, EndOfInput, Ifdef, Ifndef, Conditional, Else,
              Endif, Skip, doinclude, exit, Statement, Finish, macros, TypeOK
<1>4. QED
  BY <1>1, <1>2, <1>3

LEMMA GotType ==
  ASSUME TypeOK, FirstExists, [Next]_vars
  PROVE  got' \in [{1, 2} -> Seq(Body)]
<1>1. CASE Statement
  <2>1. Expand(line.id) \in Body
    <3>1. HasLine /\ line.op = "text"
      BY <1>1 DEF Statement, readline
    <3>2. QED
      BY <3>1, LineType, LineFields, ExpandType
  <2>2. got[pass] \in Seq(Body) /\ pass \in {1, 2} /\ got \in [{1, 2} -> Seq(Body)]
    BY DEF TypeOK
  <2>3. Append(got[pass], Expand(line.id)) \in Seq(Body)
    BY <2>1, <2>2, AppendProperties
  <2>4. got' = [got EXCEPT ![pass] = Append(got[pass], Expand(line.id))]
    BY <1>1 DEF Statement
  <2>5. QED
    BY <2>2, <2>3, <2>4
<1>2. CASE ~Statement
  BY <1>2 DEF Next, vars, EndOfInclude, EndOfInput, Ifdef, Ifndef, Conditional, Else,
              Endif, Skip, doinclude, declmac, NextPass, Finish, TypeOK
<1>3. QED
  BY <1>1, <1>2

-----------------------------------------------------------------------------
(* Theorems.                                                               *)

LEMMA Initially ==
  ASSUME Init
  PROVE  IInv
<1>1. SkipExact
  BY DEF Init, SkipExact
<1>2. FirstExists
  BY DEF Init, FirstExists, IsMacro, Entries
<1>3. TypeOK
  <2>1. got \in [{1, 2} -> Seq(Body)]
    BY DEF Init
  <2>2. mac \in Seq([name : Idents, to : Body]) /\ Len(mac) <= MACMAX
    BY LimitsAssumption DEF Init
  <2>3. conds \in Seq(BOOLEAN) /\ errflag \in BOOLEAN
    <3>1. <<>> \in Seq(BOOLEAN)
      OBVIOUS
    <3>2. QED
      BY <3>1, Zenon DEF Init
  <2>4. QED
    BY <2>1, <2>2, <2>3, LimitsAssumption DEF Init, TypeOK
<1>4. QED
  BY <1>1, <1>2, <1>3 DEF IInv

LEMMA Inductive ==
  ASSUME IInv, [Next]_vars
  PROVE  IInv'
<1>0. TypeOK /\ SkipExact /\ FirstExists
  BY DEF IInv
<1>1. MacStep
  BY <1>0, MacStepped
<1>2. FirstExists'
  BY <1>0, <1>1, FirstStep
<1>3. conds' \in Seq(BOOLEAN) /\ SkipExact'
  BY <1>0, SkipStep
<1>4. mac' \in Seq(Macro) /\ Len(mac') <= MACMAX
  BY <1>0, <1>1, MacType
<1>5. Simple'
  BY <1>0, SimpleStep
<1>6. macqinx' \in 0..MACQMAX
  BY <1>0, StoreType
<1>7. got' \in [{1, 2} -> Seq(Body)] /\ errflag' \in BOOLEAN
  BY <1>0, GotType, ErrflagType
<1>8. TypeOK'
  BY <1>3, <1>4, <1>5, <1>6, <1>7, Zenon DEF TypeOK, Simple, Macro
<1>9. QED
  BY <1>2, <1>3, <1>8 DEF IInv

LEMMA Invariant == Spec => []IInv
<1>1. Init => IInv
  BY Initially
<1>2. IInv /\ [Next]_vars => IInv'
  BY Inductive
<1>3. QED
  BY <1>1, <1>2, PTL DEF Spec

\* The state keeps its types for every source: declmac() never writes outside
\* mac[] and macq[].
THEOREM TypeCorrect == Spec => []TypeOK
<1>1. IInv => TypeOK
  BY DEF IInv
<1>2. QED
  BY <1>1, Invariant, PTL

\* However conditions are nested, and in whichever files, ifline() skips from
\* the outermost branch that is not taken.
THEOREM SkippingExact == Spec => []SkipExact
<1>1. IInv => SkipExact
  BY DEF IInv
<1>2. QED
  BY <1>1, Invariant, PTL

\* Within a pass no line changes what a macro stands for.
THEOREM MeaningsStable == Spec => MacroStable
<1>1. ASSUME IInv, IInv', [Next]_vars
      PROVE  [KeepsMeaning]_vars
  <2> SUFFICES ASSUME NEW w \in Word, IsMacro(w), pass' = pass
               PROVE  IsMacro(w)' /\ Expand(w)' = Expand(w)
    BY Zenon DEF KeepsMeaning
  <2>0. TypeOK /\ FirstExists /\ FirstExists'
    BY <1>1 DEF IInv
  <2>1. MacStep
    BY <1>1, <2>0, MacStepped
  <2>2. CASE mac' = mac
    <3>1. Entries(w)' = Entries(w)
      BY <2>2 DEF Entries
    <3>2. findmac(w)' = findmac(w)
      BY <3>1, Zenon DEF findmac
    <3>3. QED
      BY <2>2, <3>1, <3>2, Zenon DEF Expand, IsMacro
  <2>3. ASSUME NEW e \in Macro, mac' = Append(mac, e)
        PROVE  IsMacro(w)' /\ Expand(w)' = Expand(w)
    <3>1. Entries(w)' = Entries(w) \cup (IF e.name = w THEN {Len(mac) + 1} ELSE {})
      BY <2>0, <2>3, EntriesAppend
    <3>2. Entries(w) \subseteq 1..Len(mac) /\ Len(mac) \in Nat
      BY <2>0 DEF TypeOK, Entries
    <3>3. IsMacro(w)'
      BY <3>1 DEF IsMacro
    <3>4. findmac(w) \in Entries(w) /\ \A n \in Entries(w) : findmac(w) <= n
      BY <2>0, FindmacFirst
    <3>5. findmac(w)' \in Entries(w)' /\ \A n \in Entries(w)' : findmac(w)' <= n
      <4>1. \E k \in Entries(w)' : \A n \in Entries(w)' : k <= n
        BY <2>0, <3>3, Zenon DEF FirstExists
      <4>2. QED
        BY <4>1, Zenon DEF findmac
    <3>6. findmac(w)' = findmac(w)
      <4> DEFINE f == findmac(w)
                 g == findmac(w)'
                 E == Entries(w)
                 F == Entries(w)'
      <4>1. f \in E /\ (\A n \in E : f <= n) /\ g \in F /\ (\A n \in F : g <= n)
        BY <3>4, <3>5
      <4> HIDE DEF f, g, E, F
      <4>2. F = E \cup (IF e.name = w THEN {Len(mac) + 1} ELSE {})
            /\ E \subseteq 1..Len(mac)
        BY <3>1, <3>2 DEF E, F
      <4>3. f = g
        BY <3>2, <4>1, <4>2
      <4>4. QED
        BY <4>3 DEF f, g
    <3>7. mac'[findmac(w)] = mac[findmac(w)]
      <4>1. mac \in Seq(Macro)
        BY <2>0 DEF TypeOK, Macro
      <4>2. findmac(w) \in 1..Len(mac)
        BY <3>2, <3>4
      <4>3. QED
        BY <2>3, <4>1, <4>2, AppendProperties
    <3>8. QED
      BY <3>3, <3>6, <3>7, Zenon DEF Expand
  <2>4. QED
    BY <2>1, <2>2, <2>3 DEF MacStep
<1>2. QED
  BY <1>1, Invariant, PTL DEF MacroStable, Spec

-----------------------------------------------------------------------------
(* The two passes.                                                         *)

\* What a pass has come to, apart from its messages: where it reads, its
\* macros and levels, and the statements it has delivered.
View ==
  [pc |-> pc, inp |-> inppos, hdl |-> inchdl, inc |-> IF Including THEN incpos ELSE 0,
   mac |-> mac, q |-> macqinx, lev |-> iflevel, skip |-> skiplevel, got |-> got[pass]]

Start ==
  [pc |-> "run", inp |-> 0, hdl |-> NONE, inc |-> 0,
   mac |-> <<>>, q |-> 0, lev |-> 0, skip |-> 0, got |-> <<>>]

\* The line of source s that a pass at v reads next.
FileOf(s, v) == IF v.hdl # NONE THEN s.inc[v.hdl] ELSE s.main
PosOf(v) == IF v.hdl # NONE THEN v.inc ELSE v.inp
MoreOf(s, v) == PosOf(v) < Len(FileOf(s, v))
LineOf(s, v) == FileOf(s, v)[PosOf(v) + 1]
Takes(s, v, op) == MoreOf(s, v) /\ LineOf(s, v).op = op
Obeys(s, v, op) == Takes(s, v, op) /\ v.skip = 0

EntriesIn(m, w) == {k \in DOMAIN m : m[k].name = w}
First(E) == CHOOSE k \in E : \A n \in E : k <= n
ExpandIn(m, w) ==
  IF EntriesIn(m, w) # {} THEN m[First(EntriesIn(m, w))].to ELSE <<w>>
DefOf(s, v) ==
  LET l == LineOf(s, v)
  IN  ExpandIn(v.mac, l.id) \o (IF l.to = <<>> THEN <<>> ELSE ExpandIn(v.mac, l.to[1]))
NamedDef(s, v) == DefOf(s, v) # <<>> /\ DefOf(s, v)[1] \in Idents
Declares(s, v) == Obeys(s, v, "define") /\ NamedDef(s, v) /\ Len(v.mac) < MACMAX
Opens(s, v) == Obeys(s, v, "include") /\ v.hdl = NONE /\ LineOf(s, v).file # NONE

\* The condition of an #if fails.
Fails(s, v) ==
  LET l == LineOf(s, v) IN
  /\ l.id \in Idents
  /\ IF l.op = "ifdef" THEN EntriesIn(v.mac, l.id) = {} ELSE EntriesIn(v.mac, l.id) # {}
Ifs(s, v) == Takes(s, v, "ifdef") \/ Takes(s, v, "ifndef")

AfterQ(s, v) ==
  LET n == v.q + (Len(DefOf(s, v)) - 1) + 1
  IN  IF Declares(s, v) THEN (IF n < MACQMAX THEN n ELSE MACQMAX) ELSE v.q
AfterPc(s, v) ==
  IF ~MoreOf(s, v) THEN (IF v.hdl = NONE THEN "ended" ELSE "run")
  ELSE IF Obeys(s, v, "text")
    THEN (IF ExpandIn(v.mac, LineOf(s, v).id) = <<END>> THEN "ended" ELSE "run")
  ELSE IF Opens(s, v) THEN (IF LineOf(s, v).file \in DOMAIN s.inc THEN "run" ELSE "exit")
  ELSE IF Obeys(s, v, "define") /\ NamedDef(s, v)
    THEN (IF Len(v.mac) >= MACMAX \/ AfterQ(s, v) = MACQMAX THEN "exit" ELSE "run")
  ELSE "run"
AfterInp(s, v) == IF v.hdl = NONE /\ MoreOf(s, v) THEN v.inp + 1 ELSE v.inp
AfterHdl(s, v) ==
  IF ~MoreOf(s, v) THEN NONE
  ELSE IF Opens(s, v) /\ LineOf(s, v).file \in DOMAIN s.inc THEN LineOf(s, v).file
  ELSE v.hdl
AfterInc(s, v) == IF v.hdl # NONE /\ MoreOf(s, v) THEN v.inc + 1 ELSE 0
AfterMac(s, v) ==
  IF Declares(s, v)
    THEN Append(v.mac, [name |-> DefOf(s, v)[1], to |-> Tail(DefOf(s, v))])
    ELSE v.mac
AfterLev(s, v) ==
  IF Ifs(s, v) THEN v.lev + 1
  ELSE IF Takes(s, v, "endif") /\ v.lev # 0 THEN v.lev - 1
  ELSE v.lev
AfterSkip(s, v) ==
  IF Ifs(s, v) THEN (IF v.skip = 0 /\ Fails(s, v) THEN v.lev + 1 ELSE v.skip)
  ELSE IF (Takes(s, v, "else") \/ Takes(s, v, "endif")) /\ v.lev # 0
    THEN (IF v.skip = v.lev THEN 0
          ELSE IF Takes(s, v, "else") /\ v.skip = 0 THEN v.lev ELSE v.skip)
  ELSE v.skip
AfterGot(s, v) ==
  IF Obeys(s, v, "text") THEN Append(v.got, ExpandIn(v.mac, LineOf(s, v).id)) ELSE v.got

\* The next line does the same to the same state, in either pass.
After(s, v) ==
  [pc |-> AfterPc(s, v), inp |-> AfterInp(s, v), hdl |-> AfterHdl(s, v),
   inc |-> AfterInc(s, v), mac |-> AfterMac(s, v), q |-> AfterQ(s, v),
   lev |-> AfterLev(s, v), skip |-> AfterSkip(s, v), got |-> AfterGot(s, v)]

LEMMA Seen ==
  ASSUME TypeOK
  PROVE  /\ View.pc = pc /\ View.inp = inppos /\ View.hdl = inchdl
         /\ View.inc = (IF Including THEN incpos ELSE 0)
         /\ View.mac = mac /\ View.q = macqinx /\ View.lev = iflevel
         /\ View.skip = skiplevel /\ View.got = got[pass]
  BY DEF View

LEMMA SeenLine ==
  ASSUME TypeOK
  PROVE  /\ MoreOf(src, View) <=> Position < Len(Current)
         /\ LineOf(src, View) = line
<1>1. FileOf(src, View) = Current /\ PosOf(View) = Position
  BY Seen DEF FileOf, PosOf, Current, Position, Including
<1>2. QED
  BY <1>1 DEF MoreOf, LineOf, line

LEMMA SeenMacros ==
  ASSUME TypeOK
  PROVE  /\ \A w : EntriesIn(View.mac, w) = Entries(w) /\ ExpandIn(View.mac, w) = Expand(w)
         /\ DefOf(src, View) = Expanded
<1>1. \A w : EntriesIn(View.mac, w) = Entries(w)
  BY Seen DEF EntriesIn, Entries
<1>2. View.mac = mac
  BY Seen
<1>3. ASSUME NEW w PROVE ExpandIn(View.mac, w) = Expand(w)
  <2>1. findmac(w) = First(Entries(w))
    BY DEF findmac, First
  <2>2. EntriesIn(View.mac, w) = Entries(w)
    BY <1>1
  <2>3. QED
    BY <1>2, <2>1, <2>2 DEF ExpandIn, Expand, IsMacro
<1>4. LineOf(src, View) = line
  BY SeenLine
<1>5. DefOf(src, View) = Expanded
  BY <1>3, <1>4, Zenon DEF DefOf, Expanded
<1>6. QED
  BY <1>1, <1>3, <1>5

\* The kind of the next line decides.
LEMMA SeenKind ==
  ASSUME TypeOK, HasLine, NEW op, line.op = op
  PROVE  /\ \A o : Takes(src, View, o) <=> o = op
         /\ \A o : Obeys(src, View, o) <=> o = op /\ skiplevel = 0
         /\ MoreOf(src, View)
  BY SeenLine, Seen DEF Takes, Obeys, HasLine

LEMMA SeenEnd ==
  ASSUME TypeOK, ~ (Position < Len(Current))
  PROVE  /\ \A o : ~ Takes(src, View, o) /\ ~ Obeys(src, View, o)
         /\ ~ MoreOf(src, View)
  BY SeenLine DEF Takes, Obeys

\* The next state of a pass, part by part.
Matches ==
  /\ pc' = AfterPc(src, View) /\ inppos' = AfterInp(src, View)
  /\ inchdl' = AfterHdl(src, View)
  /\ (IF inchdl' # NONE THEN incpos' ELSE 0) = AfterInc(src, View)
  /\ mac' = AfterMac(src, View) /\ macqinx' = AfterQ(src, View)
  /\ iflevel' = AfterLev(src, View) /\ skiplevel' = AfterSkip(src, View)
  /\ got'[pass'] = AfterGot(src, View)

LEMMA MatchedView ==
  ASSUME Matches
  PROVE  View' = After(src, View)
  BY DEF Matches, View, After, Including

\* Reading on in the same file.
LEMMA ReadOn ==
  ASSUME TypeOK, HasLine, Advance, inchdl' = inchdl
  PROVE  /\ inppos' = AfterInp(src, View)
         /\ (IF inchdl' # NONE THEN incpos' ELSE 0) = AfterInc(src, View)
<1>1. MoreOf(src, View)
  BY SeenLine DEF HasLine
<1>2. QED
  BY <1>1, Seen DEF Advance, Including, AfterInp, AfterInc

\* What the other kinds of lines leave alone.
LEMMA LevelsKept ==
  ASSUME TypeOK, \A o \in {"ifdef", "ifndef", "else", "endif"} : ~ Takes(src, View, o)
  PROVE  AfterLev(src, View) = iflevel /\ AfterSkip(src, View) = skiplevel
  BY Seen DEF AfterLev, AfterSkip, Ifs

LEMMA MacrosKept ==
  ASSUME TypeOK, ~ Obeys(src, View, "define")
  PROVE  AfterMac(src, View) = mac /\ AfterQ(src, View) = macqinx
  BY Seen DEF AfterMac, AfterQ, Declares

LEMMA HandleKept ==
  ASSUME TypeOK, ~ Obeys(src, View, "include"), MoreOf(src, View)
  PROVE  AfterHdl(src, View) = inchdl
  BY Seen DEF AfterHdl, Opens

LEMMA GotKept ==
  ASSUME TypeOK, ~ Obeys(src, View, "text")
  PROVE  AfterGot(src, View) = got[pass]
  BY Seen DEF AfterGot

LEMMA RunsOn ==
  ASSUME TypeOK, MoreOf(src, View), ~ Obeys(src, View, "text"),
         ~ Obeys(src, View, "include"), ~ Obeys(src, View, "define")
  PROVE  AfterPc(src, View) = "run"
  BY DEF AfterPc, Opens

LEMMA EndsMatch ==
  ASSUME TypeOK, EndOfInclude \/ EndOfInput
  PROVE  Matches
<1>1. /\ ~ (Position < Len(Current)) /\ UNCHANGED <<src, pass, inppos, incpos, macros, levels, got>>
      /\ pc' = (IF Including THEN "run" ELSE "ended") /\ inchdl' = NONE
  <2>1. Len(Current) \in Nat
    BY SourcesAssumption, WordsAssumption DEF TypeOK, Current, Including
  <2>2. QED
    BY <2>1 DEF EndOfInclude, EndOfInput, Position, Current, Including, input, TypeOK
<1>2. /\ \A o : ~ Takes(src, View, o) /\ ~ Obeys(src, View, o)
      /\ ~ MoreOf(src, View)
  BY <1>1, SeenEnd
<1>3. AfterLev(src, View) = iflevel /\ AfterSkip(src, View) = skiplevel
  BY <1>2, LevelsKept
<1>4. AfterMac(src, View) = mac /\ AfterQ(src, View) = macqinx /\ AfterGot(src, View) = got[pass]
  BY <1>2, MacrosKept, GotKept
<1>5. /\ AfterHdl(src, View) = NONE /\ AfterInp(src, View) = inppos /\ AfterInc(src, View) = 0
      /\ AfterPc(src, View) = IF Including THEN "run" ELSE "ended"
  BY <1>2, Seen DEF AfterHdl, AfterInp, AfterInc, AfterPc, Including
<1>6. QED
  BY <1>1, <1>3, <1>4, <1>5 DEF Matches, macros, levels

LEMMA ConditionsMatch ==
  ASSUME TypeOK, SkipExact, Ifdef \/ Ifndef \/ Else \/ Endif
  PROVE  Matches
<1>1. /\ HasLine /\ line.op \in {"ifdef", "ifndef", "else", "endif"} /\ Advance
      /\ UNCHANGED <<src, pass, pc, inchdl, macros, got>>
  BY DEF Ifdef, Ifndef, Conditional, Else, Endif, readline
<1> DEFINE op == line.op
<1>2. /\ \A o : Takes(src, View, o) <=> o = op
      /\ \A o : Obeys(src, View, o) <=> o = op /\ skiplevel = 0
      /\ MoreOf(src, View)
  BY <1>1, SeenKind
<1>3. ~ Obeys(src, View, "text") /\ ~ Obeys(src, View, "include") /\ ~ Obeys(src, View, "define")
  BY <1>1, <1>2
<1>4. /\ AfterMac(src, View) = mac /\ AfterQ(src, View) = macqinx /\ AfterGot(src, View) = got[pass]
      /\ AfterHdl(src, View) = inchdl /\ AfterPc(src, View) = "run"
  BY <1>2, <1>3, MacrosKept, GotKept, HandleKept, RunsOn
<1>5. /\ inppos' = AfterInp(src, View)
      /\ (IF inchdl' # NONE THEN incpos' ELSE 0) = AfterInc(src, View)
  BY <1>1, ReadOn
<1>6. iflevel' = AfterLev(src, View) /\ skiplevel' = AfterSkip(src, View)
  <2>0. View.lev = iflevel /\ View.skip = skiplevel
    BY Seen
  <2>1. CASE op \in {"ifdef", "ifndef"}
    <3> DEFINE fails == line.id \in Idents
                        /\ IF op = "ifdef" THEN ~ IsMacro(line.id) ELSE IsMacro(line.id)
    <3>1. Fails(src, View) <=> fails
      BY SeenLine, SeenMacros DEF Fails, IsMacro
    <3>2. /\ iflevel' = iflevel + 1
          /\ skiplevel' = IF skiplevel = 0 /\ fails THEN iflevel + 1 ELSE skiplevel
      <4>1. CASE op = "ifdef"
        <5>1. Ifdef
          BY <4>1 DEF Ifndef, Conditional, Else, Endif, readline
        <5>2. QED
          BY <4>1, <5>1 DEF Ifdef, Conditional
      <4>2. CASE op = "ifndef"
        <5>1. Ifndef
          BY <4>2 DEF Ifdef, Conditional, Else, Endif, readline
        <5>2. QED
          BY <4>2, <5>1 DEF Ifndef, Conditional
      <4>3. QED
        BY <2>1, <4>1, <4>2
    <3> HIDE DEF fails
    <3>3. Ifs(src, View)
      BY <1>2, <2>1 DEF Ifs
    <3>4. QED
      BY <2>0, <3>1, <3>2, <3>3 DEF AfterLev, AfterSkip
  <2>2. CASE op = "else"
    <3>1. Else
      BY <2>2 DEF Ifdef, Ifndef, Conditional, Endif, readline
    <3>2. iflevel' = iflevel
          /\ skiplevel' = IF iflevel = 0 THEN skiplevel
                          ELSE IF skiplevel = iflevel THEN 0
                          ELSE IF skiplevel = 0 THEN iflevel ELSE skiplevel
      BY <3>1 DEF Else, levels
    <3>3. ~ Ifs(src, View) /\ Takes(src, View, "else") /\ ~ Takes(src, View, "endif")
      BY <1>2, <2>2 DEF Ifs
    <3>4. QED
      BY <2>0, <3>2, <3>3 DEF AfterLev, AfterSkip
  <2>3. CASE op = "endif"
    <3>1. Endif
      BY <2>3 DEF Ifdef, Ifndef, Conditional, Else, readline
    <3>2. /\ iflevel' = (IF iflevel = 0 THEN iflevel ELSE iflevel - 1)
          /\ skiplevel' = IF iflevel = 0 THEN skiplevel
                          ELSE IF skiplevel = iflevel THEN 0 ELSE skiplevel
      BY <3>1 DEF Endif, levels
    <3>3. ~ Ifs(src, View) /\ ~ Takes(src, View, "else") /\ Takes(src, View, "endif")
      BY <1>2, <2>3 DEF Ifs
    <3>4. QED
      BY <2>0, <3>2, <3>3 DEF AfterLev, AfterSkip
  <2>4. QED
    BY <1>1, <2>1, <2>2, <2>3
<1>7. pc = "run"
  BY <1>1 DEF HasLine
<1>8. QED
  BY <1>1, <1>4, <1>5, <1>6, <1>7 DEF Matches, macros

LEMMA SkipMatches ==
  ASSUME TypeOK, Skip
  PROVE  Matches
<1>1. /\ HasLine /\ line.op \in {"include", "define", "text"} /\ Advance /\ skiplevel # 0
      /\ UNCHANGED <<src, pass, pc, inchdl, macros, levels, got>>
  BY DEF Skip, readline
<1> DEFINE op == line.op
<1>2. /\ \A o : Takes(src, View, o) <=> o = op
      /\ \A o : Obeys(src, View, o) <=> o = op /\ skiplevel = 0
      /\ MoreOf(src, View)
  BY <1>1, SeenKind
<1>3. ~ Obeys(src, View, "text") /\ ~ Obeys(src, View, "include") /\ ~ Obeys(src, View, "define")
  BY <1>1, <1>2
<1>4. /\ AfterMac(src, View) = mac /\ AfterQ(src, View) = macqinx /\ AfterGot(src, View) = got[pass]
      /\ AfterHdl(src, View) = inchdl /\ AfterPc(src, View) = "run"
  BY <1>2, <1>3, MacrosKept, GotKept, HandleKept, RunsOn
<1>5. /\ inppos' = AfterInp(src, View)
      /\ (IF inchdl' # NONE THEN incpos' ELSE 0) = AfterInc(src, View)
  BY <1>1, ReadOn
<1>6. AfterLev(src, View) = iflevel /\ AfterSkip(src, View) = skiplevel
  <2>1. \A o \in {"ifdef", "ifndef", "else", "endif"} : ~ Takes(src, View, o)
    BY <1>1, <1>2
  <2>2. QED
    BY <2>1, LevelsKept
<1>7. pc = "run"
  BY <1>1 DEF HasLine
<1>8. QED
  BY <1>1, <1>4, <1>5, <1>6, <1>7 DEF Matches, macros, levels

LEMMA StatementMatches ==
  ASSUME TypeOK, Statement
  PROVE  Matches
<1> DEFINE words == Expand(line.id)
<1>1. /\ HasLine /\ line.op = "text" /\ Advance /\ skiplevel = 0
      /\ UNCHANGED <<src, pass, inchdl, macros, levels>>
      /\ got' = [got EXCEPT ![pass] = Append(got[pass], words)]
      /\ pc' = IF words = <<END>> THEN "ended" ELSE pc
  BY DEF Statement, readline
<1>2. /\ \A o : Takes(src, View, o) <=> o = "text"
      /\ \A o : Obeys(src, View, o) <=> o = "text" /\ skiplevel = 0
      /\ MoreOf(src, View)
  BY <1>1, SeenKind
<1>3. AfterMac(src, View) = mac /\ AfterQ(src, View) = macqinx /\ AfterHdl(src, View) = inchdl
  BY <1>2, MacrosKept, HandleKept
<1>4. AfterLev(src, View) = iflevel /\ AfterSkip(src, View) = skiplevel
  <2>1. \A o \in {"ifdef", "ifndef", "else", "endif"} : ~ Takes(src, View, o)
    BY <1>2
  <2>2. QED
    BY <2>1, LevelsKept
<1>5. /\ inppos' = AfterInp(src, View)
      /\ (IF inchdl' # NONE THEN incpos' ELSE 0) = AfterInc(src, View)
  BY <1>1, ReadOn
<1>6. ExpandIn(View.mac, LineOf(src, View).id) = words /\ View.got = got[pass]
  BY SeenMacros, SeenLine, Seen
<1>7. Obeys(src, View, "text") /\ pc = "run"
  BY <1>1, <1>2 DEF HasLine
<1> HIDE DEF words
<1>8. AfterGot(src, View) = Append(got[pass], words)
  BY <1>6, <1>7 DEF AfterGot
<1>9. got'[pass'] = Append(got[pass], words)
  BY <1>1 DEF TypeOK
<1>10. AfterPc(src, View) = IF words = <<END>> THEN "ended" ELSE "run"
  BY <1>2, <1>6, <1>7 DEF AfterPc
<1>11. QED
  BY <1>1, <1>3, <1>4, <1>5, <1>7, <1>8, <1>9, <1>10 DEF Matches, macros, levels

LEMMA IncludeMatches ==
  ASSUME TypeOK, doinclude
  PROVE  Matches
<1>1. /\ HasLine /\ line.op = "include" /\ skiplevel = 0 /\ pc = "run"
      /\ UNCHANGED <<src, pass, macros, levels, got>>
  BY DEF doinclude, HasLine
<1>2. /\ \A o : Takes(src, View, o) <=> o = "include"
      /\ \A o : Obeys(src, View, o) <=> o = "include" /\ skiplevel = 0
      /\ MoreOf(src, View)
  BY <1>1, SeenKind
<1>3. AfterMac(src, View) = mac /\ AfterQ(src, View) = macqinx /\ AfterGot(src, View) = got[pass]
  BY <1>2, MacrosKept, GotKept
<1>4. AfterLev(src, View) = iflevel /\ AfterSkip(src, View) = skiplevel
  <2>1. \A o \in {"ifdef", "ifndef", "else", "endif"} : ~ Takes(src, View, o)
    BY <1>2
  <2>2. QED
    BY <2>1, LevelsKept
<1>5. Opens(src, View) <=> ~ Including /\ line.file # NONE
  BY <1>1, <1>2, Seen, SeenLine DEF Opens, Including
<1>6. LineOf(src, View) = line /\ View.hdl = inchdl /\ View.inp = inppos
  BY Seen, SeenLine
<1>7. /\ ~ Obeys(src, View, "text") /\ ~ Obeys(src, View, "define")
  BY <1>2
<1>8. CASE Opens(src, View) /\ line.file \in DOMAIN src.inc
  <2>1. inchdl' = line.file /\ incpos' = 0 /\ inppos' = inppos + 1 /\ pc' = pc /\ ~ Including
    BY <1>5, <1>8 DEF doinclude
  <2>2. /\ AfterHdl(src, View) = line.file /\ AfterPc(src, View) = "run"
        /\ AfterInp(src, View) = inppos + 1 /\ AfterInc(src, View) = 0
    BY <1>2, <1>6, <1>7, <1>8, <2>1 DEF AfterHdl, AfterPc, AfterInp, AfterInc, Including
  <2>3. QED
    BY <1>1, <1>3, <1>4, <2>1, <2>2 DEF Matches, macros, levels
<1>9. CASE Opens(src, View) /\ line.file \notin DOMAIN src.inc
  <2>1. inchdl' = inchdl /\ Advance /\ pc' = "exit"
    BY <1>5, <1>9 DEF doinclude, exit
  <2>2. AfterHdl(src, View) = inchdl /\ AfterPc(src, View) = "exit"
    BY <1>2, <1>6, <1>7, <1>9 DEF AfterHdl, AfterPc
  <2>3. /\ inppos' = AfterInp(src, View)
        /\ (IF inchdl' # NONE THEN incpos' ELSE 0) = AfterInc(src, View)
    BY <1>1, <2>1, ReadOn
  <2>4. QED
    BY <1>1, <1>3, <1>4, <2>1, <2>2, <2>3 DEF Matches, macros, levels
<1>10. CASE ~ Opens(src, View)
  <2>1. inchdl' = inchdl /\ Advance /\ pc' = pc
    BY <1>5, <1>10 DEF doinclude
  <2>2. AfterHdl(src, View) = inchdl /\ AfterPc(src, View) = "run"
    BY <1>2, <1>6, <1>7, <1>10 DEF AfterHdl, AfterPc
  <2>3. /\ inppos' = AfterInp(src, View)
        /\ (IF inchdl' # NONE THEN incpos' ELSE 0) = AfterInc(src, View)
    BY <1>1, <2>1, ReadOn
  <2>4. QED
    BY <1>1, <1>3, <1>4, <2>1, <2>2, <2>3 DEF Matches, macros, levels
<1>11. QED
  BY <1>8, <1>9, <1>10

LEMMA DefineMatches ==
  ASSUME TypeOK, declmac
  PROVE  Matches
<1> DEFINE def == Expanded
           named == def # <<>> /\ def[1] \in Idents
           e == [name |-> def[1], to |-> Tail(def)]
           n == macqinx + (Len(def) - 1) + 1
           q == IF n < MACQMAX THEN n ELSE MACQMAX
<1>1. /\ HasLine /\ line.op = "define" /\ skiplevel = 0 /\ pc = "run" /\ Advance
      /\ UNCHANGED <<src, pass, levels, got, inchdl>>
  BY DEF declmac, readline, HasLine, exit
<1>2. /\ \A o : Takes(src, View, o) <=> o = "define"
      /\ \A o : Obeys(src, View, o) <=> o = "define" /\ skiplevel = 0
      /\ MoreOf(src, View)
  BY <1>1, SeenKind
<1>3. AfterHdl(src, View) = inchdl /\ AfterGot(src, View) = got[pass]
  BY <1>2, HandleKept, GotKept
<1>4. AfterLev(src, View) = iflevel /\ AfterSkip(src, View) = skiplevel
  <2>1. \A o \in {"ifdef", "ifndef", "else", "endif"} : ~ Takes(src, View, o)
    BY <1>2
  <2>2. QED
    BY <2>1, LevelsKept
<1>5. /\ inppos' = AfterInp(src, View)
      /\ (IF inchdl' # NONE THEN incpos' ELSE 0) = AfterInc(src, View)
  BY <1>1, ReadOn
<1>6. /\ DefOf(src, View) = def /\ View.mac = mac /\ View.q = macqinx
      /\ (NamedDef(src, View) <=> named)
  BY SeenMacros, Seen DEF NamedDef
<1>7. /\ Obeys(src, View, "define") /\ ~ Obeys(src, View, "text") /\ ~ Opens(src, View)
  BY <1>1, <1>2 DEF Opens
<1>8. Stored(Len(def) - 1) = q
  BY DEF Stored
<1>9. \/ ~ named /\ UNCHANGED <<pc, mac, macqinx>>
      \/ named /\ Len(mac) >= MACMAX /\ pc' = "exit" /\ UNCHANGED <<mac, macqinx>>
      \/ /\ named /\ Len(mac) < MACMAX /\ mac' = Append(mac, e) /\ macqinx' = q
         /\ pc' = IF q = MACQMAX THEN "exit" ELSE pc
  <2>1. \/ ~ named /\ UNCHANGED <<pc, mac, macqinx>>
        \/ named /\ Len(mac) >= MACMAX /\ pc' = "exit" /\ UNCHANGED <<mac, macqinx>>
        \/ /\ named /\ Len(mac) < MACMAX /\ mac' = Append(mac, e)
           /\ macqinx' = Stored(Len(def) - 1)
           /\ pc' = IF macqinx' = MACQMAX THEN "exit" ELSE pc
    BY DEF declmac, exit, macros
  <2>2. QED
    BY <1>8, <2>1
<1>10. Len(mac) \in Nat /\ MACMAX \in Nat
  BY LimitsAssumption DEF TypeOK
<1>11. /\ AfterMac(src, View) = (IF named /\ Len(mac) < MACMAX THEN Append(mac, e) ELSE mac)
       /\ AfterQ(src, View) = (IF named /\ Len(mac) < MACMAX THEN q ELSE macqinx)
  <2>1. Declares(src, View) <=> named /\ Len(mac) < MACMAX
    BY <1>6, <1>7 DEF Declares
  <2>2. QED
    BY <1>6, <2>1 DEF AfterMac, AfterQ
<1> HIDE DEF e, q, named
<1>12. AfterPc(src, View) = IF ~ named THEN "run"
                            ELSE IF Len(mac) >= MACMAX \/ q = MACQMAX THEN "exit" ELSE "run"
  <2>1. AfterPc(src, View) = IF ~ named THEN "run"
                             ELSE IF Len(mac) >= MACMAX \/ AfterQ(src, View) = MACQMAX THEN "exit" ELSE "run"
    BY <1>2, <1>6, <1>7 DEF AfterPc
  <2>2. QED
    BY <1>10, <1>11, <2>1
<1>13. pc' = AfterPc(src, View) /\ mac' = AfterMac(src, View) /\ macqinx' = AfterQ(src, View)
  BY <1>1, <1>9, <1>10, <1>11, <1>12
<1>14. QED
  BY <1>1, <1>3, <1>4, <1>5, <1>13 DEF Matches, levels

\* While a pass runs, the next state is a function of the source and of what
\* the pass has come to.
LEMMA PassStep ==
  ASSUME TypeOK, SkipExact, Next, pc = "run"
  PROVE  View' = After(src, View) /\ UNCHANGED <<src, pass>>
<1>1. ~ NextPass /\ ~ Finish
  BY DEF NextPass, Finish
<1>2. Matches
  BY <1>1, EndsMatch, ConditionsMatch, SkipMatches, StatementMatches, IncludeMatches,
     DefineMatches DEF Next
<1>3. UNCHANGED <<src, pass>>
  BY <1>1 DEF Next, EndOfInclude, EndOfInput, Ifdef, Ifndef, Conditional, Else, Endif, Skip,
              doinclude, declmac, Statement, readline
<1>4. QED
  BY <1>2, <1>3, MatchedView

-----------------------------------------------------------------------------
(* Pass 2 takes the steps of pass 1.                                       *)

\* Pass 1 does not end in the middle of an include file.  main() does not
\* close inchdl between the passes, and pass 2 would begin with the rest of
\* that file (xasm1.c).
EndsLast ==
  pc = "ended" /\ pass = 1 /\ Including => incpos = Len(src.inc[inchdl])

IsPrefixOf(a, b) == Len(a) <= Len(b) /\ \A k \in 1..Len(a) : a[k] = b[k]

\* tr is a pass over source s, of n lines.
Trace(s, n, tr) ==
  /\ n \in Nat
  /\ tr[0] = Start
  /\ \A k \in 0..(n - 1) : tr[k].pc = "run" /\ tr[k + 1] = After(s, tr[k])
  /\ \A k \in 0..n : tr[k].got \in Seq(Body) /\ IsPrefixOf(tr[k].got, tr[n].got)

Pass1 ==
  pass = 1 => /\ pc # "done" /\ got[2] = <<>>
              /\ \E n, tr : Trace(src, n, tr) /\ View = tr[n]

\* Pass 2 first meets the end of the include file that pass 1 ended in.
Prologue ==
  /\ pc = "run" /\ Including /\ incpos = Len(src.inc[inchdl])
  /\ inppos = 0 /\ mac = <<>> /\ macqinx = 0 /\ iflevel = 0 /\ skiplevel = 0
  /\ got[2] = <<>>

Follows(n, tr) ==
  IF pc = "done" THEN got[2] = got[1]
                 ELSE Prologue \/ \E m \in 0..n : View = tr[m]

Pass2 ==
  pass = 2 => \E n, tr : /\ Trace(src, n, tr) /\ tr[n].pc = "ended" /\ tr[n].got = got[1]
                         /\ Follows(n, tr)

SInv == Pass1 /\ Pass2

LEMMA Grows ==
  ASSUME NEW g \in Seq(Body), NEW x, NEW h, h = g \/ h = Append(g, x), h \in Seq(Body)
  PROVE  IsPrefixOf(g, h)
<1>1. CASE h = g
  BY <1>1 DEF IsPrefixOf
<1>2. CASE h = Append(g, x)
  <2>1. Len(h) = Len(g) + 1 /\ \A k \in 1..Len(g) : h[k] = g[k]
    BY <1>2
  <2>2. QED
    BY <2>1 DEF IsPrefixOf
<1>3. QED
  BY <1>1, <1>2

LEMMA PrefixTransitive ==
  ASSUME NEW a \in Seq(Body), NEW b \in Seq(Body), NEW c \in Seq(Body),
         IsPrefixOf(a, b), IsPrefixOf(b, c)
  PROVE  IsPrefixOf(a, c)
  BY DEF IsPrefixOf

LEMMA TraceGrows ==
  ASSUME NEW s, NEW n, NEW tr, Trace(s, n, tr), tr[n].pc = "run",
         NEW v, v = After(s, tr[n]), v.got \in Seq(Body)
  PROVE  \E m, t : Trace(s, m, t) /\ v = t[m]
<1> DEFINE t == [k \in 0..(n + 1) |-> IF k = n + 1 THEN v ELSE tr[k]]
<1>1. n \in Nat
  BY DEF Trace
<1>2. t[n + 1] = v /\ \A k \in 0..n : t[k] = tr[k]
  BY <1>1
<1> HIDE DEF t
<1>3. t[0] = Start
  BY <1>1, <1>2 DEF Trace
<1>4. ASSUME NEW k \in 0..n PROVE t[k].pc = "run" /\ t[k + 1] = After(s, t[k])
  <2>1. CASE k = n
    BY <1>1, <1>2, <2>1
  <2>2. CASE k # n
    <3>1. k \in 0..(n - 1) /\ k + 1 \in 0..n
      BY <1>1, <2>2
    <3>2. QED
      BY <1>2, <3>1 DEF Trace
  <2>3. QED
    BY <2>1, <2>2
<1>5. n \in 0..n /\ tr[n].got \in Seq(Body)
  BY <1>1 DEF Trace
<1>6. IsPrefixOf(tr[n].got, v.got)
  <2>1. v.got = AfterGot(s, tr[n])
    BY DEF After
  <2>2. v.got = tr[n].got \/ \E x : v.got = Append(tr[n].got, x)
    BY <2>1 DEF AfterGot
  <2>3. QED
    BY <1>5, <2>2, Grows
<1>7. ASSUME NEW k \in 0..(n + 1)
      PROVE  t[k].got \in Seq(Body) /\ IsPrefixOf(t[k].got, t[n + 1].got)
  <2>1. CASE k = n + 1
    <3>1. IsPrefixOf(v.got, v.got)
      BY DEF IsPrefixOf
    <3>2. QED
      BY <1>2, <2>1, <3>1
  <2>2. CASE k # n + 1
    <3>1. k \in 0..n
      BY <1>1, <2>2
    <3>2. t[k] = tr[k] /\ tr[k].got \in Seq(Body) /\ IsPrefixOf(tr[k].got, tr[n].got)
      BY <1>2, <3>1 DEF Trace
    <3>3. IsPrefixOf(tr[k].got, v.got)
      BY <1>5, <1>6, <3>2, PrefixTransitive
    <3>4. QED
      BY <1>2, <3>2, <3>3
  <2>3. QED
    BY <2>1, <2>2
<1>8. Trace(s, n + 1, t)
  <2>1. n + 1 \in Nat /\ (n + 1) - 1 = n
    BY <1>1
  <2>2. QED
    BY <1>3, <1>4, <1>7, <2>1 DEF Trace
<1>9. QED
  BY <1>2, <1>8

LEMMA PassesBegin ==
  ASSUME Init
  PROVE  SInv
<1>1. pass = 1 /\ pc = "run" /\ got[2] = <<>>
  BY DEF Init
<1>2. View = Start
  BY DEF Init, View, Start, Including
<1> DEFINE tr == [k \in {0} |-> Start]
<1>3. Start.got = <<>>
  BY DEF Start
<1>4. Trace(src, 0, tr)
  <2>1. tr[0] = Start /\ 0 \in Nat /\ 0..0 = {0} /\ 0..(0 - 1) = {}
    OBVIOUS
  <2>2. <<>> \in Seq(Body) /\ IsPrefixOf(<<>>, <<>>)
    BY DEF IsPrefixOf
  <2> HIDE DEF tr
  <2>3. QED
    BY <1>3, <2>1, <2>2 DEF Trace
<1>5. View = tr[0]
  BY <1>2
<1> HIDE DEF tr
<1>6. Pass1
  BY <1>1, <1>4, <1>5 DEF Pass1
<1>7. QED
  BY <1>1, <1>6 DEF SInv, Pass2

\* Only .END and the ends of files take pc from "run", and a statement is
\* delivered to the pass that reads it.
LEMMA RunKeeps ==
  ASSUME TypeOK, Next, pc = "run"
  PROVE  pc' # "done" /\ \A p \in {1, 2} : p # pass => got'[p] = got[p]
<1>1. ~ NextPass /\ ~ Finish
  BY DEF NextPass, Finish
<1>2. CASE Statement
  BY <1>2 DEF Statement, TypeOK
<1>3. CASE ~ Statement
  <2>1. got' = got
    BY <1>1, <1>3 DEF Next, EndOfInclude, EndOfInput, Ifdef, Ifndef, Conditional, Else, Endif,
                       Skip, doinclude, declmac
  <2>2. pc' # "done"
    BY <1>1, <1>3 DEF Next, EndOfInclude, EndOfInput, Ifdef, Ifndef, Conditional, Else, Endif,
                       Skip, doinclude, declmac, exit
  <2>3. QED
    BY <2>1, <2>2
<1>4. QED
  BY <1>2, <1>3

LEMMA FirstPassRuns ==
  ASSUME TypeOK, TypeOK', SkipExact, SInv, Next, pc = "run", pass = 1
  PROVE  SInv'
<1>1. View' = After(src, View) /\ src' = src /\ pass' = 1
  BY PassStep
<1>2. PICK n, tr : Trace(src, n, tr) /\ View = tr[n]
  BY DEF SInv, Pass1
<1>3. tr[n].pc = "run"
  BY <1>2, Seen
<1>4. View'.got = got'[1] /\ got'[1] \in Seq(Body)
  BY <1>1 DEF TypeOK, View
<1> DEFINE v == View'
<1>5. v = After(src, tr[n]) /\ v.got \in Seq(Body)
  BY <1>1, <1>2, <1>4
<1> HIDE DEF v
<1>6. \E m, t : Trace(src, m, t) /\ v = t[m]
  BY <1>2, <1>3, <1>5, TraceGrows
<1>7. pc' # "done" /\ got'[2] = <<>>
  BY RunKeeps DEF SInv, Pass1
<1>8. \E m, t : Trace(src', m, t) /\ View' = t[m]
  BY <1>1, <1>6 DEF v
<1>9. Pass1'
  BY <1>7, <1>8 DEF Pass1
<1>10. QED
  BY <1>1, <1>9 DEF SInv, Pass2

LEMMA PassesTurn ==
  ASSUME TypeOK, SInv, EndsLast, NextPass
  PROVE  SInv'
<1>1. /\ pc = "ended" /\ pass = 1 /\ pass' = 2 /\ pc' = "run" /\ src' = src /\ got' = got
      /\ inchdl' = inchdl /\ incpos' = incpos
      /\ inppos' = 0 /\ mac' = <<>> /\ macqinx' = 0 /\ iflevel' = 0 /\ skiplevel' = 0
  BY DEF NextPass, Begin
<1>2. PICK n, tr : Trace(src, n, tr) /\ View = tr[n]
  BY <1>1 DEF SInv, Pass1
<1>3. tr[n].pc = "ended" /\ tr[n].got = got'[1] /\ got'[2] = <<>>
  BY <1>1, <1>2, Seen DEF SInv, Pass1
<1>4. Follows(n, tr)'
  <2>1. CASE Including
    <3>1. Prologue'
      BY <1>1, <1>3, <2>1 DEF Prologue, Including, EndsLast
    <3>2. QED
      BY <1>1, <3>1 DEF Follows
  <2>2. CASE ~ Including
    <3>1. View' = Start
      BY <1>1, <1>3, <2>2 DEF View, Start, Including
    <3>2. 0 \in 0..n /\ tr[0] = Start
      BY <1>2 DEF Trace
    <3>3. QED
      BY <1>1, <3>1, <3>2 DEF Follows
  <2>3. QED
    BY <2>1, <2>2
<1>5. Pass2'
  BY <1>1, <1>2, <1>3, <1>4 DEF Pass2
<1>6. QED
  BY <1>1, <1>5 DEF SInv, Pass1

LEMMA SecondPassRuns ==
  ASSUME TypeOK, SkipExact, SInv, Next, pc = "run", pass = 2
  PROVE  SInv'
<1>1. View' = After(src, View) /\ src' = src /\ pass' = 2
  BY PassStep
<1>2. PICK n, tr : /\ Trace(src, n, tr) /\ tr[n].pc = "ended" /\ tr[n].got = got[1]
                   /\ Follows(n, tr)
  BY DEF SInv, Pass2
<1>3. pc' # "done" /\ got'[1] = got[1]
  BY RunKeeps
<1>4. \E m \in 0..n : View' = tr[m]
  <2>1. CASE Prologue
    <3>1. EndOfInclude
      <4>1. ~ HasLine
        <5>1. Position = Len(Current)
          BY <2>1 DEF Prologue, Position, Current, Including
        <5>2. Position \in Nat
          BY DEF TypeOK, Position
        <5>3. QED
          BY <5>1, <5>2 DEF HasLine
      <4>2. QED
        BY <2>1, <4>1 DEF Prologue, Next, EndOfInput, Ifdef, Ifndef, Conditional, Else, Endif,
                          Skip, doinclude, declmac, Statement, readline, NextPass, Finish
    <3>2. /\ pc' = "run" /\ inchdl' = NONE /\ inppos' = 0 /\ mac' = <<>> /\ macqinx' = 0
          /\ iflevel' = 0 /\ skiplevel' = 0 /\ got'[pass'] = <<>>
      BY <1>1, <2>1, <3>1 DEF EndOfInclude, Prologue, macros, levels
    <3>3. View' = Start
      BY <3>2 DEF View, Start, Including
    <3>4. 0 \in 0..n /\ tr[0] = Start
      BY <1>2 DEF Trace
    <3>5. QED
      BY <3>3, <3>4
  <2>2. CASE \E m \in 0..n : View = tr[m]
    <3>1. PICK m \in 0..n : View = tr[m]
      BY <2>2
    <3>2. tr[m].pc = "run"
      BY <3>1, Seen
    <3>3. m \in 0..(n - 1) /\ m + 1 \in 0..n
      BY <1>2, <3>2 DEF Trace
    <3>4. tr[m + 1] = After(src, tr[m])
      BY <1>2, <3>3 DEF Trace
    <3>5. QED
      BY <1>1, <3>1, <3>3, <3>4
  <2>3. QED
    BY <1>2, <2>1, <2>2 DEF Follows
<1>5. Follows(n, tr)'
  BY <1>3, <1>4 DEF Follows
<1>6. Pass2'
  BY <1>1, <1>2, <1>3, <1>5 DEF Pass2
<1>7. QED
  BY <1>1, <1>6 DEF SInv, Pass1

LEMMA PassesFinish ==
  ASSUME TypeOK, SInv, Finish
  PROVE  SInv'
<1>1. /\ pc = "ended" /\ pass = 2 /\ pass' = 2 /\ pc' = "done" /\ src' = src /\ got' = got
  BY DEF Finish
<1>2. PICK n, tr : /\ Trace(src, n, tr) /\ tr[n].pc = "ended" /\ tr[n].got = got[1]
                   /\ Follows(n, tr)
  BY <1>1 DEF SInv, Pass2
<1>3. PICK m \in 0..n : View = tr[m]
  BY <1>1, <1>2 DEF Follows, Prologue
<1>4. tr[m].pc = "ended" /\ tr[m].got = got[2]
  BY <1>1, <1>3, Seen
<1>5. m = n
  <2>1. m \in 0..(n - 1) => tr[m].pc = "run"
    BY <1>2 DEF Trace
  <2>2. n \in Nat
    BY <1>2 DEF Trace
  <2>3. QED
    BY <1>4, <2>1, <2>2
<1>6. Follows(n, tr)'
  BY <1>1, <1>2, <1>4, <1>5 DEF Follows
<1>7. Pass2'
  BY <1>1, <1>2, <1>6 DEF Pass2
<1>8. QED
  BY <1>1, <1>7 DEF SInv, Pass1

LEMMA PassesStep ==
  ASSUME TypeOK, TypeOK', SkipExact, EndsLast, SInv, [Next]_vars
  PROVE  SInv'
<1>1. CASE UNCHANGED vars
  <2>1. /\ src' = src /\ pc' = pc /\ pass' = pass /\ got' = got /\ inppos' = inppos
        /\ inchdl' = inchdl /\ incpos' = incpos /\ mac' = mac /\ macqinx' = macqinx
        /\ iflevel' = iflevel /\ skiplevel' = skiplevel
    BY <1>1 DEF vars, input, macros, levels
  <2>2. View' = View /\ Prologue' = Prologue
    BY <2>1 DEF View, Including, Prologue
  <2>3. QED
    BY <2>1, <2>2 DEF SInv, Pass1, Pass2, Follows
<1>2. CASE Next /\ pc = "run"
  BY <1>2, FirstPassRuns, SecondPassRuns DEF TypeOK
<1>3. CASE Next /\ pc # "run"
  <2>1. NextPass \/ Finish
    BY <1>3 DEF Next, EndOfInclude, EndOfInput, Ifdef, Ifndef, Conditional, Else, Endif, Skip,
                doinclude, declmac, Statement, readline, HasLine
  <2>2. QED
    BY <2>1, PassesTurn, PassesFinish
<1>4. QED
  BY <1>1, <1>2, <1>3

LEMMA PassesSame ==
  ASSUME TypeOK, SInv
  PROVE  SamePasses
<1>1. CASE pass = 1
  <2>1. got[2] = <<>> /\ pc # "done" /\ got[1] \in Seq(Body)
    BY <1>1 DEF SInv, Pass1, TypeOK
  <2>2. QED
    BY <2>1 DEF SamePasses
<1>2. CASE pass = 2
  <2>1. PICK n, tr : /\ Trace(src, n, tr) /\ tr[n].pc = "ended" /\ tr[n].got = got[1]
                     /\ Follows(n, tr)
    BY <1>2 DEF SInv, Pass2
  <2>2. got[1] \in Seq(Body)
    BY DEF TypeOK
  <2>3. CASE pc = "done"
    BY <2>1, <2>2, <2>3 DEF Follows, SamePasses
  <2>4. CASE pc # "done" /\ Prologue
    BY <2>2, <2>4 DEF Prologue, SamePasses
  <2>5. CASE pc # "done" /\ ~ Prologue
    <3>1. PICK m \in 0..n : View = tr[m]
      BY <2>1, <2>5 DEF Follows
    <3>2. IsPrefixOf(tr[m].got, tr[n].got)
      BY <2>1 DEF Trace
    <3>3. tr[m].got = got[2]
      BY <1>2, <3>1, Seen
    <3>4. QED
      BY <2>1, <2>5, <3>2, <3>3 DEF IsPrefixOf, SamePasses
  <2>6. QED
    BY <2>3, <2>4, <2>5
<1>3. QED
  BY <1>1, <1>2 DEF TypeOK

\* Pass 2 delivers the statements that pass 1 delivered, for every source
\* whose first pass does not end in the middle of an include file (main,
\* parse, readline).
THEOREM PassesAgree == Spec /\ []EndsLast => []SamePasses
<1>1. Init => SInv
  BY PassesBegin
<1>2. TypeOK /\ TypeOK' /\ SkipExact /\ EndsLast /\ SInv /\ [Next]_vars => SInv'
  BY PassesStep
<1>3. TypeOK /\ SInv => SamePasses
  BY PassesSame
<1>4. IInv => TypeOK /\ SkipExact
  BY DEF IInv
<1>5. QED
  BY <1>1, <1>2, <1>3, <1>4, Invariant, PTL DEF Spec
=============================================================================
