----------------------------- MODULE NameTable -----------------------------
(***************************************************************************)
(* The identifier table of the tools: dohash() of xlnk, xar, xasm and xcc, *)
(* and lbdohash() of xlnk.  The table is an open-addressed hash table that *)
(* stores a trie: a used slot holds one character (NCHAR) and the slot of  *)
(* the identifier without its last character (NTAB); an identifier is      *)
(* known by the slot of its last character.  Slots are never released.     *)
(*                                                                         *)
(* A call is a sequence of steps, one per pass through a loop body.  The   *)
(* programs exit(1) when a probe sequence returns to its start.            *)
(*                                                                         *)
(* Operators whose names start with Bug are slips the code could have had; *)
(* no specification uses them.  They show that a property notices.         *)
(***************************************************************************)
EXTENDS Integers, Sequences

CONSTANTS
  NAMEMAX,    \* number of slots ("MUST BE PRIME"), olbhdr[HNAME] in xar
  Chars,      \* codes of the characters identifiers are made of
  RESERVED,   \* code of '?', which occupies slot 0
  Idents      \* identifiers the program looks up

(***************************************************************************)
(* A character code is never 0, the terminator, and is smaller than the    *)
(* table, so that one subtraction wraps a probe.  '?' is in no identifier. *)
(***************************************************************************)
ASSUME SizeAssumption == NAMEMAX \in Nat \ {0}
ASSUME CharsAssumption == Chars \subseteq 1..(NAMEMAX - 1)
ASSUME ReservedAssumption == RESERVED \in Nat \ {0} /\ RESERVED \notin Chars
ASSUME IdentsAssumption == Idents \subseteq Seq(Chars) \ {<<>>}

\* "MUST BE PRIME": only OverflowOnlyWhenFull depends on it.
ASSUME PrimeAssumption == \A a, b \in 2..(NAMEMAX - 1) : a * b # NAMEMAX

VARIABLES
  nchar, ntab,             \* the table: columns NCHAR and NTAB
  ident, len,              \* the argument, and how much of it is consumed
  start, hash, tab,        \* locals of dohash
  pc,                      \* where the call is
  bound,                   \* auxiliary: the slot each identifier was given
  spell                    \* auxiliary: the identifier each slot stands for

table == <<nchar, ntab>>
vars == <<nchar, ntab, ident, len, start, hash, tab, pc, bound, spell>>

Slot == 0..(NAMEMAX - 1)
NONE == -1
Used(s) == nchar[s] # 0

\* The character the call is about to place.
ch == ident[len + 1]

Init ==
  /\ nchar = [s \in Slot |-> IF s = 0 THEN RESERVED ELSE 0]
  /\ ntab = [s \in Slot |-> 0]
  /\ ident = <<>> /\ len = 0
  /\ start = 0 /\ hash = 0 /\ tab = 0
  /\ pc = "idle"
  /\ bound = [id \in Idents |-> NONE]
  /\ spell = [s \in Slot |-> <<>>]

dohash(id) ==
  /\ pc = "idle"
  /\ ident' = id
  /\ len' = 0 /\ hash' = 0 /\ tab' = 0
  /\ pc' = "char"
  /\ UNCHANGED <<table, start, bound, spell>>

BugStaleStart ==
  /\ pc = "char" /\ len < Len(ident)
  /\ hash' = (hash + ch * ch) % NAMEMAX
  /\ pc' = "probe"
  /\ UNCHANGED <<table, ident, len, start, tab, bound, spell>>

\* while (*ident): the first slot to try for the next character.
NextChar ==
  /\ pc = "char" /\ len < Len(ident)
  /\ hash' = (hash + ch * ch) % NAMEMAX
  /\ start' = hash'
  /\ pc' = "probe"
  /\ UNCHANGED <<table, ident, len, tab, bound, spell>>

Return ==
  /\ pc = "char" /\ len = Len(ident)
  /\ bound' = [bound EXCEPT ![ident] = tab]
  /\ pc' = "idle"
  /\ ident' = <<>> /\ len' = 0                     \* the frame is gone
  /\ start' = 0 /\ hash' = 0 /\ tab' = 0
  /\ UNCHANGED <<table, spell>>

BugCharOnly(s) == nchar[s] = ch
BugWrongLocal(s) == nchar[s] = ch /\ ntab[s] = start

Matches(s) == nchar[s] = ch /\ ntab[s] = tab

\* Both ways of accepting a slot: tab = hash; ++ident; ++len.
Accept ==
  /\ tab' = hash
  /\ len' = len + 1
  /\ pc' = "char"
  /\ UNCHANGED <<ident, start, hash, bound>>

Found ==
  /\ pc = "probe"
  /\ Matches(hash)
  /\ Accept
  /\ UNCHANGED <<table, spell>>

BugNoParent ==
  /\ pc = "probe"
  /\ ~ Matches(hash) /\ ~ Used(hash)
  /\ nchar' = [nchar EXCEPT ![hash] = ch]
  /\ spell' = [spell EXCEPT ![hash] = Append(spell[tab], ch)]
  /\ UNCHANGED ntab
  /\ Accept

Insert ==
  /\ pc = "probe"
  /\ ~ Matches(hash) /\ ~ Used(hash)
  /\ nchar' = [nchar EXCEPT ![hash] = ch]
  /\ ntab' = [ntab EXCEPT ![hash] = tab]
  /\ spell' = [spell EXCEPT ![hash] = Append(spell[tab], ch)]
  /\ Accept

BugWrapLate(h) == IF h > NAMEMAX THEN h - NAMEMAX ELSE h

Wrap(h) == IF h >= NAMEMAX THEN h - NAMEMAX ELSE h

BugNoOverflowTest ==
  /\ pc = "probe"
  /\ ~ Matches(hash) /\ Used(hash)
  /\ hash' = Wrap(hash + ch)
  /\ UNCHANGED <<table, ident, len, start, tab, pc, bound, spell>>

Collide ==
  /\ pc = "probe"
  /\ ~ Matches(hash) /\ Used(hash)
  /\ hash' = Wrap(hash + ch)
  /\ pc' = IF hash' = start THEN "fatal" ELSE "probe"
  /\ UNCHANGED <<table, ident, len, start, tab, bound, spell>>

Step == NextChar \/ Return \/ Found \/ Insert \/ Collide

Next == (\E id \in Idents : dohash(id)) \/ Step

Spec == Init /\ [][Next]_vars

\* A call is straight-line code: once begun it runs.
FairSpec == Spec /\ WF_vars(Step)

-----------------------------------------------------------------------------
(***************************************************************************)
(* Properties                                                              *)
(***************************************************************************)

TypeOK ==
  /\ nchar \in [Slot -> Chars \cup {0, RESERVED}]
  /\ ntab \in [Slot -> Slot]
  /\ ident \in Idents \cup {<<>>}
  /\ len \in 0..Len(ident)
  /\ start \in Slot /\ hash \in Slot /\ tab \in Slot
  /\ pc \in {"idle", "char", "probe", "fatal"}
  /\ bound \in [Idents -> Slot \cup {NONE}]
  /\ spell \in [Slot -> Seq(Chars)]

\* The comment over dohash promises "the (unique) hashed value for symbol":
\* two different identifiers never share a slot, whatever collided with what
\* and in whichever order the identifiers arrived.
UniqueValue ==
  \A a, b \in Idents :
    bound[a] # NONE /\ bound[a] = bound[b] => a = b

\* The tools keep slots in other tables for their whole run (FFILE, FNAME,
\* NMODULE's owner, macro names): a later look-up of the same identifier
\* gives the same slot, although slots filled meanwhile lie on its path.
ValueStable ==
  [][\A a \in Idents : bound[a] # NONE => bound'[a] = bound[a]]_vars

\* soutname()/outname(): the spelling read back along NTAB.
soutname ==
  LET read[s \in Slot] ==
        IF ntab[s] = 0 THEN <<nchar[s]>> ELSE Append(read[ntab[s]], nchar[s])
  IN  read

\* The linker prints a slot back into a string and looks that string up in
\* the library's own table: what soutname reads back is what dohash was given.
RoundTrip == \A a \in Idents : bound[a] # NONE => soutname[bound[a]] = a

\* "name table overflow" is reported only when no slot is free.  This is what
\* NAMEMAX being prime buys: a probe with any character visits every slot.
OverflowOnlyWhenFull == pc = "fatal" => \A s \in Slot : Used(s)

\* Every call returns or reports overflow, with the table full as well.
CallEnds == (pc # "idle") ~> (pc \in {"idle", "fatal"})

-----------------------------------------------------------------------------
(***************************************************************************)
(* The inductive invariant behind UniqueValue and ValueStable.  ks is the  *)
(* set the probe counts range over: Nat in the proofs; TLC needs 0..NAMEMAX*)
(***************************************************************************)

\* The slot that character c below slot t tries at its i-th attempt.
ProbeSlot(t, c, i) == (t + c * c + i * c) % NAMEMAX

\* Every used slot is found by its own probe sequence: all slots tried before
\* it are used.
Reachable(ks) ==
  \A s \in Slot : nchar[s] \in Chars =>
    \E k \in ks :
      /\ s = ProbeSlot(ntab[s], nchar[s], k)
      /\ \A i \in 0..(k - 1) : Used(ProbeSlot(ntab[s], nchar[s], i))

\* While probing, every slot already tried is used and does not match.
Tried(ks) ==
  pc = "probe" =>
    \E k \in ks :
      /\ hash = ProbeSlot(tab, ch, k)
      /\ \A i \in 0..(k - 1) :
           LET q == ProbeSlot(tab, ch, i) IN Used(q) /\ ~ Matches(q)

Running ==
  /\ pc = "probe" => len < Len(ident)
  /\ pc \in {"char", "probe"} => /\ ident \in Idents
                                 /\ Used(tab)
                                 /\ spell[tab] = SubSeq(ident, 1, len)
  /\ pc = "char" => hash = tab

Spelling ==
  /\ Used(0) /\ nchar[0] = RESERVED /\ spell[0] = <<>>
  /\ \A s \in Slot : nchar[s] = RESERVED => s = 0
  /\ \A s \in Slot : nchar[s] \in Chars =>
       Used(ntab[s]) /\ spell[s] = Append(spell[ntab[s]], nchar[s])
  /\ \A s, u \in Slot : Used(s) /\ Used(u) /\ spell[s] = spell[u] => s = u

\* A slot that spells nothing has no parent.
Roots == \A s \in Slot : nchar[s] \notin Chars => ntab[s] = 0

\* The first attempt is remembered as long as the character is being placed.
Started == pc = "probe" => start = ProbeSlot(tab, ch, 0)

Binding ==
  \A a \in Idents : bound[a] # NONE => Used(bound[a]) /\ spell[bound[a]] = a

IInv(ks) ==
  TypeOK /\ Reachable(ks) /\ Tried(ks) /\ Running /\ Spelling /\ Binding

=============================================================================
