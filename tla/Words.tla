------------------------------- MODULE Words -------------------------------
(***************************************************************************)
(* The machine words of the tools: two bytes of BYTE values each, the high *)
(* byte first.  BYTE is 256 in the programs and smaller in the TLC runs.   *)
(* A word is written as its unsigned value; Signed gives what the C code   *)
(* sees in an int.                                                         *)
(***************************************************************************)
EXTENDS Integers

CONSTANT BYTE

\* A byte has a sign bit.
ASSUME ByteAssumption == BYTE \in Nat \ {0} /\ BYTE % 2 = 0

WORD == BYTE * BYTE
Word == 0..(WORD - 1)
HALF == WORD \div 2

Add(a, b) == (a + b) % WORD
Sub(a, b) == (a - b) % WORD

\* x & (1 << SBIT)
SignBit(w) == w >= HALF

Signed(w) == IF SignBit(w) THEN w - WORD ELSE w

Hi(w) == w \div BYTE
Lo(w) == w % BYTE

\* A comparison that forgets that addresses have no sign.
BugSignedGT(i, j) == Signed(i) > Signed(j)

\* The linker's unsigned comparison, out of signed operations.
unsigned_GT(i, j) ==
  IF SignBit(i) # SignBit(j) THEN SignBit(i) ELSE SignBit(Sub(j, i))

=============================================================================
