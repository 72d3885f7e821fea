-------------------------------- MODULE Isa --------------------------------
(***************************************************************************)
(* The instruction set that xemu and pso both implement, as far as the two *)
(* share it: what a cell of memory holds, the operation codes, and the     *)
(* arithmetic of the host they are written in.                             *)
(*                                                                         *)
(* A cell is <<tag, value>>: a byte has the tag "num" and 0..BYTE-1 as its *)
(* value, an operation code is a byte tagged with its mnemonic.            *)
(***************************************************************************)
EXTENDS Words, Sequences

CONSTANTS
  NREG,           \* number of registers; the last one is the stack pointer
  INTBITS,        \* bits of the host's int; of a word and more
  Bits(_, _, _),  \* OR, AND and XOR of two naturals below 2^INTBITS
  Service(_, _)   \* what a supervisor call returns: its number, R1

ASSUME MachineAssumption == NREG \in Nat \ {0, 1} /\ INTBITS \in Nat \ {0}

Regs == 0..(NREG - 1)
SP == NREG - 1
BPW == 2
INT == 2^INTBITS

Num(v) == <<"num", v>>
Val(c) == c[2]

Calcs == {"LDR", "SUB", "ADD", "MUL", "DIV", "MOD", "OR", "AND", "XOR", "ASL",
          "ASR"}
Binary == Calcs \cup {"CMP"}
Unary == {"NOT", "NEG"}
Branches == {"BLE", "BLT", "BGE", "BGT", "BNE", "BEQ"}
Moves == {"LDW", "STW", "LDA", "LDB", "STB"}
Pushes == {"PSHB", "PSHW", "PSHA"}
Opcodes == Binary \cup Unary \cup Branches \cup Moves \cup Pushes
           \cup {"JMP", "JSB", "RSB", "PSHR", "POPR", "SVC"}

\* Supervisor calls: exit, the calls that answer in R1 (Handles models those
\* on files), and the two that switch xemu's monitor.
EXIT == 0
MONITOR == 1
Answers == 2..3

\* C's division: towards zero.
Abs(v) == IF v < 0 THEN -v ELSE v
Quotient(a, b) ==
  IF (a < 0) = (b < 0) THEN Abs(a) \div Abs(b) ELSE -(Abs(a) \div Abs(b))

\* A value in the host's int, and whether a calculation is defined at all: a
\* division by zero ends the emulator, a shift by a strange count is undefined.
HostInt(v) == ((v + INT \div 2) % INT) - INT \div 2
Defined(op, r) ==
  /\ op \in {"DIV", "MOD"} => r # 0
  /\ op \in {"ASL", "ASR"} => r \in 0..(INTBITS - 1)

\* The exact result of an operation on ints, before it is stored anywhere.
Exact(op, l, r) ==
  CASE op = "LDR" -> r
    [] op \in {"SUB", "CMP"} -> l - r
    [] op = "ADD" -> l + r
    [] op = "MUL" -> l * r
    [] op = "DIV" -> Quotient(l, r)
    [] op = "MOD" -> l - r * Quotient(l, r)
    [] op \in {"OR", "AND", "XOR"} -> HostInt(Bits(op, l % INT, r % INT))
    [] op = "ASL" -> l * 2^r
    [] op = "ASR" -> l \div 2^r
    [] op = "NOT" -> -l - 1
    [] op = "NEG" -> -l

\* A byte as a signed char.
Char(b) == IF b >= BYTE \div 2 THEN b - BYTE ELSE b

Bit(w, k) == (w \div 2^k) % 2 = 1

-----------------------------------------------------------------------------
(* pushArgs, the same in both emulators: above all the strings, then       *)
(* argv[], then what main() expects on the stack.  Argument k has lens[k]  *)
(* characters and the n-th of them is Chr(k, n).                           *)

Chr(k, n) == Num(((3 * k + n) % (BYTE - 1)) + 1)

BugNoZero(lens, k) == LET sum[n \in 0..k] == IF n = 0 THEN 0
                                             ELSE sum[n - 1] + lens[n]
                      IN  sum[k]

\* Bytes that k strings take, with their zeros.
Used(lens, k) == LET sum[n \in 0..k] == IF n = 0 THEN 0
                                        ELSE sum[n - 1] + lens[n] + 1
                 IN  sum[k]

\* len counts a byte more for each string and is made even.
StrBase(top, lens) ==
  Sub(top, ((Used(lens, Len(lens)) + Len(lens) + 1) \div 2) * 2)

ArgvBase(top, lens) == Sub(StrBase(top, lens), (Len(lens) + 1) * BPW)

\* The words from the stack pointer up: return address, size of the frame,
\* argv, argc, and argv[] itself with the NULL that ends it.
FrameWords(top, lens) ==
  <<0, 3 * BPW, ArgvBase(top, lens), Len(lens)>>
  \o [k \in 1..Len(lens) |-> StrBase(top, lens) + Used(lens, k - 1)] \o <<0>>

WithArgs(image, top, lens) ==
  LET base == StrBase(top, lens)
      sp == Sub(ArgvBase(top, lens), 4 * BPW)
      words == FrameWords(top, lens)
      StringByte(n) ==     \* n bytes above the first string
        LET k == CHOOSE k \in 1..Len(lens) :
                   Used(lens, k - 1) <= n /\ n < Used(lens, k)
        IN  IF n + 1 = Used(lens, k) THEN Num(0)
            ELSE Chr(k, n - Used(lens, k - 1) + 1)
  IN  [a \in Word |->
         IF a \in base..(base + Used(lens, Len(lens)) - 1)
           THEN StringByte(a - base)
         ELSE IF a \in sp..(base - 1)
           THEN LET w == words[(a - sp) \div 2 + 1]
                IN  Num(IF (a - sp) % 2 = 0 THEN Hi(w) ELSE Lo(w))
         ELSE image[a]]

=============================================================================
