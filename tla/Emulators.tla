----------------------------- MODULE Emulators -----------------------------
(***************************************************************************)
(* The two emulators side by side: xemu and pso load the same image with   *)
(* the same arguments and execute one instruction each at a time.          *)
(*                                                                         *)
(* pso keeps ints in its registers, so a value can be outside a word; the  *)
(* machines are compared modulo WORD.  apart is auxiliary: it becomes TRUE *)
(* at the first instruction on which the emulators are not meant, or not   *)
(* able, to agree.  Lockstep is the claim that this list is complete.      *)
(*                                                                         *)
(* Operators whose names start with Bug are slips the code could have had; *)
(* no specification uses them.  They show that a property notices.         *)
(***************************************************************************)
EXTENDS Isa

\* Invocations: records of file, the image that is loaded into memory, lens,
\* the lengths of the program's arguments, and sp, what the uninitialised
\* inisp of xemu's main() happens to hold.
CONSTANT Invocations

\* A register's number is in the low bits of a byte, an int of the host holds
\* whole words, the numbers of the calls are not negative as words, and a word
\* has bits for the registers of a mask; what a service answers is an int.
\* That powers of two are positive only the provers have to be told.
ASSUME HostAssumption ==
  /\ BYTE >= 4 /\ BYTE % NREG = 0
  /\ INT \in Nat \ {0} /\ INT % WORD = 0
  /\ \A k \in 0..(INTBITS - 1) : 2^k \in Nat \ {0}
  /\ NREG <= INTBITS /\ 2^SP <= WORD
  /\ \A id \in Answers, w \in Word : Service(id, w) \in Int

Tags == Opcodes \cup {"num"}
Memory == [Word -> Tags \X (0..(BYTE - 1))]

\* What pushArgs takes, below the address it starts from.
Room(lens) ==
  ((Used(lens, Len(lens)) + Len(lens) + 1) \div 2) * 2 + (Len(lens) + 5) * BPW

\* A file fills the memory; the first argument is the program's name; what
\* pushArgs writes is inside image[], which it does not check itself.
ASSUME InvocationAssumption ==
  \A i \in Invocations :
    /\ i.file \in Memory /\ i.sp \in Word
    /\ i.lens \in Seq(Nat) \ {<<>>}
    /\ Room(i.lens) <= IF i.sp = 0 THEN WORD ELSE i.sp

X == INSTANCE Xemu
P == INSTANCE Cpu

VARIABLES
  x, p,       \* xemu and pso
  apart,
  start       \* the invocation, and whether nothing has been executed yet

vars == <<x, p, apart, start>>

Init ==
  \E i \in Invocations :
    /\ x = X!Loaded(i.file, i.sp, i.lens)
    /\ p = P!Loaded(i.file, i.lens)
    /\ start = [sp |-> i.sp, lens |-> i.lens, fresh |-> TRUE]
    /\ apart = FALSE

Wide(v) == v \notin -HALF..(HALF - 1)

\* The ALU's zero test looks at more bits than a word has.
Inexact(v) == v # 0 /\ v % WORD = 0

\* Instructions that show more of a register than its word; masks with the
\* stack pointer in them; calls that only one emulator has.
Differs(m) ==
  LET op == P!Cell(m, m.pc)[1]
      l == m.regs[P!get_reg(m, 1)]
      r == m.regs[P!get_reg(m, 2)]
  IN  \/ op \in {"DIV", "MOD", "ASR"} /\ (Wide(l) \/ Wide(r))
      \/ op = "ASL" /\ Wide(r)
      \/ op \in Branches /\ Inexact(m.last)
      \/ op \in {"PSHR", "POPR"} /\ Bit(P!get_word(m, 1) % WORD, SP)
      \/ op = "SVC" /\ P!get_word(m, 1) = MONITOR

Step ==
  /\ "running" \in {x.status, p.status}
  /\ x' = X!step(x)
  /\ p' = P!tick(p)
  /\ apart' = \/ apart
              \/ x.status # p.status
              \/ Differs(p)
              \/ x'.status = "undefined"     \* half a word outside image[]
  /\ start' = [start EXCEPT !.fresh = FALSE]

Next == Step

Spec == Init /\ [][Next]_vars

-----------------------------------------------------------------------------
(***************************************************************************)
(* Properties                                                              *)
(***************************************************************************)

SameWords == /\ \A r \in Regs : p.regs[r] % WORD = x.regs[r]
             /\ x.status = "running" => p.pc % WORD = x.pc
             /\ p.image = x.image

\* Whatever a program does, the two emulators hold the same words in their
\* registers and their memory, are at the same instruction and stop together,
\* up to the first instruction of Differs; their condition codes are the same
\* except after a calculation whose result is a multiple of WORD that is not 0.
Lockstep ==
  ~ apart /\ start.sp = 0 =>
    /\ SameWords
    /\ x.status = p.status
    /\ Inexact(p.last) \/ x.cc = p.cc

\* PSHR and then POPR with the same mask give every register back, in any
\* state of either machine, also when the stack crosses the sign bit.
PairRestores ==
  \A mask \in 0..(2^SP - 1) :
    /\ LET m == X!popr(X!pshr(x, mask), mask) IN
       m.status # "undefined" => m.regs = x.regs
    /\ LET m == P!popr(P!pshr(p, mask), mask) IN
       \A r \in Regs : (m.regs[r] - p.regs[r]) % WORD = 0

\* What a program finds when it starts, wherever its stack is: argc, argv, and
\* behind each pointer of argv[] the characters of the argument and a zero; argv[argc] is NULL,
\* and the string area does not reach into argv[] or the frame.
ArgsInPlace ==
  start.fresh =>
    LET lens == start.lens
        s == x.regs[SP]
        argv == X!WordAt(x, s + 2 * BPW)
    IN  /\ X!WordAt(x, s) = 0 /\ X!WordAt(x, s + BPW) = 3 * BPW
        /\ X!WordAt(x, s + 3 * BPW) = Len(lens)
        /\ X!WordAt(x, argv + Len(lens) * BPW) = 0
        /\ \A k \in 1..Len(lens) :
             LET str == X!WordAt(x, argv + (k - 1) * BPW) IN
             /\ \A n \in 1..lens[k] : x.image[str + n - 1] = Chr(k, n)
             /\ x.image[str + lens[k]] = Num(0)

=============================================================================
