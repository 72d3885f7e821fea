-------------------------------- MODULE Xemu --------------------------------
(***************************************************************************)
(* run() of xemu.c.  A machine is a record: regs and pc are words, cc is   *)
(* the condition code, image the memory, status says whether it still runs *)
(* and code is the exit status.  regs are int16_t in the code and written  *)
(* here as unsigned words; Signed gives what the code computes with.       *)
(*                                                                         *)
(* Undefined behaviour of the host (a strange shift, a division by zero, a *)
(* word at the last address, half of which is outside image[]) ends the    *)
(* model: status "undefined".                                              *)
(***************************************************************************)
EXTENDS Isa

\* The byte k places after the operation code, the word and the address there.
At(m, k) == Val(m.image[Add(m.pc, k)])
imm(m, k) == At(m, k) * BYTE + At(m, k + 1)
reg(m, k) == At(m, k) % NREG
ea(m, k) == Add(imm(m, k), m.regs[reg(m, k + 2)])

ConditionCode(w) == IF w = 0 THEN 0 ELSE IF SignBit(w) THEN 1 ELSE 2

Undefined(m) == [m EXCEPT !.status = "undefined"]
Stop(m, c) == [m EXCEPT !.status = "stopped", !.code = c]

\* Only a word can be half outside; an emulated program sees char values.
InImage(a) == a + 1 < WORD
WordAt(m, a) == Val(m.image[a]) * BYTE + Val(m.image[a + 1])
StoreWord(m, a, w) ==
  [m EXCEPT !.image = [@ EXCEPT ![a] = Num(Hi(w)), ![a + 1] = Num(Lo(w))]]

binary(m, op) ==
  LET l == Signed(m.regs[reg(m, 1)])
      r == Signed(m.regs[reg(m, 2)])
      v == Exact(op, l, r) % WORD
  IN  IF ~ Defined(op, r) THEN Undefined(m)
      ELSE [m EXCEPT !.regs[reg(m, 1)] = IF op = "CMP" THEN @ ELSE v,
                     !.pc = Add(@, 3), !.cc = ConditionCode(v)]

unary(m, op) ==
  LET v == Exact(op, Signed(m.regs[reg(m, 1)]), 0) % WORD
  IN  [m EXCEPT !.regs[reg(m, 1)] = v, !.pc = Add(@, 2),
                !.cc = ConditionCode(v)]

Taken(cc, op) ==
  CASE op = "BEQ" -> cc = 0
    [] op = "BNE" -> cc # 0
    [] op = "BGT" -> cc = 2
    [] op = "BGE" -> cc # 1
    [] op = "BLT" -> cc = 1
    [] op = "BLE" -> cc # 2

branch(m, op) ==
  [m EXCEPT !.pc = IF op = "JMP" \/ Taken(m.cc, op) THEN ea(m, 1)
                   ELSE Add(@, 4)]

\* What LEA, MOVB, MOVW, STOB, STOW leave in rval, and do with it.
move(m, op) ==
  LET a == ea(m, 2)
      l == reg(m, 1)
      rval == CASE op = "LDA" -> a
                [] op = "LDB" -> Char(Val(m.image[a])) % WORD
                [] op = "LDW" -> WordAt(m, a)
                [] OTHER -> m.regs[l]
      n == [m EXCEPT !.pc = Add(@, 5), !.cc = ConditionCode(rval)]
  IN  IF op \in {"LDW", "STW"} /\ ~ InImage(a) THEN Undefined(m)
      ELSE CASE op = "STB" -> [n EXCEPT !.image[a] = Num(Lo(rval))]
             [] op = "STW" -> StoreWord(n, a, rval)
             [] OTHER -> [n EXCEPT !.regs[l] = rval]

\* regs[15] -= BPW and the store of a word there.
Pushed(m, w) ==
  LET s == Sub(m.regs[SP], BPW)
  IN  IF InImage(s) THEN StoreWord([m EXCEPT !.regs[SP] = s], s, w)
      ELSE Undefined(m)

push(m, op) ==
  LET a == ea(m, 1)
      rval == CASE op = "PSHA" -> a
                [] op = "PSHB" -> Char(Val(m.image[a])) % WORD
                [] op = "PSHW" -> WordAt(m, a)
  IN  IF op = "PSHW" /\ ~ InImage(a) THEN Undefined(m)
      ELSE [Pushed(m, rval) EXCEPT !.pc = Add(@, 4), !.cc = ConditionCode(rval)]

jsb(m) == [Pushed(m, Add(m.pc, 4)) EXCEPT !.pc = ea(m, 1)]

rsb(m) ==
  LET s == m.regs[SP]
  IN  IF ~ InImage(s) THEN Undefined(m)
      ELSE [m EXCEPT !.pc = WordAt(m, s), !.regs[SP] = Add(@, BPW)]

\* The register pushed is read after the stack pointer has moved.
pshr(m, mask) ==
  LET after[k \in 0..NREG] ==
        IF k = 0 THEN m
        ELSE LET n == after[k - 1] IN
             IF Bit(mask, k - 1)
               THEN Pushed(n, IF k - 1 = SP THEN Sub(n.regs[SP], BPW)
                              ELSE n.regs[k - 1])
               ELSE n
  IN  after[NREG]

Popped(m, r) ==
  LET s == m.regs[SP]
  IN  IF ~ InImage(s) THEN Undefined(m)
      ELSE [m EXCEPT !.regs = [@ EXCEPT ![SP] = Add(s, BPW), ![r] = WordAt(m, s)]]

popr(m, mask) ==
  LET after[k \in 0..NREG] ==      \* after the k highest registers
        IF k = 0 THEN m
        ELSE IF Bit(mask, NREG - k) THEN Popped(after[k - 1], NREG - k)
        ELSE after[k - 1]
  IN  after[NREG]

svc(m, id) ==
  CASE id = EXIT -> IF InImage(m.regs[1]) THEN Stop(m, WordAt(m, m.regs[1]))
                    ELSE Undefined(m)
    [] id = MONITOR -> m
    [] id \in Answers -> [m EXCEPT !.regs[1] = Service(id, @) % WORD]
    [] OTHER -> Stop(m, 1)

Skip(m, n) == [m EXCEPT !.pc = Add(@, n)]

\* One turn of the loop in run().
step(m) ==
  LET op == m.image[m.pc][1] IN
  IF m.status # "running" THEN m
  ELSE CASE op \in Binary -> binary(m, op)
         [] op \in Unary -> unary(m, op)
         [] op \in Branches \cup {"JMP"} -> branch(m, op)
         [] op \in Moves -> move(m, op)
         [] op \in Pushes -> push(m, op)
         [] op = "JSB" -> jsb(m)
         [] op = "RSB" -> rsb(m)
         [] op = "PSHR" -> Skip(pshr(m, imm(m, 1)), 3)
         [] op = "POPR" -> Skip(popr(m, imm(m, 1)), 3)
         [] op = "SVC" -> svc(Skip(m, 3), imm(m, 1))
         [] OTHER -> Stop(m, 1)

pushArgs(m, lens) ==
  [m EXCEPT !.regs[SP] = Sub(ArgvBase(@, lens), 4 * BPW),
            !.image = WithArgs(@, m.regs[SP], lens)]

\* main(): the image is loaded at 0; sp is what pushArgs starts from.
Loaded(file, sp, lens) ==
  pushArgs([regs |-> [r \in Regs |-> IF r = SP THEN sp ELSE 0],
            pc |-> 0, cc |-> 0, image |-> file, status |-> "running",
            code |-> 0], lens)

=============================================================================
