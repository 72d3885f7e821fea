-------------------------------- MODULE Cpu --------------------------------
(***************************************************************************)
(* CPU::tick() of pso with its ALU, its MMU and its context.  A machine is *)
(* a record as in Xemu, but registers and pc are ints of the host, wider   *)
(* than a word: only memory, and the tests of the condition code, cut them *)
(* down.  last is auxiliary: the value the ALU set cc from.                *)
(***************************************************************************)
EXTENDS Isa

\* PAGE_TABLE: every byte's address is masked by itself.
Cell(m, a) == m.image[a % WORD]
ReadByte(m, a) == Char(Val(Cell(m, a)))
ReadWord(m, a) == ReadByte(m, a) * BYTE + Val(Cell(m, a + 1))
WriteByte(m, a, v) == [m EXCEPT !.image[a % WORD] = Num(v % BYTE)]
WriteWord(m, a, v) == WriteByte(WriteByte(m, a, v \div BYTE), a + 1, v)

\* get_pc_byte, get_pc_word, get_ea: k bytes after the operation code.
get_word(m, k) == ReadWord(m, m.pc + k)
get_reg(m, k) == ReadByte(m, m.pc + k) % NREG
get_ea(m, k) == HostInt(get_word(m, k) + m.regs[get_reg(m, k + 2)])

setpc(m, v) == [m EXCEPT !.pc = v]
setreg(m, r, v) == [m EXCEPT !.regs[r] = v]

BugWholeTest(v) == IF v = 0 THEN 0 ELSE IF v < 0 THEN 1 ELSE 2

\* ALU::calc sets cc: zero is tested on all bits, the sign on one.
calc_cc(v) == IF v = 0 THEN 0 ELSE IF SignBit(v % WORD) THEN 1 ELSE 2

\* m after the ALU has produced v
Calculated(m, v) == [m EXCEPT !.cc = calc_cc(v), !.last = v]

test_cc(cc, op) ==
  CASE op = "BLE" -> cc # 2
    [] op = "BLT" -> cc = 1
    [] op = "BGE" -> cc # 1
    [] op = "BGT" -> cc = 2
    [] op = "BNE" -> cc # 0
    [] op = "BEQ" -> cc = 0

\* KERNEL::event() ends the emulator with status 0, at the instruction.
Event(m) == [m EXCEPT !.status = "stopped", !.code = 0]
Undefined(m) == [m EXCEPT !.status = "undefined"]

binary(m, op) ==
  LET l == get_reg(m, 1)
      r == m.regs[get_reg(m, 2)]
      v == HostInt(Exact(op, m.regs[l], r))
      n == setpc(Calculated(m, v), m.pc + 3)
  IN  IF ~ Defined(op, r) THEN Undefined(m)
      ELSE IF op = "CMP" THEN n ELSE setreg(n, l, v)

unary(m, op) ==
  LET l == get_reg(m, 1)
      v == HostInt(Exact(op, m.regs[l], 0))
  IN  setreg(setpc(Calculated(m, v), m.pc + 2), l, v)

branch(m, op) ==
  setpc(m, IF op = "JMP" \/ test_cc(m.cc, op) THEN get_ea(m, 1) ELSE m.pc + 4)

move(m, op) ==
  LET l == get_reg(m, 1)
      a == get_ea(m, 2)
      v == CASE op = "LDA" -> a
             [] op = "LDB" -> ReadByte(m, a)
             [] op = "LDW" -> ReadWord(m, a)
             [] OTHER -> m.regs[l]
      n == setpc(Calculated(m, v), m.pc + 5)
  IN  CASE op = "STB" -> WriteByte(n, a, v)
        [] op = "STW" -> WriteWord(n, a, v)
        [] OTHER -> setreg(n, l, v)

\* "execute EA calculation of -(sp)" and the write
Pushed(m, v) ==
  LET s == HostInt(m.regs[SP] - BPW) IN WriteWord(setreg(m, SP, s), s, v)

push(m, op) ==
  LET a == get_ea(m, 1)
      v == CASE op = "PSHA" -> a
             [] op = "PSHB" -> ReadByte(m, a)
             [] op = "PSHW" -> ReadWord(m, a)
  IN  setpc(Pushed(Calculated(m, v), v), m.pc + 4)

jsb(m) == setpc(Pushed(m, m.pc + 4), get_ea(m, 1))

rsb(m) ==
  setreg(setpc(m, ReadWord(m, m.regs[SP])), SP, HostInt(m.regs[SP] + BPW))

\* The loops leave out the stack pointer's bit.
pshr(m, mask) ==
  LET after[k \in 0..SP] ==
        IF k = 0 THEN m
        ELSE IF Bit(mask % WORD, k - 1)
          THEN Pushed(after[k - 1], after[k - 1].regs[k - 1])
        ELSE after[k - 1]
  IN  after[SP]

Popped(m, r) ==
  setreg(setreg(m, SP, HostInt(m.regs[SP] + BPW)), r, ReadWord(m, m.regs[SP]))

BugPopAscending(m, mask) ==
  LET after[k \in 0..SP] ==
        IF k = 0 THEN m
        ELSE IF Bit(mask % WORD, k - 1) THEN Popped(after[k - 1], k - 1)
        ELSE after[k - 1]
  IN  after[SP]

popr(m, mask) ==
  LET after[k \in 0..SP] ==      \* after the k highest registers
        IF k = 0 THEN m
        ELSE IF Bit(mask % WORD, SP - k) THEN Popped(after[k - 1], SP - k)
        ELSE after[k - 1]
  IN  after[SP]

Skip(m, n) == setpc(m, m.pc + n)

\* KERNEL::supervisor gets the registers and gives them back.
svc(m, id) ==
  CASE id = EXIT -> [m EXCEPT !.status = "stopped",
                              !.code = ReadWord(m, m.regs[1]) % WORD]
    [] id \in Answers -> setreg(Skip(m, 3), 1, Service(id, m.regs[1] % WORD))
    [] OTHER -> Event(m)

tick(m) ==
  LET op == Cell(m, m.pc)[1] IN
  IF m.status # "running" THEN m
  ELSE CASE op \in Binary -> binary(m, op)
         [] op \in Unary -> unary(m, op)
         [] op \in Branches \cup {"JMP"} -> branch(m, op)
         [] op \in Moves -> move(m, op)
         [] op \in Pushes -> push(m, op)
         [] op = "JSB" -> jsb(m)
         [] op = "RSB" -> rsb(m)
         [] op = "PSHR" -> Skip(pshr(m, get_word(m, 1)), 3)
         [] op = "POPR" -> Skip(popr(m, get_word(m, 1)), 3)
         [] op = "SVC" -> svc(m, get_word(m, 1))
         [] OTHER -> Event(m)

\* The stack pointer starts at 0 and is masked to a positive int.
pushArgs(m, lens) ==
  [m EXCEPT !.regs[SP] = ArgvBase(@, lens) - 4 * BPW,
            !.image = WithArgs(@, m.regs[SP], lens)]

\* main() and load_context: a new PCB's context has zeros.
Loaded(file, lens) ==
  pushArgs([regs |-> [r \in Regs |-> 0], pc |-> 0, cc |-> 0, last |-> 0,
            image |-> file, status |-> "running", code |-> 0], lens)

=============================================================================
