---------------------------- MODULE MCEmulators ----------------------------
(* Four registers, bytes of four bits, words of eight and host ints of     *)
(* sixteen.  Programs of a few instructions on values at the edges of a    *)
(* word, on stack addresses, with calls, pushes and illegal instructions.  *)
EXTENDS Emulators, SequencesExt, Bitwise

MCBits(f, a, b) ==
  CASE f = "OR" -> a | b [] f = "AND" -> a & b [] f = "XOR" -> a ^^ b

\* A count, or the -1 of a call that failed.
MCService(id, r1) == IF id = 2 THEN HALF + 1 ELSE -1

\* Instructions as bytes
Op(o) == <<o, 0>>
W(w) == <<Num(Hi(w)), Num(Lo(w))>>
RR(o, l, r) == <<Op(o), Num(l), Num(r)>>
R(o, l) == <<Op(o), Num(l)>>
RM(o, l, w, r) == <<Op(o), Num(l)>> \o W(w) \o <<Num(r)>>
M(o, w, r) == <<Op(o)>> \o W(w) \o <<Num(r)>>
I(o, w) == <<Op(o)>> \o W(w)
Exit == I("SVC", EXIT)

Image(code) ==
  LET bytes == FlattenSeq(code)
  IN  [a \in Word |-> IF a < Len(bytes) THEN bytes[a + 1] ELSE Num(0)]

Edges == {0, 1, 3, HALF - 1, HALF, WORD - 1}
DATA == 100

\* Two values, two operations, a branch over an instruction.
Arith == {<<RM("LDA", 1, a, 0), RM("LDA", 2, b, 0), RR(f, 1, 2), g, M(c, 24, 0),
            R("NEG", 1), Exit>> :
            a \in Edges, b \in Edges, f \in Binary,
            g \in {RR("CMP", 1, 2), RR("ADD", 1, 1), RR("DIV", 1, 2),
                   RR("ASR", 1, 2), R("NOT", 2)},
            c \in {"BEQ", "BLT"}}

\* Branches on a comparison.
Compare == {<<RM("LDA", 1, a, 0), RM("LDA", 2, b, 0), RR("CMP", 1, 2),
              M(c, 21, 0), RR("LDR", 1, 0), RR("LDR", 2, 0), Exit>> :
              a \in Edges, b \in Edges, c \in Branches}

\* The address of a local variable, through memory and back.
Pointer == {<<RM("LDA", 1, k, SP), RM("STW", 1, DATA, 0), RM("LDW", 2, DATA, 0),
              RR("CMP", 1, 2), M(c, 26, 0), RR(f, 1, 2), Exit>> :
              k \in {0, 2, 250}, c \in {"BEQ", "BGE"}, f \in Calcs}

\* A call that saves registers, pushes, answers in R1 and returns.
Call == {<<RM("LDA", 1, a, 0), RM("STB", 1, DATA, 0), M(q, b, 1), M("JSB", 22, 0),
           I("POPR", mask), <<Op("num")>>, I("PSHR", mask), RM("LDB", 2, DATA, 0),
           I("SVC", id), I("POPR", mask), <<Op("RSB")>>, Exit>> :
           a \in Edges, b \in {DATA - 1, DATA}, q \in Pushes,
           mask \in {0, 2, 5, 6, 7, 9, 15}, id \in {MONITOR, 2, 3, 9}}

Jumps == {<<RM("LDA", 1, a, 0), M("JMP", 10, 0), <<Op("num")>>, M("JMP", b, 1)>> :
            a \in {0, 128, 250}, b \in {0, 10, 128}}

Started(programs) == {[file |-> Image(c), lens |-> <<3>>, sp |-> 0] : c \in programs}

MCInvocations ==
  Started(Arith \cup Compare \cup Pointer \cup Call \cup Jumps)
  \cup {[file |-> Image(c), lens |-> l, sp |-> s] :
          c \in {<<R("NOT", 1), M("PSHA", 7, SP), I("SVC", EXIT)>>},
          l \in {<<1>>, <<4>>, <<1, 2>>, <<2, 0, 5>>},
          s \in {0, 128, 200}}

=============================================================================
