---------------------------- MODULE XFileProofs ----------------------------
(* Proofs about XFILE, for every size of the window, file and word.        *)
EXTENDS XFile, SequenceTheorems, WordsProofs

\* Bytes a file or the window may hold.
Cell == Bytes \cup {ZERO, JUNK}
Window == [0..(BUFMAX - 1) -> Cell]

Object ==
  [mode : {"closed", "R", "W"}, buf : Window, bufpos : Nat, filpos : Nat,
   buflen : 0..BUFMAX, bufofs : Nat, dirty : BOOLEAN, disk : Seq(Cell),
   ospos : Nat]

-----------------------------------------------------------------------------
(* The host                                                                *)

LEMMA FunctionIsSeq ==
  ASSUME NEW S, NEW m \in Nat, NEW w \in [1..m -> S]
  PROVE  w \in Seq(S) /\ Len(w) = m
<1>1. w \in Seq(S)
  BY SeqDef
<1>2. QED
  BY <1>1, LenProperties

LEMMA OsWriteLen ==
  ASSUME NEW d \in Seq(Cell), NEW p \in Nat, NEW b \in Window,
         NEW n \in 0..BUFMAX
  PROVE  /\ OsWrite(d, p, b, n) \in Seq(Cell)
         /\ n # 0 => Len(OsWrite(d, p, b, n)) = Larger(Len(d), p + n)
<1>1. CASE n = 0
  BY <1>1 DEF OsWrite
<1>2. CASE n # 0
  <2> DEFINE m == Larger(Len(d), p + n)
             e(k) == IF k - 1 \in p..(p + n - 1) THEN b[k - 1 - p]
                     ELSE IF k <= Len(d) THEN d[k] ELSE ZERO
             w == [k \in 1..m |-> e(k)]
  <2>1. m \in Nat
    BY WindowAssumption DEF Larger
  <2>2. \A k \in 1..m : e(k) \in Cell
    BY WindowAssumption, <2>1 DEF Window, Cell
  <2>3. w \in [1..m -> Cell]
    BY <2>2
  <2>4. w \in Seq(Cell) /\ Len(w) = m
    BY <2>1, <2>3, FunctionIsSeq
  <2>5. OsWrite(d, p, b, n) = w
    BY <1>2 DEF OsWrite
  <2>6. QED
    BY <2>4, <2>5
<1>3. QED
  BY <1>1, <1>2

-----------------------------------------------------------------------------
(* The window, while filpos is where the host's file is: neither fflush nor *)
(* fload misses its place.                                                 *)

LEMMA FlushEffect ==
  ASSUME NEW y \in Object, y.filpos = y.ospos
  PROVE  LET f == fflush(y) IN
         /\ f \in Object /\ f.filpos = f.ospos /\ f.dirty = FALSE
         /\ f.mode = y.mode /\ f.bufpos = y.bufpos /\ f.bufofs = y.bufofs
         /\ f.buf = y.buf /\ f.buflen = y.buflen
         /\ f.disk = OsWrite(y.disk, y.bufpos, y.buf, y.buflen)
<1> DEFINE d == OsWrite(y.disk, y.bufpos, y.buf, y.buflen)
           q == y.bufpos + y.buflen
<1>1. /\ y.bufpos \in Nat /\ y.ospos \in Nat /\ y.buf \in Window
      /\ y.disk \in Seq(Cell) /\ y.buflen \in 0..BUFMAX
  BY DEF Object
<1>2. (IF y.bufpos # y.filpos THEN OsSeek(y, y.bufpos) ELSE y.ospos) = y.bufpos
  BY <1>1 DEF OsSeek
<1>3. fflush(y) = [y EXCEPT !.disk = d, !.ospos = q, !.filpos = q, !.dirty = FALSE]
  BY <1>2 DEF fflush
<1>4. q \in Nat /\ d \in Seq(Cell)
  <2>1. q \in Nat
    BY <1>1, WindowAssumption
  <2>2. d \in Seq(Cell)
    BY <1>1, OsWriteLen
  <2>3. QED
    BY <2>1, <2>2
<1> HIDE DEF d, q
<1>5. fflush(y) \in Object
  BY <1>3, <1>4 DEF Object
<1>6. QED
  BY <1>3, <1>5 DEF Object, d

LEMMA FlushedType ==
  ASSUME NEW y \in Object, y.filpos = y.ospos
  PROVE  /\ Flushed(y) \in Object
         /\ Flushed(y).filpos = Flushed(y).ospos
         /\ Flushed(y).mode = y.mode /\ Flushed(y).bufpos = y.bufpos
         /\ Flushed(y).buflen = y.buflen /\ Flushed(y).bufofs = y.bufofs
<1>1. CASE y.dirty
  <2>1. Flushed(y) = fflush(y)
    BY <1>1 DEF Flushed
  <2>2. QED
    BY <2>1, FlushEffect
<1>2. CASE ~ y.dirty
  BY <1>2 DEF Flushed
<1>3. QED
  BY <1>1, <1>2

\* The number of bytes that a window at p gets.
Loaded(d, p) == Smaller(BUFMAX, Larger(0, Len(d) - p))

LEMMA LoadEffect ==
  ASSUME NEW y \in Object, y.filpos = y.ospos
  PROVE  LET f == fload(y) IN
         /\ f \in Object /\ f.filpos = f.ospos
         /\ f.mode = y.mode /\ f.bufpos = y.bufpos /\ f.bufofs = y.bufofs
         /\ f.dirty = y.dirty /\ f.disk = y.disk
         /\ f.buflen = Loaded(y.disk, y.bufpos)
         /\ \A k \in 0..(f.buflen - 1) : f.buf[k] = y.disk[y.bufpos + k + 1]
<1> DEFINE n == Loaded(y.disk, y.bufpos)
           b == [k \in DOMAIN y.buf |-> IF k < n THEN y.disk[y.bufpos + k + 1]
                                        ELSE y.buf[k]]
<1>1. /\ y.bufpos \in Nat /\ y.ospos \in Nat /\ y.buf \in Window
      /\ y.disk \in Seq(Cell) /\ Len(y.disk) \in Nat /\ y.buflen \in 0..BUFMAX
  BY DEF Object
<1>2. (IF y.bufpos # y.filpos THEN OsSeek(y, y.bufpos) ELSE y.ospos) = y.bufpos
  BY <1>1 DEF OsSeek
<1>3. fload(y) = [y EXCEPT !.buf = b, !.buflen = n, !.ospos = y.bufpos + n,
                           !.filpos = y.bufpos + n]
  BY <1>2 DEF fload, Loaded
<1>4. n \in 0..BUFMAX /\ (n > 0 => y.bufpos + n <= Len(y.disk))
  BY <1>1, WindowAssumption DEF Loaded, Smaller, Larger
<1>5. b \in Window
  <2>1. DOMAIN y.buf = 0..(BUFMAX - 1) /\ \A k \in 0..(BUFMAX - 1) : y.buf[k] \in Cell
    BY <1>1 DEF Window
  <2>2. ASSUME NEW k \in 0..(BUFMAX - 1), k < n
        PROVE  y.disk[y.bufpos + k + 1] \in Cell
    <3>1. y.bufpos + k + 1 \in 1..Len(y.disk)
      BY <1>1, <1>4, <2>2, WindowAssumption
    <3>2. QED
      BY <1>1, <3>1, ElementOfSeq
  <2>3. QED
    BY <2>1, <2>2 DEF Window
<1>6. \A k \in 0..(n - 1) : b[k] = y.disk[y.bufpos + k + 1]
  <2>1. DOMAIN y.buf = 0..(BUFMAX - 1)
    BY <1>1 DEF Window
  <2>2. \A k \in 0..(n - 1) : k \in 0..(BUFMAX - 1) /\ k < n
    BY <1>4, WindowAssumption
  <2>3. QED
    BY <2>1, <2>2
<1>7. y.bufpos + n \in Nat
  BY <1>1, <1>4, WindowAssumption
<1> HIDE DEF n, b
<1>8. QED
  BY <1>3, <1>4, <1>5, <1>6, <1>7 DEF Object, n

-----------------------------------------------------------------------------
(***************************************************************************)
(* filpos is exact as long as no program seeks before the start of a file. *)
(***************************************************************************)

ForwardSeeks ==
  \A mode, whence, len, to : SeekOK(mode, whence, len, to) => ~ (to < 0)

Exact ==
  /\ x \in Object
  /\ target # NONE => target \in Nat /\ x.mode # "closed"
  /\ x.mode # "closed" => x.filpos = x.ospos

LEMMA SeekPosType ==
  ASSUME x \in Object, NEW ofs \in Word, NEW whence
  PROVE  Tell \in Nat /\ SeekPos(ofs, whence) \in Int
<1>1. x.bufpos \in Nat /\ x.bufofs \in Nat
  BY DEF Object
<1>2. Tell \in Nat
  BY <1>1 DEF Tell
<1>3. ofs \in Int /\ WORD \in Int
  BY Halves DEF Word
<1>4. QED
  BY <1>2, <1>3 DEF SeekPos, Signed

LEMMA InitExact == Init => Exact
<1> SUFFICES ASSUME Init PROVE Exact
  OBVIOUS
<1>1. [k \in 0..(BUFMAX - 1) |-> JUNK] \in Window
  BY DEF Window, Cell
<1>2. x \in Object
  BY <1>1, WindowAssumption DEF Init, Object
<1>3. QED
  BY <1>2 DEF Init, Exact

\* fopen: a fresh object, whose window is loaded for reading.
LEMMA FopenFresh ==
  ASSUME x \in Object, NEW m \in {"R", "W"}
  PROVE  LET y == [x EXCEPT !.mode = m, !.buf = [k \in DOMAIN @ |-> JUNK],
                            !.bufpos = 0, !.filpos = 0, !.buflen = 0,
                            !.bufofs = 0, !.dirty = FALSE, !.ospos = 0]
         IN  /\ y \in Object /\ y.mode = m /\ y.disk = x.disk
             /\ y.bufpos = 0 /\ y.filpos = 0 /\ y.ospos = 0
             /\ y.buflen = 0 /\ y.bufofs = 0 /\ y.dirty = FALSE
<1> DEFINE b == [k \in DOMAIN x.buf |-> JUNK]
<1>1. b \in Window
  <2>1. DOMAIN x.buf = 0..(BUFMAX - 1)
    BY DEF Object, Window
  <2>2. QED
    BY <2>1 DEF Window, Cell
<1> HIDE DEF b
<1>2. 0 \in 0..BUFMAX
  BY WindowAssumption
<1>3. [x EXCEPT !.mode = m, !.buf = b, !.bufpos = 0, !.filpos = 0, !.buflen = 0,
                !.bufofs = 0, !.dirty = FALSE, !.ospos = 0] \in Object
  BY <1>1, <1>2 DEF Object
<1>4. QED
  BY <1>3 DEF Object, b

LEMMA FopenExact ==
  ASSUME Exact, NEW m \in {"R", "W"}, fopen(m)
  PROVE  Exact'
<1> DEFINE y == [x EXCEPT !.mode = m, !.buf = [k \in DOMAIN @ |-> JUNK],
                          !.bufpos = 0, !.filpos = 0, !.buflen = 0,
                          !.bufofs = 0, !.dirty = FALSE, !.ospos = 0]
<1>1. y \in Object /\ y.mode = m /\ y.filpos = 0 /\ y.ospos = 0
  BY FopenFresh DEF Exact
<1>2. target' = NONE
  BY DEF fopen, Idle
<1>3. x' = IF m = "R" THEN fload(y) ELSE [y EXCEPT !.disk = <<>>]
  BY DEF fopen
<1> HIDE DEF y
<1>4. CASE m = "R"
  BY <1>1, <1>2, <1>3, <1>4, LoadEffect DEF Exact
<1>5. CASE m # "R"
  <2>1. [y EXCEPT !.disk = <<>>] \in Object
    <3> DEFINE d == <<>>
    <3>1. d \in Seq(Cell)
      OBVIOUS
    <3> HIDE DEF d
    <3>2. [y EXCEPT !.disk = d] \in Object
      BY <1>1, <3>1 DEF Object
    <3>3. QED
      BY <3>2 DEF d
  <2>2. QED
    BY <1>1, <1>2, <1>3, <1>5, <2>1 DEF Exact, Object
<1>6. QED
  BY <1>4, <1>5

LEMMA FreadExact ==
  ASSUME Exact, fread
  PROVE  Exact'
<1> DEFINE f == Flushed(x)
           g == [f EXCEPT !.bufpos = @ + f.buflen, !.bufofs = 0]
           y == IF x.bufofs >= x.buflen THEN fload(g) ELSE x
<1>1. x \in Object /\ x.mode = "R" /\ x.filpos = x.ospos /\ target' = NONE
  BY DEF Exact, fread, Idle
<1>2. f \in Object /\ f.filpos = f.ospos
  BY <1>1, FlushedType
<1> HIDE DEF f
<1>3. g \in Object /\ g.filpos = g.ospos
  <2>1. f.bufpos + f.buflen \in Nat
    BY <1>2, WindowAssumption DEF Object
  <2>2. QED
    BY <1>2, <2>1 DEF Object
<1> HIDE DEF g
<1>4. y \in Object /\ y.filpos = y.ospos
  BY <1>1, <1>3, LoadEffect
<1>5. x' = y \/ x' = [y EXCEPT !.bufofs = @ + 1]
  BY DEF fread, f, g
<1> HIDE DEF y
<1>6. [y EXCEPT !.bufofs = @ + 1] \in Object
  <2>1. y.bufofs + 1 \in Nat
    BY <1>4 DEF Object
  <2>2. QED
    BY <1>4, <2>1 DEF Object
<1>7. x' \in Object /\ x'.filpos = x'.ospos
  BY <1>4, <1>5, <1>6 DEF Object
<1>8. QED
  BY <1>1, <1>7 DEF Exact

\* A byte goes into the window at y.bufofs.
LEMMA FwriteStores ==
  ASSUME NEW y \in Object, NEW b \in Bytes, y.bufofs < BUFMAX
  PROVE  LET z == [y EXCEPT !.dirty = TRUE, !.buf[y.bufofs] = b,
                            !.bufofs = @ + 1,
                            !.buflen = Larger(@, y.bufofs + 1)]
         IN  /\ z \in Object /\ z.mode = y.mode /\ z.disk = y.disk
             /\ z.bufpos = y.bufpos /\ z.filpos = y.filpos /\ z.ospos = y.ospos
             /\ z.dirty = TRUE /\ z.bufofs = y.bufofs + 1
             /\ z.buflen = Larger(y.buflen, y.bufofs + 1)
             /\ z.buf = [y.buf EXCEPT ![y.bufofs] = b]
<1> DEFINE c == [y.buf EXCEPT ![y.bufofs] = b]
           n == Larger(y.buflen, y.bufofs + 1)
           o == y.bufofs + 1
<1>1. y.buf \in Window /\ y.bufofs \in Nat /\ y.buflen \in 0..BUFMAX
  BY DEF Object
<1>2. c \in Window
  BY <1>1 DEF Window, Cell
<1>3. n \in 0..BUFMAX /\ o \in Nat
  BY <1>1, WindowAssumption DEF Larger
<1> HIDE DEF c, n, o
<1>4. [y EXCEPT !.dirty = TRUE, !.buf = c, !.bufofs = o, !.buflen = n] \in Object
  BY <1>2, <1>3 DEF Object
<1>5. [y EXCEPT !.dirty = TRUE, !.buf[y.bufofs] = b, !.bufofs = @ + 1,
                !.buflen = Larger(@, y.bufofs + 1)]
      = [y EXCEPT !.dirty = TRUE, !.buf = c, !.bufofs = o, !.buflen = n]
  BY DEF Object, c, n, o
<1>6. QED
  BY <1>4, <1>5 DEF Object, c, n, o

LEMMA FwriteExact ==
  ASSUME Exact, NEW b \in Bytes, fwrite(b)
  PROVE  Exact'
<1> DEFINE g == [x EXCEPT !.buflen = BUFMAX]
           f == Flushed(g)
           u == [f EXCEPT !.bufpos = @ + BUFMAX, !.bufofs = 0, !.buflen = 0]
           y == IF x.bufofs >= BUFMAX THEN u ELSE x
<1>1. x \in Object /\ x.mode = "W" /\ x.filpos = x.ospos /\ target' = NONE
  BY DEF Exact, fwrite, Idle
<1>2. g \in Object /\ g.filpos = g.ospos
  <2>1. BUFMAX \in 0..BUFMAX
    BY WindowAssumption
  <2>2. QED
    BY <1>1, <2>1 DEF Object
<1> HIDE DEF g
<1>3. f \in Object /\ f.filpos = f.ospos
  BY <1>2, FlushedType
<1> HIDE DEF f
<1>4. u \in Object /\ u.filpos = u.ospos /\ u.bufofs = 0
  <2>1. f.bufpos + BUFMAX \in Nat /\ 0 \in 0..BUFMAX
    BY <1>3, WindowAssumption DEF Object
  <2>2. QED
    BY <1>3, <2>1 DEF Object
<1> HIDE DEF u
<1>5. y \in Object /\ y.filpos = y.ospos /\ y.bufofs < BUFMAX
  <2>1. x.bufofs \in Nat
    BY <1>1 DEF Object
  <2>2. QED
    BY <1>1, <1>4, <2>1, WindowAssumption
<1>6. x' = [y EXCEPT !.dirty = TRUE, !.buf[y.bufofs] = b, !.bufofs = @ + 1,
                     !.buflen = Larger(@, y.bufofs + 1)]
  BY DEF fwrite, g, f, u
<1> HIDE DEF y
<1>7. x' \in Object /\ x'.filpos = x'.ospos
  BY <1>5, <1>6, FwriteStores
<1>8. QED
  BY <1>1, <1>7 DEF Exact

LEMMA FseekExact ==
  ASSUME ForwardSeeks, Exact, NEW ofs \in Word, NEW whence,
         fseekInWindow(ofs, whence) \/ fseekOutside(ofs, whence)
  PROVE  Exact'
<1> DEFINE to == SeekPos(ofs, whence)
<1>1. x \in Object /\ x.mode # "closed" /\ x.filpos = x.ospos /\ target = NONE
  BY DEF Exact, fseekInWindow, fseekOutside, Idle
<1>2. to \in Int
  BY <1>1, SeekPosType
<1>3. to \in Nat
  <2>1. ~ (to < 0)
    BY DEF ForwardSeeks, fseekInWindow, fseekOutside
  <2>2. QED
    BY <1>2, <2>1
<1> HIDE DEF to
<1>4. CASE fseekInWindow(ofs, whence)
  <2> DEFINE o == to - x.bufpos
             n == Larger(x.buflen, o + 1)
  <2>1. o >= 0 /\ o < BUFMAX /\ x' = [x EXCEPT !.bufofs = o, !.buflen = n]
    BY <1>4 DEF fseekInWindow, InWindow, to
  <2>2. o \in Nat /\ n \in 0..BUFMAX
    <3>1. x.bufpos \in Nat /\ x.buflen \in 0..BUFMAX
      BY <1>1 DEF Object
    <3>2. QED
      BY <1>2, <2>1, <3>1, WindowAssumption DEF Larger
  <2> HIDE DEF o, n
  <2>3. x' \in Object /\ x'.filpos = x'.ospos
    BY <1>1, <2>1, <2>2 DEF Object
  <2>4. target' = NONE
    BY <1>1, <1>4 DEF fseekInWindow
  <2>5. QED
    BY <2>3, <2>4 DEF Exact
<1>5. CASE fseekOutside(ofs, whence)
  <2>1. x' = Flushed(x) /\ target' = to
    BY <1>5 DEF fseekOutside, to
  <2>2. QED
    BY <1>1, <1>3, <2>1, FlushedType DEF Exact
<1>6. QED
  BY <1>4, <1>5

LEMMA SeekLoopLoads ==
  ASSUME Exact, SeekLoop
  PROVE  LET y == [x EXCEPT !.ospos = target, !.filpos = target,
                            !.bufpos = target, !.bufofs = 0, !.buflen = 0]
         IN  y \in Object /\ x' = fload(y) /\ target' = NONE
<1>1. x \in Object /\ target \in Nat /\ x.filpos = x.ospos
  BY DEF Exact, SeekLoop, Idle
<1>2. ~ (target < 0)
  BY <1>1
<1>3. OsSeek(x, target) = target
  BY <1>2 DEF OsSeek
<1> DEFINE y == [x EXCEPT !.ospos = target, !.filpos = target,
                          !.bufpos = target, !.bufofs = 0, !.buflen = 0]
<1>4. 0 \in 0..BUFMAX
  BY WindowAssumption
<1>5. y \in Object
  BY <1>1, <1>4 DEF Object
<1>6. target' = NONE
  BY <1>2 DEF SeekLoop
<1>7. CASE x.filpos = target
  <2>1. x' = fload([x EXCEPT !.bufpos = target, !.bufofs = 0, !.buflen = 0])
    BY <1>7 DEF SeekLoop
  <2>2. y = [x EXCEPT !.bufpos = target, !.bufofs = 0, !.buflen = 0]
    BY <1>1, <1>7 DEF Object
  <2>3. QED
    BY <1>5, <1>6, <2>1, <2>2
<1>8. CASE x.filpos # target
  <2>1. x' = fload([[x EXCEPT !.ospos = target, !.filpos = target]
                    EXCEPT !.bufpos = target, !.bufofs = 0, !.buflen = 0])
    BY <1>2, <1>3, <1>8 DEF SeekLoop
  <2>2. QED
    BY <1>5, <1>6, <2>1
<1>9. QED
  BY <1>7, <1>8

LEMMA SeekLoopExact ==
  ASSUME Exact, SeekLoop
  PROVE  Exact'
<1> DEFINE y == [x EXCEPT !.ospos = target, !.filpos = target,
                          !.bufpos = target, !.bufofs = 0, !.buflen = 0]
<1>1. y \in Object /\ x' = fload(y) /\ target' = NONE
  BY SeekLoopLoads
<1>2. y.filpos = y.ospos
  BY DEF Exact, Object
<1> HIDE DEF y
<1>3. x' \in Object /\ x'.filpos = x'.ospos
  BY <1>1, <1>2, LoadEffect
<1>4. QED
  BY <1>1, <1>3 DEF Exact

LEMMA FcloseExact ==
  ASSUME Exact, fclose
  PROVE  Exact'
<1>1. x \in Object /\ x.filpos = x.ospos /\ target' = NONE
  BY DEF Exact, fclose, Idle
<1> DEFINE f == Flushed(x)
<1>2. f \in Object
  BY <1>1, FlushedType
<1>3. x' = [f EXCEPT !.mode = "closed", !.bufpos = 0, !.bufofs = 0]
  BY DEF fclose
<1> HIDE DEF f
<1>4. x' \in Object /\ x'.mode = "closed"
  BY <1>2, <1>3 DEF Object
<1>5. QED
  BY <1>1, <1>4 DEF Exact

LEMMA NextExact ==
  ASSUME ForwardSeeks, Exact, [Next]_vars
  PROVE  Exact'
<1>1. CASE UNCHANGED vars
  BY <1>1 DEF vars, Exact
<1>2. QED
  BY <1>1, FopenExact, FreadExact, FwriteExact, FseekExact, FcloseExact,
     SeekLoopExact DEF Next, Call

\* XFILE may skip the lseek: filpos is the position of the host's file in every
\* open file, for every size of the window and the word, also when a file that
\* is being written is sought in.
THEOREM FilposIsExact ==
  ASSUME ForwardSeeks
  PROVE  Spec => []FilposExact
<1>1. Exact => FilposExact
  BY DEF Exact, FilposExact
<1>2. Exact /\ [Next]_vars => Exact'
  BY NextExact
<1>3. QED
  BY <1>1, <1>2, InitExact, PTL DEF Spec

-----------------------------------------------------------------------------
(***************************************************************************)
(* Without seeks on files being written, and with seeks inside the files   *)
(* being read, the buffered file is a file.                                *)
(***************************************************************************)

InputSeeks ==
  \A mode, whence, len, to :
    SeekOK(mode, whence, len, to) => mode = "R" /\ to \in 0..(len - 1)

\* The window shows the file from bufpos on.
Reading ==
  /\ x.dirty = FALSE
  /\ x.bufpos <= Len(x.disk)
  /\ x.buflen = Loaded(x.disk, x.bufpos)
  /\ x.bufofs <= x.buflen
  /\ \A k \in 0..(x.buflen - 1) : x.buf[k] = x.disk[x.bufpos + k + 1]
  /\ target # NONE => target < Len(x.disk) /\ ret.got = NONE

\* The window holds what comes behind the end of the host's file.
Writing ==
  /\ target = NONE /\ ret.got = NONE
  /\ x.bufofs = x.buflen /\ Len(x.disk) = x.bufpos
  /\ x.dirty = IF x.buflen = 0 THEN FALSE ELSE TRUE
  /\ \A k \in 0..(x.buflen - 1) : x.buf[k] \in Bytes

Faithful ==
  /\ Exact
  /\ x.disk \in Seq(Bytes)
  /\ x.mode = "closed" => x.dirty = FALSE /\ ret.got = NONE
  /\ x.mode = "R" => Reading
  /\ x.mode = "W" => Writing
  /\ ReadsFile

LEMMA InputForward == InputSeeks => ForwardSeeks
<1> SUFFICES ASSUME InputSeeks, NEW mode, NEW whence, NEW len, NEW to,
                    SeekOK(mode, whence, len, to), to < 0
             PROVE  FALSE
  BY DEF ForwardSeeks
<1>1. to \in 0..(len - 1)
  BY DEF InputSeeks
<1>2. QED
  BY <1>1

LEMMA InitFaithful == Init => Faithful /\ F!Init
<1> SUFFICES ASSUME Init PROVE Faithful /\ F!Init
  OBVIOUS
<1>1. x.mode = "closed" /\ x.dirty = FALSE /\ x.disk = <<>> /\ ret.got = NONE
  BY DEF Init, Quiet
<1>2. Faithful
  BY <1>1, InitExact DEF Faithful, ReadsFile
<1>3. Contents = <<>>
  BY <1>1 DEF Contents
<1>4. QED
  BY <1>1, <1>2, <1>3 DEF F!Init

LEMMA FopenFaithful ==
  ASSUME Faithful, NEW m \in {"R", "W"}, fopen(m)
  PROVE  Faithful' /\ F!Open(m)
<1> DEFINE y == [x EXCEPT !.mode = m, !.buf = [k \in DOMAIN @ |-> JUNK],
                          !.bufpos = 0, !.filpos = 0, !.buflen = 0,
                          !.bufofs = 0, !.dirty = FALSE, !.ospos = 0]
<1>1. /\ y \in Object /\ y.mode = m /\ y.disk = x.disk /\ y.bufpos = 0
      /\ y.filpos = 0 /\ y.ospos = 0 /\ y.buflen = 0 /\ y.bufofs = 0
      /\ y.dirty = FALSE
  BY FopenFresh DEF Faithful, Exact
<1>2. /\ x.mode = "closed" /\ target' = NONE /\ ret'.got = NONE
      /\ x.dirty = FALSE /\ x.disk \in Seq(Bytes) /\ Len(x.disk) \in Nat
  BY DEF fopen, Idle, Quiet, Faithful
<1>3. x' = IF m = "R" THEN fload(y) ELSE [y EXCEPT !.disk = <<>>]
  BY DEF fopen
<1>4. Exact'
  BY FopenExact DEF Faithful
<1> HIDE DEF y
<1>5. Contents = x.disk
  BY <1>2 DEF Contents
<1>6. CASE m = "R"
  <2>1. /\ x'.mode = "R" /\ x'.disk = x.disk /\ x'.dirty = FALSE
        /\ x'.bufpos = 0 /\ x'.bufofs = 0 /\ x'.buflen = Loaded(x'.disk, 0)
        /\ \A k \in 0..(x'.buflen - 1) : x'.buf[k] = x'.disk[0 + k + 1]
    BY <1>1, <1>3, <1>6, LoadEffect
  <2>2. Reading'
    <3>1. x'.bufofs <= x'.buflen
      BY <1>2, <2>1, WindowAssumption DEF Loaded, Smaller, Larger
    <3>2. QED
      BY <1>2, <2>1, <3>1 DEF Reading
  <2>3. Faithful'
    BY <1>2, <1>4, <2>1, <2>2 DEF Faithful, ReadsFile
  <2>4. Contents' = x.disk /\ Tell' = 0
    BY <2>1 DEF Contents, Tell
  <2>5. QED
    BY <1>2, <1>5, <1>6, <2>1, <2>3, <2>4 DEF F!Open
<1>7. CASE m = "W"
  <2>1. /\ x'.mode = "W" /\ x'.disk = <<>> /\ x'.dirty = FALSE
        /\ x'.bufpos = 0 /\ x'.bufofs = 0 /\ x'.buflen = 0
    BY <1>1, <1>3, <1>7 DEF Object
  <2>2. Writing'
    <3>1. Len(x'.disk) = 0 /\ \A k \in 0..(x'.buflen - 1) : FALSE
      BY <2>1
    <3>2. QED
      BY <1>2, <2>1, <3>1 DEF Writing
  <2>3. Faithful'
    BY <1>2, <1>4, <2>1, <2>2 DEF Faithful, ReadsFile
  <2>4. Contents' = <<>> /\ Tell' = 0
    BY <2>1 DEF Contents, Tell
  <2>5. QED
    BY <1>2, <1>5, <1>7, <2>1, <2>3, <2>4 DEF F!Open
<1>8. QED
  BY <1>6, <1>7

LEMMA FreadFaithful ==
  ASSUME Faithful, fread
  PROVE  Faithful' /\ F!Read
<1>1. /\ x \in Object /\ x.mode = "R" /\ x.filpos = x.ospos
      /\ x.dirty = FALSE /\ target = NONE /\ target' = NONE
      /\ x.disk \in Seq(Bytes) /\ Reading /\ Exact'
  BY FreadExact DEF Faithful, Exact, Reading, fread, Idle
<1>2. /\ x.bufpos \in Nat /\ x.bufofs \in Nat /\ x.buflen \in 0..BUFMAX
      /\ Len(x.disk) \in Nat /\ BUFMAX \in Nat \ {0}
  BY <1>1, WindowAssumption DEF Object
<1> DEFINE g == [x EXCEPT !.bufpos = @ + x.buflen, !.bufofs = 0]
           y == IF x.bufofs >= x.buflen THEN fload(g) ELSE x
<1>3. Flushed(x) = x
  BY <1>1 DEF Flushed
<1>4. IF y.buflen = 0
        THEN x' = y /\ ret' = [at |-> Tell, got |-> EOF]
        ELSE /\ x' = [y EXCEPT !.bufofs = @ + 1]
             /\ ret' = [at |-> Tell, got |-> y.buf[y.bufofs]]
  BY <1>3 DEF fread
<1>5. /\ g \in Object /\ g.filpos = g.ospos /\ g.mode = "R" /\ g.dirty = FALSE
      /\ g.disk = x.disk /\ g.bufpos = x.bufpos + x.buflen /\ g.bufofs = 0
  <2> DEFINE p == x.bufpos + x.buflen
  <2>1. p \in Nat
    BY <1>2
  <2> HIDE DEF p
  <2>2. g = [x EXCEPT !.bufpos = p, !.bufofs = 0]
    BY DEF p
  <2> HIDE DEF g
  <2>3. QED
    BY <1>1, <2>1, <2>2 DEF Object, p
<1> HIDE DEF g
\* The window, loaded again or not, shows the byte at the position.
<1>6. /\ y \in Object /\ y.mode = "R" /\ y.dirty = FALSE /\ y.disk = x.disk
      /\ y.bufpos \in Nat /\ y.bufofs \in Nat /\ y.buflen \in Nat
      /\ y.bufpos <= Len(x.disk) /\ y.buflen = Loaded(x.disk, y.bufpos)
      /\ y.bufpos + y.bufofs = Tell /\ (y.buflen # 0 => y.bufofs < y.buflen)
      /\ (y.buflen = 0 => y.bufofs = 0)
      /\ \A k \in 0..(y.buflen - 1) : y.buf[k] = x.disk[y.bufpos + k + 1]
  <2>1. CASE x.bufofs >= x.buflen
    <3>1. x.bufofs = x.buflen /\ x.bufpos + x.buflen <= Len(x.disk)
      BY <1>1, <1>2, <2>1 DEF Reading, Loaded, Smaller, Larger
    <3>2. y = fload(g)
      BY <2>1
    <3>3. Tell = g.bufpos + g.bufofs /\ g.bufpos \in Nat
      BY <1>2, <1>5, <3>1 DEF Tell
    <3> HIDE DEF y
    <3>4. /\ y \in Object /\ y.mode = g.mode /\ y.bufpos = g.bufpos
          /\ y.bufofs = g.bufofs /\ y.dirty = g.dirty /\ y.disk = g.disk
          /\ y.buflen = Loaded(g.disk, g.bufpos)
          /\ \A k \in 0..(y.buflen - 1) : y.buf[k] = g.disk[g.bufpos + k + 1]
      BY <1>5, <3>2, LoadEffect
    <3>5. y.buflen \in Nat
      BY <1>2, <3>4 DEF Object
    <3>6. y.buflen # 0 => 0 < y.buflen
      BY <3>5
    <3>7. QED
      BY <1>5, <3>1, <3>3, <3>4, <3>5, <3>6
  <2>2. CASE ~ (x.bufofs >= x.buflen)
    <3>1. y = x
      BY <2>2
    <3> HIDE DEF y
    <3>2. QED
      BY <1>1, <1>2, <2>2, <3>1 DEF Reading, Tell
  <2>3. QED
    BY <2>1, <2>2
<1> HIDE DEF y
<1>7. Contents = x.disk /\ Tell \in Nat
  BY <1>1, <1>2 DEF Contents, Tell
<1>8. CASE y.buflen = 0
  <2>1. x' = y /\ ret' = [at |-> Tell, got |-> EOF]
    BY <1>4, <1>8
  <2>2. Tell = Len(x.disk)
    <3>1. Loaded(x.disk, y.bufpos) = 0 /\ Tell = y.bufpos
      BY <1>6, <1>8
    <3>2. Len(x.disk) <= y.bufpos
      BY <1>2, <1>6, <3>1 DEF Loaded, Smaller, Larger
    <3>3. QED
      BY <1>2, <1>6, <3>1, <3>2
  <2>3. Tell' = Tell /\ Contents' = x.disk
    BY <1>6, <2>1 DEF Tell, Contents
  <2>4. Reading'
    <3>0. y.bufofs <= y.buflen
      BY <1>6, <1>8
    <3>1. /\ x'.dirty = FALSE /\ x'.bufpos <= Len(x'.disk) /\ x'.bufofs <= x'.buflen
          /\ x'.buflen = Loaded(x'.disk, x'.bufpos)
      BY <1>6, <2>1, <3>0
    <3>2. \A k \in 0..(x'.buflen - 1) : x'.buf[k] = x'.disk[x'.bufpos + k + 1]
      BY <1>6, <2>1
    <3>3. QED
      BY <1>1, <3>1, <3>2 DEF Reading
  <2>5. ReadsFile'
    BY <1>2, <1>6, <2>1, <2>2 DEF ReadsFile
  <2>6. Faithful'
    BY <1>1, <1>6, <2>1, <2>4, <2>5 DEF Faithful
  <2>7. F!Get(Contents, Tell) = EOF
    BY <1>2, <1>7, <2>2 DEF F!Get
  <2>8. QED
    BY <1>1, <1>6, <1>7, <2>1, <2>3, <2>6, <2>7 DEF F!Read
<1>9. CASE y.buflen # 0
  <2>1. x' = [y EXCEPT !.bufofs = @ + 1] /\ ret' = [at |-> Tell, got |-> y.buf[y.bufofs]]
    BY <1>4, <1>9
  <2>2. /\ x'.mode = "R" /\ x'.dirty = FALSE /\ x'.disk = x.disk /\ x'.buf = y.buf
        /\ x'.bufpos = y.bufpos /\ x'.buflen = y.buflen /\ x'.bufofs = y.bufofs + 1
    BY <1>6, <2>1 DEF Object
  <2>3. Tell < Len(x.disk) /\ y.bufofs \in 0..(y.buflen - 1)
    BY <1>2, <1>6, <1>9 DEF Loaded, Smaller, Larger
  <2>4. ret'.at = Tell /\ ret'.got = x.disk[Tell + 1]
    <3>1. y.bufpos + y.bufofs + 1 = Tell + 1
      BY <1>6
    <3>2. y.buf[y.bufofs] = x.disk[y.bufpos + y.bufofs + 1]
      BY <1>6, <2>3
    <3>3. QED
      BY <2>1, <3>1, <3>2
  <2>5. Tell' = Tell + 1 /\ Contents' = x.disk
    BY <1>6, <2>2 DEF Tell, Contents
  <2>6. x.disk[Tell + 1] # EOF
    <3>1. Tell + 1 \in 1..Len(x.disk)
      BY <1>2, <1>7, <2>3
    <3>2. x.disk[Tell + 1] \in Bytes
      BY <1>1, <3>1, ElementOfSeq
    <3>3. QED
      BY <3>2, MarksAssumption
  <2>7. Reading'
    <3>1. y.bufofs + 1 <= y.buflen
      BY <1>6, <1>9
    <3>2. QED
      BY <1>1, <1>6, <2>2, <3>1 DEF Reading
  <2>8. ReadsFile'
    BY <2>2, <2>3, <2>4 DEF ReadsFile
  <2>9. Faithful'
    BY <1>1, <2>2, <2>7, <2>8 DEF Faithful
  <2>10. F!Get(Contents, Tell) = x.disk[Tell + 1]
    BY <1>7, <2>3 DEF F!Get
  <2>11. QED
    BY <1>1, <1>7, <2>2, <2>4, <2>5, <2>6, <2>9, <2>10 DEF F!Read
<1>10. QED
  BY <1>8, <1>9

\* A window that starts at the end of the host's file is appended to it.
LEMMA AppendedBytes ==
  ASSUME NEW d \in Seq(Bytes), NEW c \in Window, NEW n \in 0..BUFMAX,
         \A k \in 0..(n - 1) : c[k] \in Bytes
  PROVE  LET w == OsWrite(d, Len(d), c, n) IN
         /\ w \in Seq(Bytes) /\ Len(w) = Len(d) + n
         /\ \A k \in 1..(Len(d) + n) :
              w[k] = IF k <= Len(d) THEN d[k] ELSE c[k - 1 - Len(d)]
<1> DEFINE p == Len(d)
           v == [k \in 1..(p + n) |-> IF k <= p THEN d[k] ELSE c[k - 1 - p]]
<1>1. p \in Nat /\ n \in Nat /\ p + n \in Nat /\ d \in [1..p -> Bytes]
  BY WindowAssumption, LenProperties
<1>2. v \in [1..(p + n) -> Bytes]
  <2> SUFFICES ASSUME NEW k \in 1..(p + n)
               PROVE  (IF k <= p THEN d[k] ELSE c[k - 1 - p]) \in Bytes
    OBVIOUS
  <2>1. CASE k <= p
    BY <1>1, <2>1
  <2>2. CASE ~ (k <= p)
    <3>1. k - 1 - p \in 0..(n - 1)
      BY <1>1, <2>2
    <3>2. QED
      BY <2>2, <3>1
  <2>3. QED
    BY <2>1, <2>2
<1>3. v \in Seq(Bytes) /\ Len(v) = p + n
  BY <1>1, <1>2, FunctionIsSeq
<1>4. OsWrite(d, p, c, n) = v
  <2>1. CASE n = 0
    <3>1. OsWrite(d, p, c, n) = d
      BY <2>1 DEF OsWrite
    <3>2. \A k \in 1..p : v[k] = d[k]
      BY <1>1, <2>1
    <3> HIDE DEF v
    <3>3. v \in [1..p -> Bytes]
      BY <1>1, <1>2, <2>1
    <3>4. d = v
      BY <1>1, <3>2, <3>3
    <3>5. QED
      BY <3>1, <3>4
  <2>2. CASE n # 0
    <3>1. Larger(Len(d), p + n) = p + n
      BY <1>1, <2>2 DEF Larger
    <3>2. OsWrite(d, p, c, n) =
            [k \in 1..(p + n) |-> IF k - 1 \in p..(p + n - 1) THEN c[k - 1 - p]
                                  ELSE IF k <= Len(d) THEN d[k] ELSE ZERO]
      BY <2>2, <3>1 DEF OsWrite
    <3>3. \A k \in 1..(p + n) : (k - 1 \in p..(p + n - 1)) <=> ~ (k <= p)
      BY <1>1
    <3>4. QED
      BY <3>2, <3>3
  <2>3. QED
    BY <2>1, <2>2
<1> HIDE DEF v
<1>5. \A k \in 1..(p + n) : v[k] = IF k <= p THEN d[k] ELSE c[k - 1 - p]
  BY DEF v
<1>6. QED
  BY <1>3, <1>4, <1>5

\* One more byte in the window is one more byte in the file.
LEMMA OneMoreByte ==
  ASSUME NEW d \in Seq(Bytes), NEW c \in Window, NEW n \in 0..(BUFMAX - 1),
         \A k \in 0..(n - 1) : c[k] \in Bytes, NEW b \in Bytes
  PROVE  LET e == [c EXCEPT ![n] = b]
             w == OsWrite(d, Len(d), c, n)
         IN  /\ \A k \in 0..n : e[k] \in Bytes
             /\ OsWrite(d, Len(d), e, n + 1) = F!Put(w, Len(d) + n, b)
<1> DEFINE e == [c EXCEPT ![n] = b]
           p == Len(d)
           w == OsWrite(d, p, c, n)
           u == OsWrite(d, p, e, n + 1)
           v == F!Put(w, p + n, b)
<1>1. p \in Nat /\ n \in Nat /\ n \in 0..BUFMAX /\ n + 1 \in 0..BUFMAX
      /\ BUFMAX \in Nat
  BY WindowAssumption
<1>2. e \in Window /\ e[n] = b /\ \A k \in 0..(n - 1) : e[k] = c[k]
  <2>1. n \in 0..(BUFMAX - 1) /\ \A k \in 0..(n - 1) : k \in 0..(BUFMAX - 1) /\ k # n
    BY <1>1
  <2>2. QED
    BY <2>1 DEF Window, Cell
<1> HIDE DEF e
<1>3. \A k \in 0..n : e[k] \in Bytes
  <2>1. \A k \in 0..n : k = n \/ k \in 0..(n - 1)
    BY <1>1
  <2>2. QED
    BY <1>2, <2>1
<1>4. w \in Seq(Bytes) /\ Len(w) = p + n
      /\ \A k \in 1..(p + n) : w[k] = IF k <= p THEN d[k] ELSE c[k - 1 - p]
  BY <1>1, AppendedBytes
<1>5. u \in Seq(Bytes) /\ Len(u) = p + (n + 1)
      /\ \A k \in 1..(p + (n + 1)) : u[k] = IF k <= p THEN d[k] ELSE e[k - 1 - p]
  <2>1. \A k \in 0..((n + 1) - 1) : e[k] \in Bytes
    BY <1>1, <1>3
  <2>2. QED
    BY <1>1, <1>2, <2>1, AppendedBytes
<1>6. v = [k \in 1..(p + n + 1) |-> IF k = p + n + 1 THEN b
                                    ELSE IF k <= p + n THEN w[k] ELSE ZERO]
  BY <1>1, <1>4 DEF F!Put
<1> HIDE DEF w, u, v
<1>7. u \in [1..(p + n + 1) -> Bytes]
  BY <1>1, <1>5, LenProperties
<1>8. ASSUME NEW k \in 1..(p + n + 1)
      PROVE  u[k] = v[k]
  <2>1. CASE k = p + n + 1
    <3>1. k - 1 - p = n /\ ~ (k <= p)
      BY <1>1, <2>1
    <3>2. QED
      BY <1>1, <1>2, <1>5, <1>6, <2>1, <3>1
  <2>2. CASE k # p + n + 1
    <3>1. k \in 1..(p + n) /\ k \in 1..(p + (n + 1)) /\ k <= p + n
      BY <1>1, <2>2
    <3>2. v[k] = w[k]
      BY <1>6, <2>2, <3>1
    <3>3. ~ (k <= p) => k - 1 - p \in 0..(n - 1)
      BY <1>1, <3>1
    <3>4. QED
      BY <1>2, <1>4, <1>5, <3>1, <3>2, <3>3
  <2>3. QED
    BY <2>1, <2>2
<1>9. u = v
  BY <1>6, <1>7, <1>8
<1>10. QED
  BY <1>3, <1>9 DEF e, w, u, v

\* What the file holds, in terms of an object whose window is at its end.
LEMMA WritingContents ==
  ASSUME Faithful, x.mode = "W"
  PROVE  Contents = OsWrite(x.disk, Len(x.disk), x.buf, x.buflen)
<1>1. Writing /\ x \in Object
  BY DEF Faithful, Exact
<1>2. CASE x.buflen = 0
  BY <1>1, <1>2 DEF Writing, Contents, OsWrite
<1>3. CASE x.buflen # 0
  BY <1>1, <1>3 DEF Writing, Contents
<1>4. QED
  BY <1>2, <1>3

LEMMA FwriteFaithful ==
  ASSUME Faithful, NEW b \in Bytes, fwrite(b)
  PROVE  Faithful' /\ F!Write(b)
<1>1. /\ x \in Object /\ x.mode = "W" /\ x.filpos = x.ospos
      /\ target' = NONE /\ ret'.got = NONE
      /\ x.disk \in Seq(Bytes) /\ Writing /\ Exact'
  BY FwriteExact DEF Faithful, Exact, fwrite, Idle, Quiet
<1>2. /\ x.bufpos \in Nat /\ x.bufofs \in Nat /\ x.buflen \in 0..BUFMAX
      /\ x.buf \in Window /\ BUFMAX \in Nat \ {0} /\ x.bufofs = x.buflen
      /\ Len(x.disk) = x.bufpos
  BY <1>1, WindowAssumption DEF Object, Writing
<1>3. Contents = OsWrite(x.disk, Len(x.disk), x.buf, x.buflen)
  BY <1>1, WritingContents
<1> DEFINE g == [x EXCEPT !.buflen = BUFMAX]
           f == Flushed(g)
           u == [f EXCEPT !.bufpos = @ + BUFMAX, !.bufofs = 0, !.buflen = 0]
           y == IF x.bufofs >= BUFMAX THEN u ELSE x
<1>4. x' = [y EXCEPT !.dirty = TRUE, !.buf[y.bufofs] = b, !.bufofs = @ + 1,
                     !.buflen = Larger(@, y.bufofs + 1)]
  BY DEF fwrite
\* Writing back a full window changes nothing that shows.
<1>5. /\ y \in Object /\ y.mode = "W" /\ y.bufofs = y.buflen
      /\ y.bufofs \in 0..(BUFMAX - 1) /\ y.disk \in Seq(Bytes)
      /\ Len(y.disk) = y.bufpos /\ y.bufpos + y.bufofs = Tell
      /\ y.buf \in Window /\ \A k \in 0..(y.buflen - 1) : y.buf[k] \in Bytes
      /\ Contents = OsWrite(y.disk, Len(y.disk), y.buf, y.buflen)
  <2>1. CASE x.bufofs >= BUFMAX
    <3>1. x.buflen = BUFMAX /\ x.dirty = TRUE
      BY <1>1, <1>2, <2>1 DEF Writing
    <3>2. g = x
      BY <1>1, <3>1 DEF Object
    <3> HIDE DEF g
    <3>3. f = fflush(x)
      BY <3>1, <3>2 DEF Flushed
    <3> HIDE DEF f
    <3>4. /\ f \in Object /\ f.mode = "W" /\ f.bufpos = x.bufpos
          /\ f.disk = OsWrite(x.disk, x.bufpos, x.buf, x.buflen)
      BY <1>1, <3>3, FlushEffect
    <3>5. \A k \in 0..(x.buflen - 1) : x.buf[k] \in Bytes
      BY <1>1 DEF Writing
    <3>6. f.disk \in Seq(Bytes) /\ Len(f.disk) = x.bufpos + BUFMAX
      BY SMTT(30), <1>1, <1>2, <3>1, <3>4, <3>5, AppendedBytes
    <3> DEFINE q == f.bufpos + BUFMAX
    <3>7. q \in Nat /\ q = Tell /\ q = x.bufpos + BUFMAX /\ 0 \in 0..BUFMAX
      BY <1>2, <3>1, <3>4 DEF Tell
    <3>8. u = [f EXCEPT !.bufpos = q, !.bufofs = 0, !.buflen = 0]
      OBVIOUS
    <3> HIDE DEF q, u
    <3>9. /\ u \in Object /\ u.mode = "W" /\ u.bufofs = 0 /\ u.buflen = 0
          /\ u.bufpos = q /\ u.disk = f.disk /\ u.buf = f.buf /\ u.buf \in Window
      BY <3>4, <3>7, <3>8 DEF Object
    <3>10. /\ u.bufpos + u.bufofs = Tell /\ 0 \in 0..(BUFMAX - 1)
           /\ \A k \in 0..(u.buflen - 1) : FALSE
      BY <1>2, <3>7, <3>9
    <3>11. Contents = OsWrite(u.disk, Len(u.disk), u.buf, u.buflen)
      BY <1>2, <1>3, <3>4, <3>9 DEF OsWrite
    <3>12. y = u
      BY <2>1
    <3> HIDE DEF y
    <3>13. QED
      BY <3>6, <3>7, <3>9, <3>10, <3>11, <3>12
  <2>2. CASE ~ (x.bufofs >= BUFMAX)
    <3>1. y = x
      BY <2>2
    <3> HIDE DEF y
    <3>2. x.bufofs \in 0..(BUFMAX - 1)
      BY <1>2, <2>2
    <3>3. \A k \in 0..(x.buflen - 1) : x.buf[k] \in Bytes
      BY <1>1 DEF Writing
    <3>4. QED
      BY <1>1, <1>2, <1>3, <3>1, <3>2, <3>3 DEF Tell
  <2>3. QED
    BY <2>1, <2>2
<1> HIDE DEF y
<1> DEFINE n == y.buflen
           e == [y.buf EXCEPT ![n] = b]
<1>6. n \in 0..(BUFMAX - 1) /\ n = y.bufofs /\ y.bufofs < BUFMAX /\ n \in Nat
  BY <1>2, <1>5
<1>7. /\ x'.mode = "W" /\ x'.disk = y.disk /\ x'.bufpos = y.bufpos
      /\ x'.dirty = TRUE /\ x'.bufofs = n + 1 /\ x'.buflen = n + 1 /\ x'.buf = e
  <2>1. Larger(y.buflen, y.bufofs + 1) = n + 1
    BY <1>6 DEF Larger
  <2>2. /\ x'.mode = y.mode /\ x'.disk = y.disk /\ x'.bufpos = y.bufpos
        /\ x'.dirty = TRUE /\ x'.bufofs = y.bufofs + 1
        /\ x'.buflen = Larger(y.buflen, y.bufofs + 1)
        /\ x'.buf = [y.buf EXCEPT ![y.bufofs] = b]
    BY <1>4, <1>5, <1>6, FwriteStores
  <2>3. QED
    BY <1>5, <1>6, <2>1, <2>2
<1>8. /\ \A k \in 0..n : e[k] \in Bytes
      /\ OsWrite(y.disk, Len(y.disk), e, n + 1) = F!Put(Contents, Len(y.disk) + n, b)
  BY SMTT(30), <1>5, <1>6, OneMoreByte
<1> HIDE DEF n, e
<1>9. Writing'
  <2>1. \A k \in 0..(x'.buflen - 1) : x'.buf[k] \in Bytes
    <3>1. x'.buflen - 1 = n
      BY <1>6, <1>7
    <3>2. QED
      BY <1>7, <1>8, <3>1
  <2>2. x'.buflen # 0
    BY <1>6, <1>7
  <2>3. QED
    BY <1>1, <1>5, <1>7, <2>1, <2>2 DEF Writing
<1>10. Faithful'
  BY <1>1, <1>5, <1>7, <1>9 DEF Faithful, ReadsFile
<1>11. Tell' = Tell + 1
  BY <1>5, <1>6, <1>7, <1>2 DEF Tell, Object
<1>12. Contents' = F!Put(Contents, Tell, b)
  <2>1. Len(y.disk) + n = Tell
    BY <1>5, <1>6
  <2>2. Contents' = OsWrite(y.disk, Len(y.disk), e, n + 1)
    BY <1>5, <1>7 DEF Contents
  <2>3. QED
    BY <1>8, <2>1, <2>2
<1>13. QED
  BY <1>1, <1>7, <1>10, <1>11, <1>12 DEF F!Write

LEMMA FseekFaithful ==
  ASSUME InputSeeks, Faithful, NEW ofs \in Word, NEW whence,
         fseekInWindow(ofs, whence) \/ fseekOutside(ofs, whence)
  PROVE  Faithful' /\ F!Seek
<1> DEFINE to == SeekPos(ofs, whence)
<1>1. /\ x \in Object /\ x.filpos = x.ospos /\ target = NONE /\ ret'.got = NONE
      /\ SeekOK(x.mode, whence, Len(x.disk), to) /\ x.disk \in Seq(Bytes)
  BY DEF Faithful, Exact, fseekInWindow, fseekOutside, Idle, Quiet
<1>2. x.mode = "R" /\ to \in 0..(Len(x.disk) - 1)
  BY <1>1 DEF InputSeeks
<1>3. Reading /\ Exact' /\ Contents = x.disk
  BY <1>2, FseekExact, InputForward DEF Faithful, Reading, Contents
<1>4. /\ x.bufpos \in Nat /\ x.buflen \in 0..BUFMAX /\ BUFMAX \in Nat \ {0}
      /\ Len(x.disk) \in Nat /\ to \in Nat /\ x.bufofs \in Nat
  BY <1>1, <1>2, WindowAssumption DEF Object
<1> HIDE DEF to
<1>5. CASE fseekInWindow(ofs, whence)
  <2> DEFINE o == to - x.bufpos
  <2>1. /\ o >= 0 /\ o < BUFMAX /\ target' = NONE
        /\ x' = [x EXCEPT !.bufofs = o, !.buflen = Larger(x.buflen, o + 1)]
    BY <1>1, <1>5 DEF fseekInWindow, InWindow, to
  \* The byte sought is in the window, which therefore does not grow.
  <2>2. o + 1 <= x.buflen
    BY <1>2, <1>3, <1>4, <2>1 DEF Reading, Loaded, Smaller, Larger
  <2>3. Larger(x.buflen, o + 1) = x.buflen /\ o <= x.buflen /\ x.bufpos + o = to
    BY <1>4, <2>2 DEF Larger
  <2> HIDE DEF o
  <2>4. /\ x'.mode = "R" /\ x'.disk = x.disk /\ x'.dirty = FALSE
        /\ x'.bufpos = x.bufpos /\ x'.buflen = x.buflen /\ x'.buf = x.buf
        /\ x'.bufofs = o
    BY <1>1, <1>2, <1>3, <2>1, <2>3 DEF Object, Reading
  <2>5. Reading'
    BY <1>3, <2>1, <2>3, <2>4 DEF Reading
  <2>6. Faithful'
    BY <1>1, <1>3, <2>4, <2>5 DEF Faithful, ReadsFile
  <2>7. Tell' = to /\ Contents' = x.disk
    BY <2>3, <2>4 DEF Tell, Contents
  <2>8. QED
    BY <1>1, <1>2, <1>3, <1>4, <2>4, <2>6, <2>7 DEF F!Seek
<1>6. CASE fseekOutside(ofs, whence)
  <2>1. x' = x /\ target' = to
    BY <1>3, <1>6 DEF fseekOutside, to, Flushed, Reading
  <2>2. to < Len(x.disk)
    BY <1>2, <1>4
  <2>3. Reading'
    BY <1>1, <1>3, <2>1, <2>2 DEF Reading
  <2>4. Faithful'
    BY <1>1, <1>2, <1>3, <2>1, <2>3 DEF Faithful, ReadsFile
  <2>5. Tell' = Tell /\ Contents' = x.disk /\ Tell \in Nat
    BY <1>3, <1>4, <2>1 DEF Tell, Contents
  <2>6. QED
    BY <1>1, <1>2, <1>3, <2>1, <2>4, <2>5 DEF F!Seek
<1>7. QED
  BY <1>5, <1>6

LEMMA SeekLoopFaithful ==
  ASSUME Faithful, SeekLoop
  PROVE  Faithful' /\ F!Seek
<1>1. target # NONE /\ target \in Nat /\ x \in Object /\ x.disk \in Seq(Bytes)
  BY DEF SeekLoop, Idle, Faithful, Exact
<1>2. x.mode = "R"
  BY <1>1 DEF Faithful, Exact, Writing, Object
<1>3. Reading /\ Exact' /\ Contents = x.disk /\ ret' = ret
  BY <1>2, SeekLoopExact DEF Faithful, Reading, Contents, SeekLoop
<1> DEFINE y == [x EXCEPT !.ospos = target, !.filpos = target,
                          !.bufpos = target, !.bufofs = 0, !.buflen = 0]
<1>4. y \in Object /\ x' = fload(y) /\ target' = NONE
  BY SeekLoopLoads DEF Faithful
<1>5. /\ y.filpos = y.ospos /\ y.bufpos = target /\ y.bufofs = 0
      /\ y.mode = "R" /\ y.disk = x.disk /\ y.dirty = FALSE
  BY <1>1, <1>2, <1>3 DEF Object, Reading
<1> HIDE DEF y
<1>6. /\ x'.mode = "R" /\ x'.disk = x.disk /\ x'.dirty = FALSE
      /\ x'.bufpos = target /\ x'.bufofs = 0
      /\ x'.buflen = Loaded(x.disk, target)
      /\ \A k \in 0..(x'.buflen - 1) : x'.buf[k] = x.disk[target + k + 1]
  BY <1>4, <1>5, LoadEffect
<1>7. Reading'
  <2>1. target < Len(x.disk) /\ Len(x.disk) \in Nat
    BY <1>1, <1>3 DEF Reading
  <2>2. 0 <= Loaded(x.disk, target) /\ target <= Len(x.disk)
    BY <1>1, <2>1, WindowAssumption DEF Loaded, Smaller, Larger
  <2>3. QED
    BY <1>4, <1>6, <2>2 DEF Reading
<1>8. ret'.got = NONE
  BY <1>1, <1>3 DEF Reading
<1>9. Faithful'
  BY <1>1, <1>3, <1>6, <1>7, <1>8 DEF Faithful, ReadsFile
<1>10. Tell' = target /\ Contents' = x.disk
  BY <1>1, <1>6 DEF Tell, Contents
<1>11. QED
  BY <1>1, <1>2, <1>3, <1>6, <1>8, <1>9, <1>10 DEF F!Seek

LEMMA FcloseFaithful ==
  ASSUME Faithful, fclose
  PROVE  Faithful' /\ F!Close
<1>1. /\ x \in Object /\ x.mode # "closed" /\ x.filpos = x.ospos
      /\ ret'.got = NONE /\ target' = NONE /\ Exact'
      /\ x.disk \in Seq(Bytes)
  BY FcloseExact DEF Faithful, Exact, fclose, Idle, Quiet
<1> DEFINE f == Flushed(x)
<1>2. x' = [f EXCEPT !.mode = "closed", !.bufpos = 0, !.bufofs = 0]
  BY DEF fclose
<1>3. f \in Object /\ f.dirty = FALSE /\ f.disk = Contents
  <2>1. CASE x.dirty = TRUE
    <3>1. f = fflush(x)
      BY <2>1 DEF Flushed
    <3>2. Contents = OsWrite(x.disk, x.bufpos, x.buf, x.buflen)
      BY <2>1 DEF Contents
    <3> HIDE DEF f
    <3>3. QED
      BY <1>1, <3>1, <3>2, FlushEffect
  <2>2. CASE x.dirty = FALSE
    BY <1>1, <2>2 DEF Flushed, Contents
  <2>3. QED
    BY <1>1, <2>1, <2>2 DEF Object
<1>4. Contents \in Seq(Bytes)
  <2>1. CASE x.mode = "W"
    <3>1. /\ \A k \in 0..(x.buflen - 1) : x.buf[k] \in Bytes
          /\ x.buf \in Window /\ x.buflen \in 0..BUFMAX
      BY <1>1, <2>1 DEF Faithful, Writing, Object
    <3>2. QED
      BY <1>1, <2>1, <3>1, WritingContents, AppendedBytes
  <2>2. CASE x.mode # "W"
    <3>1. x.dirty = FALSE
      BY <1>1, <2>2 DEF Faithful, Reading, Object
    <3>2. QED
      BY <1>1, <3>1 DEF Contents
  <2>3. QED
    BY <2>1, <2>2
<1> HIDE DEF f
<1>5. x'.mode = "closed" /\ x'.dirty = FALSE /\ x'.disk = Contents
  BY <1>2, <1>3 DEF Object
<1>6. Faithful'
  BY <1>1, <1>4, <1>5 DEF Faithful, ReadsFile
<1>7. Contents' = Contents
  BY <1>5 DEF Contents
<1>8. QED
  BY <1>1, <1>5, <1>6, <1>7 DEF F!Close

LEMMA NextFaithful ==
  ASSUME InputSeeks, Faithful, [Next]_vars
  PROVE  Faithful' /\ [F!Next]_(F!fvars)
<1>1. CASE UNCHANGED vars
  <2>1. Faithful'
    BY <1>1 DEF vars, Faithful, Exact, Reading, Writing, ReadsFile
  <2>2. UNCHANGED F!fvars
    BY <1>1 DEF vars, F!fvars, Contents, Tell
  <2>3. QED
    BY <2>1, <2>2
<1>2. ASSUME NEW m \in {"R", "W"}, fopen(m)
      PROVE  Faithful' /\ F!Next
  BY <1>2, FopenFaithful DEF F!Next
<1>3. CASE fread
  BY <1>3, FreadFaithful DEF F!Next
<1>4. ASSUME NEW b \in Bytes, fwrite(b)
      PROVE  Faithful' /\ F!Next
  BY <1>4, FwriteFaithful DEF F!Next
<1>5. ASSUME NEW ofs \in Word, NEW whence \in {"SEEK_SET", "SEEK_CUR"},
             fseekInWindow(ofs, whence) \/ fseekOutside(ofs, whence)
      PROVE  Faithful' /\ F!Next
  BY <1>5, FseekFaithful DEF F!Next
<1>6. CASE fclose
  BY <1>6, FcloseFaithful DEF F!Next
<1>7. CASE SeekLoop
  BY <1>7, SeekLoopFaithful DEF F!Next
<1>8. QED
  BY <1>1, <1>2, <1>3, <1>4, <1>5, <1>6, <1>7 DEF Next, Call

\* A byte that fread delivers is the byte of the file at the position, for every
\* window size, file and sequence of calls.
THEOREM ReadsTheFile ==
  ASSUME InputSeeks
  PROVE  Spec => []ReadsFile
<1>1. Faithful => ReadsFile
  BY DEF Faithful
<1>2. Faithful /\ [Next]_vars => Faithful'
  BY NextFaithful
<1>3. QED
  BY <1>1, <1>2, InitFaithful, PTL DEF Spec

\* XFILE implements a file: every call is a call of the abstract file on what
\* the disk and the window hold together, and every internal step is a seek to
\* where the program asked or no step at all.
THEOREM ImplementsFile ==
  ASSUME InputSeeks
  PROVE  Spec => IsFile
<1>1. Faithful /\ [Next]_vars => Faithful' /\ [F!Next]_(F!fvars)
  BY NextFaithful
<1>2. QED
  BY <1>1, InitFaithful, PTL DEF Spec, IsFile, F!Spec

=============================================================================
