-------------------------- MODULE EmulatorsProofs --------------------------
(* xemu and pso, instruction by instruction.                               *)
EXTENDS Emulators, SequenceTheorems, WordsProofs

-----------------------------------------------------------------------------
(* Arithmetic modulo a natural number                                      *)

LEMMA Remainder ==
  ASSUME NEW n \in Nat, n > 0, NEW a \in Int
  PROVE  /\ a % n \in 0..(n - 1)
         /\ \E q \in Int : a = n * q + (a % n)
<1> DEFINE q == a \div n
           m == a % n
<1>1. q \in Int /\ m \in 0..(n - 1) /\ a = n * q + m
  OBVIOUS
<1> HIDE DEF q, m
<1>2. PICK c \in Int : c = q
  BY <1>1
<1>3. a = n * c + m
  BY <1>1, <1>2
<1> USE DEF m
<1>4. QED
  BY ONLY <1>1, <1>3, c \in Int

LEMMA RemainderUnique ==
  ASSUME NEW n \in Nat, n > 0, NEW q \in Int, NEW m \in 0..(n - 1)
  PROVE  (n * q + m) % n = m /\ (n * q + m) \div n = q
<1>1. PICK a \in Int : a = n * q + m
  OBVIOUS
<1> DEFINE q1 == a \div n
           m1 == a % n
<1>2. q1 \in Int /\ m1 \in 0..(n - 1) /\ a = n * q1 + m1
  OBVIOUS
<1> HIDE DEF q1, m1
<1>3. PICK q2 \in Int, m2 \in 0..(n - 1) : q2 = q1 /\ m2 = m1 /\ a = n * q2 + m2
  BY <1>2
<1>4. n * (q - q2) = m2 - m
  BY <1>1, <1>3
<1>5. q - q2 \in Int /\ m2 - m < n /\ m2 - m > -n
  OBVIOUS
<1>6. ~ (q - q2 >= 1)
  <2> SUFFICES ASSUME q - q2 >= 1 PROVE FALSE
    OBVIOUS
  <2>1. n * (q - q2) >= n
    BY <1>5
  <2>2. QED
    BY <1>4, <1>5, <2>1
<1>7. ~ (q - q2 <= -1)
  <2> SUFFICES ASSUME q - q2 <= -1 PROVE FALSE
    OBVIOUS
  <2>1. n * (q - q2) <= -n
    BY <1>5
  <2>2. QED
    BY <1>4, <1>5, <2>1
<1>8. q = q2
  BY <1>5, <1>6, <1>7
<1>9. m = m2
  BY <1>4, <1>8
<1>10. QED
  BY <1>1, <1>3, <1>8, <1>9 DEF q1, m1

\* Congruent numbers, and what calculations keep of it.
LEMMA Congruent ==
  ASSUME NEW n \in Nat, n > 0, NEW a \in Int, NEW q \in Int
  PROVE  (a + n * q) % n = a % n
<1>1. PICK c \in Int : a = n * c + (a % n)
  BY Remainder
<1>2. PICK m \in 0..(n - 1) : m = a % n
  BY Remainder
<1>3. a = n * c + m
  BY <1>1, <1>2
<1>4. a + n * q = n * (c + q) + m /\ c + q \in Int
  BY <1>3
<1>5. (n * (c + q) + m) % n = m
  BY <1>4, RemainderUnique
<1>6. QED
  BY <1>2, <1>4, <1>5

LEMMA Apart ==
  ASSUME NEW n \in Nat, n > 0, NEW a \in Int, NEW b \in Int, a % n = b % n
  PROVE  \E q \in Int : a = b + n * q
<1>1. PICK c \in Int : a = n * c + (a % n)
  BY Remainder
<1>2. PICK d \in Int : b = n * d + (b % n)
  BY Remainder
<1>3. PICK m \in 0..(n - 1) : m = a % n
  BY Remainder
<1>4. a = n * c + m /\ b = n * d + m
  BY <1>1, <1>2, <1>3
<1>5. a = b + n * (c - d) /\ c - d \in Int
  BY <1>4
<1>6. QED
  BY <1>5

LEMMA RemainderTwice ==
  ASSUME NEW n \in Nat, n > 0, NEW a \in Int
  PROVE  /\ (a % n) % n = a % n
         /\ \A m \in 0..(n - 1) : m % n = m
<1>1. ASSUME NEW m \in 0..(n - 1) PROVE m % n = m
  <2>1. (n * 0 + m) % n = m
    BY RemainderUnique
  <2>2. n * 0 + m = m
    OBVIOUS
  <2>3. QED
    BY <2>1, <2>2
<1>2. a % n \in 0..(n - 1)
  BY Remainder
<1>3. QED
  BY <1>1, <1>2

\* A divisor of n sees no difference.
LEMMA Divisor ==
  ASSUME NEW n \in Nat, n > 0, NEW d \in Nat, d > 0, n % d = 0, NEW a \in Int
  PROVE  /\ (a % n) % d = a % d
         /\ \A b \in Int : a % n = b % n => a % d = b % d
<1>1. PICK k \in Int : n = d * k + (n % d)
  BY n \in Int, Remainder
<1>2. n = d * k
  BY <1>1
<1>3. ASSUME NEW b \in Int, a % n = b % n PROVE a % d = b % d
  <2>1. PICK q \in Int : a = b + n * q
    BY <1>3, Apart
  <2>2. a = b + d * (k * q) /\ k * q \in Int
    BY <1>2, <2>1
  <2>3. QED
    BY <2>2, Congruent
<1>4. a % n \in Int /\ (a % n) % n = a % n
  BY Remainder, RemainderTwice
<1>5. QED
  BY <1>3, <1>4

-----------------------------------------------------------------------------
(* Words                                                                   *)

LEMMA Sizes ==
  /\ BYTE \in Nat /\ BYTE >= 4 /\ WORD \in Nat /\ WORD > 3 /\ HALF \in Nat
  /\ WORD = BYTE * BYTE /\ WORD = 2 * HALF /\ HALF > 3
  /\ WORD % BYTE = 0 /\ BYTE % NREG = 0
  /\ Word = 0..(WORD - 1) /\ NREG \in Nat /\ NREG > 1 /\ SP \in Nat /\ SP = NREG - 1
  /\ SP \in Regs /\ 1 \in Regs /\ SP > 0
  /\ INT \in Nat /\ INT > 0 /\ INT % WORD = 0
<1>1. BYTE \in Nat /\ BYTE >= 4 /\ BYTE > 0 /\ BYTE % NREG = 0 /\ INT \in Nat /\ INT > 0 /\ INT % WORD = 0
  BY ByteAssumption, HostAssumption
<1>2. WORD = BYTE * BYTE
  BY DEF WORD
<1>3. BYTE * BYTE >= 16 /\ BYTE * BYTE \in Nat
  BY <1>1
<1>4. (BYTE * BYTE + 0) % BYTE = 0
  BY <1>1, RemainderUnique
<1>5. WORD % BYTE = 0
  BY <1>1, <1>2, <1>4
<1>6. HALF \in Nat /\ WORD = 2 * HALF
  BY Halves
<1>7. HALF > 3
  BY <1>2, <1>3, <1>6
<1>8. NREG \in Nat /\ NREG > 1
  BY MachineAssumption
<1>9. QED
  BY <1>1, <1>2, <1>3, <1>5, <1>6, <1>7, <1>8 DEF Word, SP, Regs

LEMMA WordMod ==
  ASSUME NEW v \in Int
  PROVE  v % WORD \in Word /\ (v % WORD) % WORD = v % WORD
<1>1. WORD \in Nat /\ WORD > 0
  BY Sizes
<1>2. v % WORD \in 0..(WORD - 1) /\ (v % WORD) % WORD = v % WORD
  BY <1>1, Remainder, RemainderTwice
<1>3. QED
  BY <1>2, Sizes

LEMMA WordApart ==
  ASSUME NEW a \in Int, NEW b \in Int
  PROVE  a % WORD = b % WORD <=> \E q \in Int : a = b + WORD * q
<1>1. PICK n \in Nat : n = WORD /\ n > 0
  BY Sizes
<1>2. a % n = b % n => \E q \in Int : a = b + n * q
  BY <1>1, Apart
<1>3. ASSUME NEW q \in Int, a = b + n * q PROVE a % n = b % n
  BY <1>1, <1>3, Congruent
<1>4. QED
  BY <1>1, <1>2, <1>3

\* Calculations on congruent numbers give congruent numbers.
LEMMA SameSum ==
  \A a, b, c, d \in Int :
    a % WORD = c % WORD /\ b % WORD = d % WORD => (a + b) % WORD = (c + d) % WORD
<1> TAKE a, b, c, d \in Int
<1> HAVE a % WORD = c % WORD /\ b % WORD = d % WORD
<1>1. PICK n \in Nat : n = WORD
  BY Sizes
<1>2. PICK q \in Int : a = c + n * q
  BY <1>1, WordApart
<1>3. PICK s \in Int : b = d + n * s
  BY <1>1, WordApart, ZenonT(40)
<1>4. a + b = (c + d) + n * (q + s) /\ q + s \in Int
  BY <1>2, <1>3
<1>5. PICK e \in Int, f \in Int, t \in Int : e = a + b /\ f = c + d /\ e = f + n * t
  BY <1>4
<1>6. e % WORD = f % WORD
  BY <1>1, <1>5, WordApart, ZenonT(40)
<1>7. QED
  BY <1>5, <1>6

LEMMA SameNegation ==
  \A a, c \in Int : a % WORD = c % WORD => (-a) % WORD = (-c) % WORD
<1> TAKE a, c \in Int
<1> HAVE a % WORD = c % WORD
<1>1. PICK n \in Nat : n = WORD
  BY Sizes
<1>2. PICK q \in Int : a = c + n * q
  BY <1>1, WordApart
<1>3. PICK t \in Int, e \in Int, f \in Int : t = -q /\ e = -a /\ f = -c
  OBVIOUS
<1>4. e = f + n * t
  BY <1>2, <1>3
<1>5. e % WORD = f % WORD
  BY <1>1, <1>4, WordApart
<1>6. QED
  BY <1>3, <1>5

LEMMA SameDifference ==
  \A a, b, c, d \in Int :
    a % WORD = c % WORD /\ b % WORD = d % WORD => (a - b) % WORD = (c - d) % WORD
<1> TAKE a, b, c, d \in Int
<1> HAVE a % WORD = c % WORD /\ b % WORD = d % WORD
<1>1. PICK e \in Int, f \in Int : e = -b /\ f = -d
  OBVIOUS
<1>2. e % WORD = f % WORD
  BY <1>1, SameNegation
<1>3. (a + e) % WORD = (c + f) % WORD
  BY <1>2, SameSum
<1>4. a + e = a - b /\ c + f = c - d
  BY <1>1
<1>5. QED
  BY <1>3, <1>4

LEMMA SameProduct ==
  \A a, b, c, d \in Int :
    a % WORD = c % WORD /\ b % WORD = d % WORD => (a * b) % WORD = (c * d) % WORD
<1> TAKE a, b, c, d \in Int
<1> HAVE a % WORD = c % WORD /\ b % WORD = d % WORD
<1>1. PICK n \in Nat : n = WORD
  BY Sizes
<1>2. PICK q \in Int : a = c + n * q
  BY <1>1, WordApart
<1>3. PICK s \in Int : b = d + n * s
  BY <1>1, WordApart, ZenonT(40)
<1>4. PICK t \in Int : t = c * s + d * q + n * q * s
  OBVIOUS
<1>5. a * b = c * d + n * t
  BY <1>2, <1>3, <1>4
<1>6. PICK e \in Int, f \in Int : e = a * b /\ f = c * d /\ e = f + n * t
  BY <1>5
<1>7. e % WORD = f % WORD
  BY <1>1, <1>6, WordApart
<1>8. QED
  BY <1>6, <1>7

LEMMA WordInt ==
  ASSUME NEW w \in Word
  PROVE  w \in Nat /\ w \in Int /\ w < WORD /\ w % WORD = w
<1>1. WORD \in Nat /\ WORD > 0 /\ w \in 0..(WORD - 1)
  BY Sizes
<1>2. w % WORD = w
  BY <1>1, 0 \in Int, RemainderTwice
<1>3. QED
  BY <1>1, <1>2

\* The host's ints keep the word.
LEMMA HostInts ==
  ASSUME NEW v \in Int
  PROVE  HostInt(v) \in Int /\ HostInt(v) % WORD = v % WORD
<1>1. PICK h \in Int : h = INT \div 2
  BY Sizes
<1>2. PICK n \in Nat : n = INT /\ n > 0 /\ n % WORD = 0
  BY Sizes
<1>3. PICK a \in Int : a = v + h
  OBVIOUS
<1>4. PICK r \in Int : r = a % n
  BY <1>2
<1>5. r % WORD = a % WORD
  <2>1. WORD \in Nat /\ WORD > 0
    BY Sizes
  <2>2. (a % n) % WORD = a % WORD
    BY <1>2, <2>1, Divisor
  <2>3. QED
    BY <1>4, <2>2
<1>6. (r - h) % WORD = (a - h) % WORD
  BY <1>5, SameDifference
<1>7. a - h = v
  BY <1>3
<1>8. HostInt(v) = r - h
  BY <1>1, <1>2, <1>3, <1>4 DEF HostInt
<1>9. QED
  BY <1>6, <1>7, <1>8

\* The two bytes of a word are those of an int congruent to it.
LEMMA Bytes ==
  ASSUME NEW v \in Int
  PROVE  /\ (v \div BYTE) \in Int
         /\ (v \div BYTE) % BYTE = Hi(v % WORD)
         /\ v % BYTE = Lo(v % WORD)
         /\ Hi(v % WORD) \in 0..(BYTE - 1) /\ Lo(v % WORD) \in 0..(BYTE - 1)
<1>1. PICK b \in Nat : b = BYTE /\ b > 0
  BY Sizes
<1>2. PICK w \in Word : w = v % WORD
  BY WordMod
<1>3. w \in Int /\ w >= 0 /\ w < b * b
  BY <1>1, Sizes
<1>4. v % BYTE = w % BYTE
  <2>1. WORD \in Nat /\ WORD > 0 /\ BYTE \in Nat /\ BYTE > 0 /\ WORD % BYTE = 0
    BY Sizes
  <2>2. (v % WORD) % BYTE = v % BYTE
    BY <2>1, Divisor
  <2>3. QED
    BY <1>2, <2>2
<1>5. PICK q \in Int : v = w + WORD * q
  <2>1. v % WORD = w % WORD
    BY <1>2, WordMod
  <2>2. WORD \in Nat /\ WORD > 0
    BY Sizes
  <2>3. QED
    BY <1>3, <2>1, <2>2, Apart
<1>6. PICK h \in Int, l \in 0..(b - 1) : w = b * h + l /\ l = w % b
  BY <1>1, <1>3, Remainder
<1>7. h >= 0
  <2>1. SUFFICES ASSUME h <= -1 PROVE FALSE
    OBVIOUS
  <2>2. b * h <= -b
    BY <1>1, <2>1
  <2>3. QED
    BY <1>3, <1>6, <2>2
<1>8. h < b
  <2>1. SUFFICES ASSUME h >= b PROVE FALSE
    OBVIOUS
  <2>2. b * h >= b * b
    BY <1>1, <2>1
  <2>3. QED
    BY <1>3, <1>6, <2>2
<1>9. (b * h + l) \div b = h
  BY <1>1, RemainderUnique
<1>10. Hi(w) = h
  BY <1>1, <1>6, <1>9 DEF Hi
<1>11. v = b * (h + b * q) + l /\ h + b * q \in Int
  BY <1>1, <1>5, <1>6, Sizes
<1>12. (b * (h + b * q) + l) \div b = h + b * q
  BY <1>1, <1>11, RemainderUnique
<1>13. v \div BYTE = h + b * q
  BY <1>1, <1>11, <1>12
<1>14. (h + b * q) % b = h % b
  BY <1>1, Congruent
<1>15. h % b = h
  BY <1>1, <1>7, <1>8, RemainderTwice
<1>16. Lo(w) = l
  BY <1>1, <1>6 DEF Lo
<1>17. QED
  BY <1>1, <1>2, <1>4, <1>7, <1>8, <1>10, <1>11, <1>13, <1>14, <1>15, <1>16 DEF Lo

-----------------------------------------------------------------------------
(* The machines.  Both emulators use the same words: a name of Isa means   *)
(* the same in either of them.                                             *)

LEMMA PNames ==
  /\ P!WORD = WORD /\ P!HALF = HALF /\ P!SP = SP /\ P!Regs = Regs /\ P!BPW = 2
  /\ \A v : P!HostInt(v) = HostInt(v)
  /\ \A v : P!SignBit(v) = SignBit(v)
  /\ \A v : P!Char(v) = Char(v)
  /\ \A op, r : P!Defined(op, r) = Defined(op, r)
  /\ \A w, k : P!Bit(w, k) = Bit(w, k)
  BY DEF P!WORD, WORD, P!HALF, HALF, P!SP, SP, P!Regs, Regs, P!BPW, P!HostInt, HostInt, P!INT, INT,
         P!SignBit, SignBit, P!Char, Char, P!Defined, Defined, P!Bit, Bit

LEMMA XNames ==
  /\ X!WORD = WORD /\ X!SP = SP /\ X!Regs = Regs /\ X!BPW = 2
  /\ \A v : X!SignBit(v) = SignBit(v)
  /\ \A v : X!Signed(v) = Signed(v)
  /\ \A v : X!Char(v) = Char(v)
  /\ \A v : X!Hi(v) = Hi(v)
  /\ \A v : X!Lo(v) = Lo(v)
  /\ \A a, b : X!Add(a, b) = (a + b) % WORD
  /\ \A a, b : X!Sub(a, b) = (a - b) % WORD
  /\ \A op, r : X!Defined(op, r) = Defined(op, r)
  /\ \A w, k : X!Bit(w, k) = Bit(w, k)
  BY DEF X!WORD, WORD, X!HALF, HALF, X!SP, SP, X!Regs, Regs, X!BPW, X!Signed, Signed, X!Hi, Hi, X!Lo, Lo,
         X!Add, X!Sub,
         X!SignBit, SignBit, X!Char, Char, X!Defined, Defined, X!Bit, Bit

LEMMA ExactNames ==
  \A op, l, r : P!Exact(op, l, r) = Exact(op, l, r) /\ X!Exact(op, l, r) = Exact(op, l, r)
  BY DEF P!Exact, P!Quotient, P!Abs, P!HostInt, P!INT, X!Exact, X!Quotient, X!Abs, X!HostInt, X!INT,
         Exact, Quotient, Abs, HostInt, INT

Status == {"running", "stopped", "undefined"}

XMachine == [regs : [Regs -> Word], pc : Word, cc : 0..2, image : Memory, status : Status,
             code : Int]
PMachine == [regs : [Regs -> Int], pc : Int, cc : 0..2, last : Int, image : Memory,
             status : Status, code : Int]

-----------------------------------------------------------------------------
(* Memory                                                                  *)

LEMMA Cells ==
  ASSUME NEW im \in Memory, NEW v \in Int
  PROVE  /\ v % WORD \in Word
         /\ im[v % WORD] \in Tags \X (0..(BYTE - 1))
         /\ im[v % WORD][2] \in 0..(BYTE - 1)
<1>1. v % WORD \in Word
  BY WordMod
<1>2. im[v % WORD] \in Tags \X (0..(BYTE - 1))
  BY <1>1 DEF Memory
<1>3. QED
  BY <1>1, <1>2

LEMMA Near ==
  ASSUME NEW v \in Int, NEW w \in Int, v % WORD = w % WORD, NEW k \in Int
  PROVE  (v + k) % WORD = (w + k) % WORD /\ (v - k) % WORD = (w - k) % WORD
<1>1. (v + k) % WORD = (w + k) % WORD
  BY SameSum, ZenonT(40)
<1>2. (v - k) % WORD = (w - k) % WORD
  BY SameDifference
<1>3. QED
  BY <1>1, <1>2

\* A byte with and without its sign selects the same register, and makes the
\* high half of the same word.
LEMMA Chars ==
  ASSUME NEW c \in 0..(BYTE - 1), NEW d \in 0..(BYTE - 1)
  PROVE  /\ Char(c) \in Int
         /\ Char(c) % NREG = c % NREG /\ c % NREG \in Regs
         /\ Char(c) * BYTE + d \in Int
         /\ (Char(c) * BYTE + d) % WORD = c * BYTE + d
         /\ c * BYTE + d \in Word
<1>1. PICK b \in Nat : b = BYTE /\ b > 0
  BY Sizes
<1>2. PICK n \in Nat : n = NREG /\ n > 0 /\ b % n = 0
  BY <1>1, Sizes
<1>3. PICK q \in Int : b = n * q
  <2>1. PICK q \in Int : b = n * q + (b % n)
    BY <1>2, b \in Int, Remainder
  <2>2. QED
    BY <1>2, <2>1
<1>4. PICK s \in Int : s \in {0, -1} /\ Char(c) = c + b * s
  <2>1. Char(c) = c \/ Char(c) = c - b
    BY <1>1 DEF Char
  <2>2. c = c + b * 0 /\ c - b = c + b * (-1)
    BY <1>1
  <2>3. QED
    BY <2>1, <2>2
<1>5. PICK t \in Int : t = q * s /\ Char(c) = c + n * t
  BY <1>3, <1>4
<1>6. (c + n * t) % n = c % n
  <2>1. c \in Int /\ n > 0
    BY <1>1, <1>2
  <2>2. QED
    BY ONLY n \in Nat, t \in Int, <2>1, Congruent
<1>7. c % n \in 0..(n - 1)
  BY <1>1, <1>2, Remainder
<1>8. Char(c) * b + d = (c * b + d) + WORD * s
  BY <1>1, <1>4, Sizes
<1>9. c * b + d \in 0..(b * b - 1)
  <2>1. c \in Int /\ c >= 0 /\ c <= b - 1 /\ d \in Int /\ d >= 0 /\ d <= b - 1
    BY <1>1
  <2>2. c * b <= (b - 1) * b
    BY <2>1
  <2>3. c * b >= 0
    BY <2>1
  <2>4. (b - 1) * b = b * b - b
    OBVIOUS
  <2>5. QED
    BY <2>1, <2>2, <2>3, <2>4
<1>10. PICK w \in Word, e \in Int : w = c * b + d /\ e = Char(c) * b + d
  BY <1>1, <1>4, <1>9, Sizes
<1>11. e % WORD = w % WORD
  <2>1. e = w + WORD * s
    BY <1>8, <1>10
  <2>2. QED
    BY <2>1, WordApart, WordInt
<1>12. e % WORD = w
  BY <1>11, WordInt
<1>13. Char(c) \in Int
  BY <1>1, <1>4
<1>14. Char(c) % NREG = c % NREG /\ c % NREG \in Regs
  BY <1>2, <1>5, <1>6, <1>7 DEF Regs
<1>15. QED
  BY <1>1, <1>10, <1>12, <1>13, <1>14

\* What the two machines have in common.
Sim(a, b) ==
  /\ a \in XMachine /\ b \in PMachine
  /\ b.image = a.image
  /\ \A r \in Regs : b.regs[r] % WORD = a.regs[r]

LEMMA XFields ==
  ASSUME NEW a \in XMachine
  PROVE  /\ a.regs \in [Regs -> Word] /\ a.pc \in Word /\ a.cc \in 0..2 /\ a.image \in Memory
         /\ a.status \in Status /\ a.code \in Int
  BY DEF XMachine

LEMMA PFields ==
  ASSUME NEW b \in PMachine
  PROVE  /\ b.regs \in [Regs -> Int] /\ b.pc \in Int /\ b.cc \in 0..2 /\ b.image \in Memory
         /\ b.status \in Status /\ b.code \in Int /\ b.last \in Int
  BY DEF PMachine

\* A byte and a word of pso's memory.
LEMMA Reads ==
  ASSUME NEW b \in PMachine, NEW v \in Int
  PROVE  /\ P!Cell(b, v) = b.image[v % WORD]
         /\ P!ReadByte(b, v) = Char(b.image[v % WORD][2])
         /\ P!ReadByte(b, v) \in Int
         /\ P!ReadWord(b, v) \in Int
         /\ P!ReadWord(b, v) % WORD = b.image[v % WORD][2] * BYTE + b.image[(v + 1) % WORD][2]
         /\ P!ReadWord(b, v) % WORD \in Word
<1>1. P!Cell(b, v) = b.image[v % WORD] /\ P!Cell(b, v + 1) = b.image[(v + 1) % WORD]
  BY PNames DEF P!Cell
<1>2. P!ReadByte(b, v) = Char(b.image[v % WORD][2])
  BY <1>1, PNames DEF P!ReadByte, P!Val
<1>3. PICK c \in 0..(BYTE - 1) : c = b.image[v % WORD][2]
  BY PFields, Cells
<1>4. PICK d \in 0..(BYTE - 1) : d = b.image[(v + 1) % WORD][2]
  BY PFields, Cells, v + 1 \in Int
<1>5. P!ReadWord(b, v) = Char(c) * BYTE + d
  BY <1>1, <1>2, <1>3, <1>4 DEF P!ReadWord, P!Val
<1>6. Char(c) \in Int /\ Char(c) * BYTE + d \in Int /\ (Char(c) * BYTE + d) % WORD = c * BYTE + d
      /\ c * BYTE + d \in Word
  BY Chars
<1>7. QED
  BY <1>1, <1>2, <1>3, <1>4, <1>5, <1>6

\* The byte k places after the operation code, and the same in pso.
LEMMA Fetches ==
  ASSUME NEW a, NEW b, Sim(a, b), b.pc % WORD = a.pc, NEW k \in Nat
  PROVE  /\ X!At(a, k) = b.image[(b.pc + k) % WORD][2]
         /\ X!reg(a, k) = P!get_reg(b, k) /\ P!get_reg(b, k) \in Regs
         /\ P!get_word(b, k) \in Int /\ P!get_word(b, k) % WORD = X!imm(a, k)
         /\ X!imm(a, k) \in Word
         /\ P!get_word(b, k) = P!ReadWord(b, b.pc + k)
<1>1. /\ a \in XMachine /\ b \in PMachine /\ b.image = a.image
      /\ a.pc \in Word /\ b.pc \in Int /\ a.image \in Memory
  BY XFields, PFields DEF Sim
<1>2. a.pc \in Int /\ a.pc % WORD = b.pc % WORD
  BY <1>1, WordInt
<1>3. ASSUME NEW j \in Nat PROVE X!At(a, j) = b.image[(b.pc + j) % WORD][2]
  <2>1. (b.pc + j) % WORD = (a.pc + j) % WORD
    BY <1>1, <1>2, Near
  <2>2. QED
    BY <1>1, <2>1, XNames DEF X!At, X!Val
<1>4. X!At(a, k) = b.image[(b.pc + k) % WORD][2]
  BY <1>3
<1>5. X!At(a, k + 1) = b.image[((b.pc + k) + 1) % WORD][2]
  <2>1. (b.pc + k) + 1 = b.pc + (k + 1) /\ k + 1 \in Nat
    BY <1>1
  <2>2. X!At(a, k + 1) = b.image[(b.pc + (k + 1)) % WORD][2]
    BY <1>3, <2>1
  <2>3. QED
    BY <2>1, <2>2
<1>6. PICK v \in Int : v = b.pc + k
  BY <1>1
<1>7. /\ P!ReadByte(b, v) = Char(b.image[v % WORD][2])
      /\ P!ReadWord(b, v) \in Int
      /\ P!ReadWord(b, v) % WORD = b.image[v % WORD][2] * BYTE + b.image[(v + 1) % WORD][2]
      /\ P!ReadWord(b, v) % WORD \in Word
  BY <1>1, Reads
<1>8. X!imm(a, k) = P!ReadWord(b, v) % WORD
  BY <1>4, <1>5, <1>6, <1>7 DEF X!imm
<1>9. P!get_word(b, k) = P!ReadWord(b, v)
  BY <1>6 DEF P!get_word
<1>10. PICK c \in 0..(BYTE - 1) : c = b.image[v % WORD][2]
  BY <1>1, Cells
<1>11. Char(c) % NREG = c % NREG /\ c % NREG \in Regs
  BY Chars
<1>12. P!get_reg(b, k) = c % NREG /\ X!reg(a, k) = c % NREG
  BY <1>4, <1>6, <1>7, <1>10, <1>11 DEF P!get_reg, X!reg
<1>13. QED
  BY <1>4, <1>6, <1>7, <1>8, <1>9, <1>11, <1>12

LEMMA Effective ==
  ASSUME NEW a, NEW b, Sim(a, b), b.pc % WORD = a.pc, NEW k \in Nat
  PROVE  /\ P!get_ea(b, k) \in Int /\ P!get_ea(b, k) % WORD = X!ea(a, k)
         /\ X!ea(a, k) \in Word
<1>1. PICK w \in Int : w = P!get_word(b, k)
  BY Fetches
<1>2. PICK i \in Word : i = X!imm(a, k) /\ w % WORD = i
  BY <1>1, Fetches
<1>3. k + 2 \in Nat
  OBVIOUS
<1>4. PICK r \in Regs : r = P!get_reg(b, k + 2) /\ X!reg(a, k + 2) = r
  BY <1>3, Fetches
<1>5. PICK u \in Int : u = b.regs[r]
  BY PFields DEF Sim
<1>6. PICK s \in Word : s = a.regs[r]
  BY XFields DEF Sim
<1>7. u % WORD = s
  BY <1>5, <1>6 DEF Sim
<1>8. w % WORD = i % WORD /\ u % WORD = s % WORD /\ i \in Int /\ s \in Int
  BY <1>2, <1>7, WordInt
<1>9. (w + u) % WORD = (i + s) % WORD
  BY <1>8, SameSum
<1>10. X!ea(a, k) = (i + s) % WORD
  BY <1>2, <1>4, <1>6, XNames DEF X!ea
<1>11. P!get_ea(b, k) = HostInt(w + u)
  BY <1>1, <1>4, <1>5, PNames DEF P!get_ea
<1>12. w + u \in Int
  OBVIOUS
<1>13. HostInt(w + u) \in Int /\ HostInt(w + u) % WORD = (w + u) % WORD /\ (w + u) % WORD \in Word
  BY <1>12, HostInts, WordMod
<1>14. QED
  BY <1>9, <1>10, <1>11, <1>13

\* The condition codes, of an int and of its word.
LEMMA Codes ==
  ASSUME NEW v \in Int
  PROVE  /\ P!calc_cc(v) \in 0..2 /\ X!ConditionCode(v % WORD) \in 0..2
         /\ Inexact(v) \/ X!ConditionCode(v % WORD) = P!calc_cc(v)
<1>1. P!calc_cc(v) = IF v = 0 THEN 0 ELSE IF SignBit(v % WORD) THEN 1 ELSE 2
  BY PNames DEF P!calc_cc
<1>2. X!ConditionCode(v % WORD) = IF v % WORD = 0 THEN 0 ELSE IF SignBit(v % WORD) THEN 1 ELSE 2
  BY XNames DEF X!ConditionCode
<1>3. 0 \in Word
  BY Sizes
<1>4. v = 0 => v % WORD = 0
  BY <1>3, WordInt
<1>5. QED
  BY <1>1, <1>2, <1>4 DEF Inexact

-----------------------------------------------------------------------------
(* Calculations                                                            *)

\* OR, AND and XOR work bit by bit: the low word of a result depends on the
\* low words of the operands alone.
BitsByBit ==
  \A f \in {"OR", "AND", "XOR"} : \A a, b \in 0..(INT - 1) :
    /\ Bits(f, a, b) \in Nat
    /\ Bits(f, a, b) % WORD = Bits(f, a % WORD, b % WORD) % WORD

LEMMA SignedWord ==
  ASSUME NEW w \in Word
  PROVE  Signed(w) \in Int /\ Signed(w) % WORD = w
<1>1. w \in Int /\ w % WORD = w /\ WORD \in Int
  BY WordInt, Sizes
<1>2. CASE SignBit(w)
  <2>1. PICK v \in Int : v = w - WORD
    BY <1>1
  <2>2. PICK q \in Int : q = -1 /\ v = w + WORD * q
    BY <1>1, <2>1
  <2>3. v % WORD = w % WORD
    BY <1>1, <2>2, WordApart
  <2>4. QED
    BY <1>1, <1>2, <2>1, <2>3 DEF Signed
<1>3. CASE ~ SignBit(w)
  BY <1>1, <1>3 DEF Signed
<1>4. QED
  BY <1>2, <1>3

\* An int that is not wide is what its word means.
LEMMA NotWide ==
  ASSUME NEW v \in Int, ~ Wide(v)
  PROVE  Signed(v % WORD) = v
<1>1. v >= -HALF /\ v < HALF /\ HALF \in Nat /\ WORD \in Nat /\ WORD = 2 * HALF /\ WORD > 0
  BY Sizes DEF Wide
<1>2. -WORD < v /\ v < WORD
  BY <1>1
<1>3. v % WORD = IF v >= 0 THEN v ELSE v + WORD
  BY <1>1, <1>2, Wrapped
<1>4. QED
  BY <1>1, <1>3 DEF Signed, SignBit

LEMMA BitOperands ==
  ASSUME BitsByBit, NEW f \in {"OR", "AND", "XOR"}, NEW l \in Int, NEW r \in Int
  PROVE  /\ Exact(f, l, r) \in Int
         /\ Exact(f, l, r) % WORD = Bits(f, l % WORD, r % WORD) % WORD
<1>1. INT \in Nat /\ INT > 0 /\ INT % WORD = 0 /\ WORD \in Nat /\ WORD > 0
  BY Sizes
<1>2. PICK i \in Nat : i = INT /\ i > 0 /\ i % WORD = 0
  BY <1>1
<1>3. PICK c \in 0..(i - 1) : c = l % i
  BY <1>2, Remainder
<1>4. PICK d \in 0..(i - 1) : d = r % i
  BY <1>2, Remainder
<1>5. c % WORD = l % WORD
  <2>1. (l % i) % WORD = l % WORD
    BY <1>1, <1>2, Divisor
  <2>2. QED
    BY <1>3, <2>1
<1>6. d % WORD = r % WORD
  <2>1. (r % i) % WORD = r % WORD
    BY <1>1, <1>2, Divisor
  <2>2. QED
    BY <1>4, <2>1
<1>7. PICK v \in Nat : v = Bits(f, c, d) /\ v % WORD = Bits(f, c % WORD, d % WORD) % WORD
  BY <1>2 DEF BitsByBit
<1>8. Exact(f, l, r) = HostInt(v)
  BY <1>2, <1>3, <1>4, <1>7 DEF Exact
<1>9. HostInt(v) \in Int /\ HostInt(v) % WORD = v % WORD
  BY v \in Int, HostInts
<1>10. QED
  BY <1>5, <1>6, <1>7, <1>8, <1>9

Ops == Binary \cup Unary

LEMMA ExactInt ==
  ASSUME BitsByBit, NEW op \in Ops, NEW l \in Int, NEW r \in Int, Defined(op, r)
  PROVE  Exact(op, l, r) \in Int
<1>1. CASE op \in {"OR", "AND", "XOR"}
  BY <1>1, BitOperands
<1>2. CASE op \in {"DIV", "MOD"}
  <2>1. r # 0
    BY <1>2 DEF Defined
  <2>2. PICK i \in Nat, j \in Nat : i = Abs(l) /\ j = Abs(r) /\ j > 0
    BY <2>1 DEF Abs
  <2>3. i \div j \in Int
    BY <2>2
  <2>4. PICK q \in Int : q = Quotient(l, r)
    BY <2>2, <2>3 DEF Quotient
  <2>5. QED
    BY <1>2, <2>4 DEF Exact
<1>3. CASE op \in {"ASL", "ASR"}
  <2>1. r \in 0..(INTBITS - 1)
    BY <1>3 DEF Defined
  <2>2. PICK t \in Nat : t = 2^r /\ t > 0
    BY <2>1, HostAssumption
  <2>3. l * t \in Int /\ l \div t \in Int
    BY <2>2
  <2>4. QED
    BY <1>3, <2>2, <2>3 DEF Exact
<1>4. CASE op \in {"LDR", "SUB", "CMP", "ADD", "MUL", "NOT", "NEG"}
  BY <1>4 DEF Exact
<1>5. QED
  BY <1>1, <1>2, <1>3, <1>4 DEF Ops, Binary, Calcs, Unary

\* The result of a calculation on pso's ints has the word that xemu computes
\* from words.
LEMMA Operations ==
  ASSUME BitsByBit, NEW op \in Ops, NEW l \in Int, NEW r \in Int, NEW u \in Word, NEW w \in Word,
         l % WORD = u, r % WORD = w,
         op \in {"DIV", "MOD", "ASR"} => ~ (Wide(l) \/ Wide(r)),
         op = "ASL" => ~ Wide(r)
  PROVE  /\ Defined(op, Signed(w)) = Defined(op, r)
         /\ Defined(op, r) => /\ Exact(op, l, r) \in Int /\ Exact(op, Signed(u), Signed(w)) \in Int
                              /\ Exact(op, l, r) % WORD = Exact(op, Signed(u), Signed(w)) % WORD
<1>1. PICK i \in Int, j \in Int : i = Signed(u) /\ j = Signed(w) /\ i % WORD = u /\ j % WORD = w
  BY SignedWord
<1>2. l % WORD = i % WORD /\ r % WORD = j % WORD
  BY <1>1
<1>3. op \in {"DIV", "MOD", "ASR"} => l = i /\ r = j
  BY <1>1, NotWide
<1>4. op = "ASL" => r = j
  BY <1>1, NotWide
<1>5. Defined(op, j) = Defined(op, r)
  BY <1>3, <1>4 DEF Defined
<1>6. ASSUME Defined(op, r)
      PROVE  Exact(op, l, r) \in Int /\ Exact(op, i, j) \in Int
             /\ Exact(op, l, r) % WORD = Exact(op, i, j) % WORD
  <2>1. Exact(op, l, r) \in Int /\ Exact(op, i, j) \in Int
    BY <1>5, <1>6, ExactInt
  <2>2. CASE op \in {"DIV", "MOD", "ASR"}
    BY <1>3, <2>1, <2>2
  <2>3. CASE op \in {"OR", "AND", "XOR"}
    <3>1. Exact(op, l, r) % WORD = Bits(op, l % WORD, r % WORD) % WORD
      BY <2>3, BitOperands
    <3>2. Exact(op, i, j) % WORD = Bits(op, i % WORD, j % WORD) % WORD
      BY <2>3, BitOperands, ZenonT(40)
    <3>3. QED
      BY <1>2, <2>1, <3>1, <3>2
  <2>4. CASE op = "ASL"
    <3>1. r \in 0..(INTBITS - 1)
      BY <1>6, <2>4 DEF Defined
    <3>2. PICK t \in Int : t = 2^r
      BY <3>1, HostAssumption
    <3>3. (l * t) % WORD = (i * t) % WORD
      <4>1. PICK s \in Int : s = t
        OBVIOUS
      <4>2. l % WORD = i % WORD /\ t % WORD = s % WORD
        BY <1>2, <4>1
      <4>3. (l * t) % WORD = (i * s) % WORD
        BY ONLY l \in Int, i \in Int, s \in Int, t \in Int, <4>2, SameProduct
      <4>4. QED
        BY <4>1, <4>3
    <3>4. Exact(op, l, r) = l * t /\ Exact(op, i, j) = i * t
      BY <1>4, <2>4, <3>2 DEF Exact
    <3>5. QED
      BY <2>1, <3>3, <3>4
  <2>5. CASE op = "LDR"
    BY <1>2, <2>1, <2>5 DEF Exact
  <2>6. CASE op \in {"SUB", "CMP"}
    <3>1. (l - r) % WORD = (i - j) % WORD
      BY <1>2, SameDifference
    <3>2. QED
      BY <2>1, <2>6, <3>1 DEF Exact
  <2>7. CASE op = "ADD"
    <3>1. (l + r) % WORD = (i + j) % WORD
      BY <1>2, SameSum
    <3>2. QED
      BY <2>1, <2>7, <3>1 DEF Exact
  <2>8. CASE op = "MUL"
    <3>1. (l * r) % WORD = (i * j) % WORD
      BY <1>2, SameProduct
    <3>2. QED
      BY <2>1, <2>8, <3>1 DEF Exact
  <2>9. CASE op \in {"NOT", "NEG"}
    <3>1. PICK e \in Int, f \in Int : e = -l /\ f = -i
      OBVIOUS
    <3>2. e % WORD = f % WORD
      BY <1>2, <3>1, SameNegation
    <3>3. (e - 1) % WORD = (f - 1) % WORD
      BY <3>2, Near
    <3>4. QED
      BY <2>1, <2>9, <3>1, <3>2, <3>3 DEF Exact
  <2>10. QED
    BY <2>2, <2>3, <2>4, <2>5, <2>6, <2>7, <2>8, <2>9 DEF Ops, Binary, Calcs, Unary
<1>7. QED
  BY <1>1, <1>5, <1>6

-----------------------------------------------------------------------------
(* Each machine by itself.  A machine of one emulator has a twin in the    *)
(* other one, so what was said of the pair is true of each.                *)

LEMMA XTwin ==
  ASSUME NEW a \in XMachine
  PROVE  \E b : Sim(a, b) /\ b.pc % WORD = a.pc
<1> DEFINE b == [regs |-> a.regs, pc |-> a.pc, cc |-> a.cc, last |-> 0, image |-> a.image,
                 status |-> a.status, code |-> a.code]
<1>1. /\ a.regs \in [Regs -> Word] /\ a.pc \in Word /\ a.cc \in 0..2 /\ a.image \in Memory
      /\ a.status \in Status /\ a.code \in Int
  BY XFields
<1>2. a.pc \in Int /\ a.pc % WORD = a.pc
  BY <1>1, WordInt
<1>3. a.regs \in [Regs -> Int] /\ \A r \in Regs : a.regs[r] % WORD = a.regs[r]
  BY <1>1, WordInt
<1>4. b \in PMachine
  BY <1>1, <1>2, <1>3 DEF PMachine
<1>5. Sim(a, b) /\ b.pc % WORD = a.pc
  BY <1>2, <1>3, <1>4 DEF Sim
<1> HIDE DEF b
<1>6. QED
  BY <1>5

LEMMA PTwin ==
  ASSUME NEW b \in PMachine
  PROVE  \E a : Sim(a, b) /\ b.pc % WORD = a.pc
<1> DEFINE R == [r \in Regs |-> b.regs[r] % WORD]
           q == b.pc % WORD
           a == [regs |-> R, pc |-> q, cc |-> b.cc, image |-> b.image, status |-> b.status,
                 code |-> b.code]
<1>1. /\ b.regs \in [Regs -> Int] /\ b.pc \in Int /\ b.cc \in 0..2 /\ b.image \in Memory
      /\ b.status \in Status /\ b.code \in Int
  BY PFields
<1>2. q \in Word
  BY <1>1, WordMod
<1>3. R \in [Regs -> Word] /\ \A r \in Regs : b.regs[r] % WORD = R[r]
  BY <1>1, WordMod
<1> HIDE DEF R, q
<1>4. a \in XMachine
  BY <1>1, <1>2, <1>3 DEF XMachine
<1>5. Sim(a, b) /\ q = a.pc
  BY <1>3, <1>4 DEF Sim
<1> HIDE DEF a
<1>6. QED
  BY <1>5 DEF q

LEMMA XFetch ==
  ASSUME NEW a \in XMachine, NEW k \in Nat
  PROVE  X!reg(a, k) \in Regs /\ X!imm(a, k) \in Word /\ X!ea(a, k) \in Word
  BY XTwin, Fetches, Effective

LEMMA PFetch ==
  ASSUME NEW b \in PMachine, NEW k \in Nat
  PROVE  P!get_reg(b, k) \in Regs /\ P!get_word(b, k) \in Int /\ P!get_ea(b, k) \in Int
  BY PTwin, Fetches, Effective

\* An address k bytes on.
LEMMA XOn ==
  ASSUME NEW w \in Int, NEW k \in Int
  PROVE  X!Add(w, k) = (w + k) % WORD /\ X!Add(w, k) \in Word
         /\ X!Sub(w, k) = (w - k) % WORD /\ X!Sub(w, k) \in Word
  BY XNames, WordMod, w + k \in Int, w - k \in Int

-----------------------------------------------------------------------------
(* Calculations with registers                                             *)

XOperand(a, k) == Signed(a.regs[X!reg(a, k)])
XResult(a, op) == Exact(op, XOperand(a, 1), IF op \in Unary THEN 0 ELSE XOperand(a, 2)) % WORD
POperand(b, k) == b.regs[P!get_reg(b, k)]
PResult(b, op) == HostInt(Exact(op, POperand(b, 1), IF op \in Unary THEN 0 ELSE POperand(b, 2)))

LEMMA XOperands ==
  ASSUME NEW a \in XMachine
  PROVE  XOperand(a, 1) \in Int /\ XOperand(a, 2) \in Int
<1>1. ASSUME NEW k \in Nat PROVE XOperand(a, k) \in Int
  <2>1. PICK w \in Word : w = a.regs[X!reg(a, k)]
    BY XFetch, XFields
  <2>2. QED
    BY <2>1, SignedWord DEF XOperand
<1>2. QED
  BY <1>1

LEMMA POperands ==
  ASSUME NEW b \in PMachine
  PROVE  POperand(b, 1) \in Int /\ POperand(b, 2) \in Int
<1>1. ASSUME NEW k \in Nat PROVE POperand(b, k) \in Int
  BY PFetch, PFields DEF POperand
<1>2. QED
  BY <1>1

LEMMA XBinary ==
  ASSUME BitsByBit, NEW a \in XMachine, NEW op \in Binary
  PROVE  /\ X!binary(a, op) \in XMachine
         /\ ~ Defined(op, XOperand(a, 2)) => X!binary(a, op).status = "undefined"
         /\ Defined(op, XOperand(a, 2)) =>
              /\ X!binary(a, op).regs = IF op = "CMP" THEN a.regs
                                        ELSE [a.regs EXCEPT ![X!reg(a, 1)] = XResult(a, op)]
              /\ X!binary(a, op).pc = (a.pc + 3) % WORD
              /\ X!binary(a, op).cc = X!ConditionCode(XResult(a, op))
              /\ X!binary(a, op).image = a.image
              /\ X!binary(a, op).status = a.status
<1> DEFINE l == X!reg(a, 1)
           u == XOperand(a, 1)
           r == XOperand(a, 2)
           v == XResult(a, op)
           q == (a.pc + 3) % WORD
           c == X!ConditionCode(v)
           n == X!binary(a, op)
<1>1. op \in Ops /\ op \notin Unary
  BY DEF Ops, Binary, Calcs, Unary
<1>2. l \in Regs /\ u \in Int /\ r \in Int
  BY XFetch, XOperands
<1>3. v = Exact(op, u, r) % WORD
  BY <1>1 DEF XResult
<1>4. Defined(op, r) => v \in Word /\ c \in 0..2
  BY <1>1, <1>2, <1>3, ExactInt, WordMod, Codes
<1>5. q \in Word
  <2>1. a.pc + 3 \in Int
    BY XFields, WordInt
  <2>2. QED
    BY <2>1, WordMod
<1>6. n = IF ~ Defined(op, r) THEN [a EXCEPT !.status = "undefined"]
          ELSE [a EXCEPT !.regs[l] = IF op = "CMP" THEN @ ELSE v, !.pc = q, !.cc = c]
  BY <1>3, XNames, ExactNames DEF X!binary, X!Undefined, XOperand
<1> HIDE DEF l, u, r, v, q, c, n
<1>7. ASSUME ~ Defined(op, r) PROVE n \in XMachine /\ n.status = "undefined"
  BY <1>6, <1>7 DEF XMachine, Status
<1>8. ASSUME Defined(op, r)
      PROVE  /\ n \in XMachine /\ n.pc = q /\ n.cc = c /\ n.image = a.image /\ n.status = a.status
             /\ n.regs = IF op = "CMP" THEN a.regs ELSE [a.regs EXCEPT ![l] = v]
  <2>1. a.regs \in [Regs -> Word]
    BY XFields
  <2>2. n \in XMachine /\ n.pc = q /\ n.cc = c /\ n.image = a.image /\ n.status = a.status
    BY <1>2, <1>4, <1>5, <1>6, <1>8 DEF XMachine
  <2>3. n.regs = [a.regs EXCEPT ![l] = IF op = "CMP" THEN @ ELSE v]
    BY <1>6, <1>8 DEF XMachine
  <2>4. n.regs = IF op = "CMP" THEN a.regs ELSE [a.regs EXCEPT ![l] = v]
    BY <1>2, <2>1, <2>3
  <2>5. QED
    BY <2>2, <2>4
<1>9. QED
  BY <1>7, <1>8 DEF l, r, v, q, c, n

LEMMA PBinary ==
  ASSUME BitsByBit, NEW b \in PMachine, NEW op \in Binary
  PROVE  /\ P!binary(b, op) \in PMachine
         /\ ~ Defined(op, POperand(b, 2)) => P!binary(b, op).status = "undefined"
         /\ Defined(op, POperand(b, 2)) =>
              /\ P!binary(b, op).regs = IF op = "CMP" THEN b.regs
                                        ELSE [b.regs EXCEPT ![P!get_reg(b, 1)] = PResult(b, op)]
              /\ P!binary(b, op).pc = b.pc + 3
              /\ P!binary(b, op).cc = P!calc_cc(PResult(b, op))
              /\ P!binary(b, op).last = PResult(b, op) /\ PResult(b, op) \in Int
              /\ P!binary(b, op).image = b.image
              /\ P!binary(b, op).status = b.status
<1> DEFINE l == P!get_reg(b, 1)
           u == POperand(b, 1)
           r == POperand(b, 2)
           v == PResult(b, op)
           q == b.pc + 3
           c == P!calc_cc(v)
           n == P!binary(b, op)
<1>1. op \in Ops /\ op \notin Unary
  BY DEF Ops, Binary, Calcs, Unary
<1>2. l \in Regs /\ u \in Int /\ r \in Int /\ q \in Int
  BY PFetch, POperands, PFields
<1>3. v = HostInt(Exact(op, u, r))
  BY <1>1 DEF PResult
<1>4. Defined(op, r) => v \in Int /\ c \in 0..2
  BY <1>1, <1>2, <1>3, ExactInt, HostInts, Codes
<1>5. n = IF ~ Defined(op, r) THEN [b EXCEPT !.status = "undefined"]
          ELSE LET e == [[b EXCEPT !.cc = c, !.last = v] EXCEPT !.pc = q]
               IN  IF op = "CMP" THEN e ELSE [e EXCEPT !.regs[l] = v]
  BY <1>3, PNames, ExactNames
  DEF P!binary, P!Undefined, P!setpc, P!setreg, P!Calculated, POperand
<1> HIDE DEF l, u, r, v, q, c, n
<1>6. ASSUME ~ Defined(op, r) PROVE n \in PMachine /\ n.status = "undefined"
  BY <1>5, <1>6 DEF PMachine, Status
<1>7. ASSUME Defined(op, r)
      PROVE  /\ n \in PMachine /\ n.pc = q /\ n.cc = c /\ n.last = v /\ n.image = b.image
             /\ n.status = b.status /\ v \in Int
             /\ n.regs = IF op = "CMP" THEN b.regs ELSE [b.regs EXCEPT ![l] = v]
  <2> DEFINE e == [[b EXCEPT !.cc = c, !.last = v] EXCEPT !.pc = q]
  <2>1. /\ e \in PMachine /\ e.pc = q /\ e.cc = c /\ e.last = v /\ e.image = b.image
        /\ e.status = b.status /\ e.regs = b.regs
    BY <1>2, <1>4, <1>7 DEF PMachine
  <2>2. n = IF op = "CMP" THEN e ELSE [e EXCEPT !.regs[l] = v]
    BY <1>5, <1>7
  <2> HIDE DEF e
  <2>3. [e EXCEPT !.regs[l] = v] \in PMachine
    BY <1>2, <1>4, <1>7, <2>1 DEF PMachine
  <2>4. QED
    BY <1>4, <1>7, <2>1, <2>2, <2>3 DEF PMachine
<1>8. QED
  BY <1>6, <1>7 DEF l, r, v, q, c, n

LEMMA XUnary ==
  ASSUME BitsByBit, NEW a \in XMachine, NEW op \in Unary
  PROVE  /\ X!unary(a, op) \in XMachine
         /\ X!unary(a, op).regs = [a.regs EXCEPT ![X!reg(a, 1)] = XResult(a, op)]
         /\ X!unary(a, op).pc = (a.pc + 2) % WORD
         /\ X!unary(a, op).cc = X!ConditionCode(XResult(a, op))
         /\ X!unary(a, op).image = a.image
         /\ X!unary(a, op).status = a.status
<1> DEFINE l == X!reg(a, 1)
           u == XOperand(a, 1)
           v == XResult(a, op)
           q == (a.pc + 2) % WORD
           c == X!ConditionCode(v)
           n == X!unary(a, op)
<1>1. op \in Ops /\ Defined(op, 0)
  BY DEF Ops, Unary, Defined
<1>2. l \in Regs /\ u \in Int
  BY XFetch, XOperands
<1>3. v = Exact(op, u, 0) % WORD
  BY DEF XResult
<1>4. v \in Word /\ c \in 0..2
  BY <1>1, <1>2, <1>3, ExactInt, WordMod, Codes
<1>5. q \in Word
  <2>1. a.pc + 2 \in Int
    BY XFields, WordInt
  <2>2. QED
    BY <2>1, WordMod
<1>6. n = [a EXCEPT !.regs[l] = v, !.pc = q, !.cc = c]
  BY <1>3, XNames, ExactNames DEF X!unary, XOperand
<1> HIDE DEF l, u, v, q, c, n
<1>7. /\ n \in XMachine /\ n.pc = q /\ n.cc = c /\ n.image = a.image /\ n.status = a.status
      /\ n.regs = [a.regs EXCEPT ![l] = v]
  BY <1>2, <1>4, <1>5, <1>6 DEF XMachine
<1>8. QED
  BY <1>7 DEF l, v, q, c, n

LEMMA PUnary ==
  ASSUME BitsByBit, NEW b \in PMachine, NEW op \in Unary
  PROVE  /\ P!unary(b, op) \in PMachine
         /\ P!unary(b, op).regs = [b.regs EXCEPT ![P!get_reg(b, 1)] = PResult(b, op)]
         /\ P!unary(b, op).pc = b.pc + 2
         /\ P!unary(b, op).cc = P!calc_cc(PResult(b, op))
         /\ P!unary(b, op).last = PResult(b, op) /\ PResult(b, op) \in Int
         /\ P!unary(b, op).image = b.image
         /\ P!unary(b, op).status = b.status
<1> DEFINE l == P!get_reg(b, 1)
           u == POperand(b, 1)
           v == PResult(b, op)
           q == b.pc + 2
           c == P!calc_cc(v)
           n == P!unary(b, op)
<1>1. op \in Ops /\ Defined(op, 0)
  BY DEF Ops, Unary, Defined
<1>2. l \in Regs /\ u \in Int /\ q \in Int
  BY PFetch, POperands, PFields
<1>3. v = HostInt(Exact(op, u, 0))
  BY DEF PResult
<1>4. v \in Int /\ c \in 0..2
  BY <1>1, <1>2, <1>3, ExactInt, HostInts, Codes
<1> DEFINE e == [[b EXCEPT !.cc = c, !.last = v] EXCEPT !.pc = q]
<1>5. n = [e EXCEPT !.regs[l] = v]
  BY <1>3, PNames, ExactNames DEF P!unary, P!setpc, P!setreg, P!Calculated, POperand
<1> HIDE DEF l, u, v, q, c, n
<1>6. /\ e \in PMachine /\ e.pc = q /\ e.cc = c /\ e.last = v /\ e.image = b.image
      /\ e.status = b.status /\ e.regs = b.regs
  BY <1>2, <1>4 DEF PMachine
<1> HIDE DEF e
<1>7. /\ n \in PMachine /\ n.pc = q /\ n.cc = c /\ n.last = v /\ n.image = b.image
      /\ n.status = b.status /\ n.regs = [b.regs EXCEPT ![l] = v]
  BY <1>2, <1>4, <1>5, <1>6 DEF PMachine
<1>8. QED
  BY <1>4, <1>7 DEF l, v, q, c, n

-----------------------------------------------------------------------------
(* Branches                                                                *)

LEMMA XBranch ==
  ASSUME NEW a \in XMachine, NEW op
  PROVE  /\ X!branch(a, op) \in XMachine
         /\ X!branch(a, op).pc = IF op = "JMP" \/ X!Taken(a.cc, op) THEN X!ea(a, 1)
                                 ELSE (a.pc + 4) % WORD
         /\ X!branch(a, op).regs = a.regs /\ X!branch(a, op).cc = a.cc
         /\ X!branch(a, op).image = a.image /\ X!branch(a, op).status = a.status
<1> DEFINE q == IF op = "JMP" \/ X!Taken(a.cc, op) THEN X!ea(a, 1) ELSE (a.pc + 4) % WORD
<1>1. a.pc + 4 \in Int
  BY XFields, WordInt
<1>2. q \in Word
  BY <1>1, XFetch, WordMod
<1>3. X!branch(a, op) = [a EXCEPT !.pc = q]
  BY XNames DEF X!branch
<1> HIDE DEF q
<1>4. QED
  BY <1>2, <1>3 DEF XMachine, q

LEMMA PBranch ==
  ASSUME NEW b \in PMachine, NEW op
  PROVE  /\ P!branch(b, op) \in PMachine
         /\ P!branch(b, op).pc = IF op = "JMP" \/ P!test_cc(b.cc, op) THEN P!get_ea(b, 1)
                                 ELSE b.pc + 4
         /\ P!branch(b, op).regs = b.regs /\ P!branch(b, op).cc = b.cc
         /\ P!branch(b, op).last = b.last
         /\ P!branch(b, op).image = b.image /\ P!branch(b, op).status = b.status
<1> DEFINE q == IF op = "JMP" \/ P!test_cc(b.cc, op) THEN P!get_ea(b, 1) ELSE b.pc + 4
<1>1. b.pc + 4 \in Int
  BY PFields
<1>2. q \in Int
  BY <1>1, PFetch
<1>3. P!branch(b, op) = [b EXCEPT !.pc = q]
  BY DEF P!branch, P!setpc
<1> HIDE DEF q
<1>4. QED
  BY <1>2, <1>3 DEF PMachine, q

-----------------------------------------------------------------------------
(* Stores                                                                  *)

\* Memory with the two bytes of w at a.
Stored(im, a, w) == [[im EXCEPT ![a] = <<"num", Hi(w)>>] EXCEPT ![(a + 1) % WORD] = <<"num", Lo(w)>>]

LEMMA WordBytes ==
  ASSUME NEW w \in Word
  PROVE  <<"num", Hi(w)>> \in Tags \X (0..(BYTE - 1)) /\ <<"num", Lo(w)>> \in Tags \X (0..(BYTE - 1))
<1>1. w \in Int /\ w % WORD = w
  BY WordInt
<1>2. Hi(w) \in 0..(BYTE - 1) /\ Lo(w) \in 0..(BYTE - 1)
  BY <1>1, Bytes
<1>3. "num" \in Tags
  BY DEF Tags
<1>4. QED
  BY <1>2, <1>3

LEMMA StoredMemory ==
  ASSUME NEW im \in Memory, NEW a \in Word, NEW w \in Word
  PROVE  Stored(im, a, w) \in Memory
<1>1. (a + 1) % WORD \in Word
  BY WordInt, WordMod, a + 1 \in Int
<1>2. QED
  BY <1>1, WordBytes DEF Stored, Memory

LEMMA XStore ==
  ASSUME NEW m \in XMachine, NEW a \in Word, X!InImage(a), NEW w \in Word
  PROVE  /\ (a + 1) % WORD = a + 1 /\ a + 1 \in Word
         /\ X!StoreWord(m, a, w) = [m EXCEPT !.image = Stored(m.image, a, w)]
<1>1. a \in Nat /\ a + 1 < WORD /\ WORD \in Nat
  BY WordInt, XNames, Sizes DEF X!InImage
<1>2. a + 1 \in Word
  BY <1>1, Sizes
<1>3. (a + 1) % WORD = a + 1
  BY <1>2, WordInt
<1>4. QED
  BY <1>2, <1>3, XNames DEF X!StoreWord, Stored, X!Num

LEMMA PStore ==
  ASSUME NEW m \in PMachine, NEW v \in Int, NEW u \in Int
  PROVE  /\ P!WriteWord(m, v, u) \in PMachine
         /\ P!WriteWord(m, v, u) = [m EXCEPT !.image = Stored(m.image, v % WORD, u % WORD)]
<1> DEFINE a == v % WORD
           w == u % WORD
           d == (v + 1) % WORD
           h == <<"num", (u \div BYTE) % BYTE>>
           l == <<"num", u % BYTE>>
<1>1. a \in Word /\ w \in Word /\ d \in Word
  BY WordMod, v + 1 \in Int
<1>2. h = <<"num", Hi(w)>> /\ l = <<"num", Lo(w)>>
  BY Bytes
<1>3. d = (a + 1) % WORD
  <2>1. a \in Int /\ v % WORD = a % WORD
    BY <1>1, WordInt
  <2>2. QED
    BY <2>1, Near
<1>4. P!WriteWord(m, v, u) = [[m EXCEPT !.image[a] = h] EXCEPT !.image[d] = l]
  BY PNames DEF P!WriteWord, P!WriteByte, P!Num
<1>5. Stored(m.image, a, w) = [[m.image EXCEPT ![a] = h] EXCEPT ![d] = l]
  BY <1>2, <1>3 DEF Stored
<1>6. Stored(m.image, a, w) \in Memory
  BY <1>1, PFields, StoredMemory
<1> HIDE DEF a, w, d, h, l
<1>7. [[m EXCEPT !.image[a] = h] EXCEPT !.image[d] = l] = [m EXCEPT !.image = [[m.image EXCEPT ![a] = h] EXCEPT ![d] = l]]
  BY DEF PMachine
<1>8. P!WriteWord(m, v, u) = [m EXCEPT !.image = Stored(m.image, a, w)]
  BY <1>4, <1>5, <1>7
<1>9. [m EXCEPT !.image = Stored(m.image, a, w)] \in PMachine
  BY <1>6 DEF PMachine
<1>10. QED
  BY <1>8, <1>9 DEF a, w

-----------------------------------------------------------------------------
(* Loads and stores                                                        *)

XValue(a, op, e) ==
  CASE op \in {"LDA", "PSHA"} -> e
    [] op \in {"LDB", "PSHB"} -> X!Char(X!Val(a.image[e])) % WORD
    [] op \in {"LDW", "PSHW"} -> X!WordAt(a, e)
    [] op \in {"STB", "STW"} -> a.regs[X!reg(a, 1)]

PValue(b, op, e) ==
  CASE op \in {"LDA", "PSHA"} -> e
    [] op \in {"LDB", "PSHB"} -> P!ReadByte(b, e)
    [] op \in {"LDW", "PSHW"} -> P!ReadWord(b, e)
    [] op \in {"STB", "STW"} -> b.regs[P!get_reg(b, 1)]

Touches(op) == op \in {"LDW", "STW", "PSHW"}

LEMMA WordAts ==
  ASSUME NEW a \in XMachine, NEW e \in Word, X!InImage(e)
  PROVE  X!WordAt(a, e) = a.image[e][2] * BYTE + a.image[e + 1][2] /\ X!WordAt(a, e) \in Word
         /\ e + 1 \in Word
<1>1. e \in Nat /\ e + 1 < WORD /\ WORD \in Nat
  BY WordInt, XNames, Sizes DEF X!InImage
<1>2. e + 1 \in Word
  BY <1>1, Sizes
<1>3. PICK c \in 0..(BYTE - 1), d \in 0..(BYTE - 1) : c = a.image[e][2] /\ d = a.image[e + 1][2]
  <2>1. a.image[e] \in Tags \X (0..(BYTE - 1)) /\ a.image[e + 1] \in Tags \X (0..(BYTE - 1))
    BY <1>2, XFields DEF Memory
  <2>2. QED
    BY <2>1
<1>4. X!WordAt(a, e) = c * BYTE + d
  BY <1>3 DEF X!WordAt, X!Val
<1>5. c * BYTE + d \in Word
  BY Chars
<1>6. QED
  BY <1>2, <1>3, <1>4, <1>5

LEMMA XValues ==
  ASSUME NEW a \in XMachine, NEW op \in Moves \cup Pushes, NEW e \in Word,
         Touches(op) => X!InImage(e)
  PROVE  XValue(a, op, e) \in Word
<1>1. CASE op \in {"LDA", "PSHA"}
  BY <1>1 DEF XValue
<1>2. CASE op \in {"LDB", "PSHB"}
  <2>1. PICK c \in 0..(BYTE - 1) : c = a.image[e][2]
    <3>1. a.image[e] \in Tags \X (0..(BYTE - 1))
      BY XFields DEF Memory
    <3>2. QED
      BY <3>1
  <2>2. Char(c) \in Int
    BY Chars
  <2>3. Char(c) % WORD \in Word
    BY <2>2, WordMod
  <2>4. XValue(a, op, e) = Char(c) % WORD
    BY <1>2, <2>1, XNames DEF XValue, X!Val
  <2>5. QED
    BY <2>3, <2>4
<1>3. CASE op \in {"LDW", "PSHW"}
  <2>1. X!InImage(e)
    BY <1>3 DEF Touches
  <2>2. QED
    BY <1>3, <2>1, WordAts DEF XValue
<1>4. CASE op \in {"STB", "STW"}
  BY <1>4, XFetch, XFields DEF XValue
<1>5. QED
  BY <1>1, <1>2, <1>3, <1>4 DEF Moves, Pushes

LEMMA PValues ==
  ASSUME NEW b \in PMachine, NEW op \in Moves \cup Pushes, NEW e \in Int
  PROVE  PValue(b, op, e) \in Int
<1>1. P!ReadByte(b, e) \in Int /\ P!ReadWord(b, e) \in Int
  BY Reads
<1>2. b.regs[P!get_reg(b, 1)] \in Int
  BY PFetch, PFields
<1>3. QED
  BY <1>1, <1>2 DEF PValue, Moves, Pushes

LEMMA XMove ==
  ASSUME NEW a \in XMachine, NEW op \in Moves
  PROVE  LET e == X!ea(a, 2)
             v == XValue(a, op, e)
             n == X!move(a, op)
         IN  /\ n \in XMachine
             /\ Touches(op) /\ ~ X!InImage(e) => n.status = "undefined"
             /\ (Touches(op) => X!InImage(e)) =>
                  /\ n.regs = IF op \in {"STB", "STW"} THEN a.regs
                              ELSE [a.regs EXCEPT ![X!reg(a, 1)] = v]
                  /\ n.pc = (a.pc + 5) % WORD
                  /\ n.cc = X!ConditionCode(v)
                  /\ n.image = CASE op = "STB" -> [a.image EXCEPT ![e] = <<"num", Lo(v)>>]
                                 [] op = "STW" -> Stored(a.image, e, v)
                                 [] OTHER -> a.image
                  /\ n.status = a.status
<1> DEFINE e == X!ea(a, 2)
           v == XValue(a, op, e)
           l == X!reg(a, 1)
           q == (a.pc + 5) % WORD
           c == X!ConditionCode(v)
           f == [a EXCEPT !.pc = q, !.cc = c]
           n == X!move(a, op)
<1>1. e \in Word /\ l \in Regs
  BY XFetch
<1>2. q \in Word
  <2>1. a.pc + 5 \in Int
    BY XFields, WordInt
  <2>2. QED
    BY <2>1, WordMod
<1>3. Touches(op) <=> op \in {"LDW", "STW"}
  BY DEF Touches, Moves
<1>4. n = IF op \in {"LDW", "STW"} /\ ~ X!InImage(e) THEN [a EXCEPT !.status = "undefined"]
          ELSE CASE op = "STB" -> [f EXCEPT !.image[e] = <<"num", Lo(v)>>]
                 [] op = "STW" -> X!StoreWord(f, e, v)
                 [] OTHER -> [f EXCEPT !.regs[l] = v]
  <2>1. v = CASE op = "LDA" -> e
              [] op = "LDB" -> X!Char(X!Val(a.image[e])) % X!WORD
              [] op = "LDW" -> X!WordAt(a, e)
              [] OTHER -> a.regs[l]
    BY XNames DEF XValue, Moves
  <2> HIDE DEF v
  <2>2. QED
    BY <2>1, XNames DEF X!move, X!Undefined, X!Num
<1>5. ASSUME Touches(op), ~ X!InImage(e) PROVE n \in XMachine /\ n.status = "undefined"
  <2> HIDE DEF e, n, v
  <2>1. QED
    BY <1>3, <1>4, <1>5 DEF XMachine, Status
<1>6. ASSUME Touches(op) => X!InImage(e)
      PROVE  /\ n \in XMachine /\ n.pc = q /\ n.cc = c /\ n.status = a.status
             /\ n.regs = IF op \in {"STB", "STW"} THEN a.regs ELSE [a.regs EXCEPT ![l] = v]
             /\ n.image = CASE op = "STB" -> [a.image EXCEPT ![e] = <<"num", Lo(v)>>]
                            [] op = "STW" -> Stored(a.image, e, v)
                            [] OTHER -> a.image
  <2>1. v \in Word
    BY <1>1, <1>6, XValues
  <2>2. c \in 0..2
    BY <2>1, WordInt, Codes
  <2> HIDE DEF e, n, v, q, c, l
  <2>3. /\ f \in XMachine /\ f.regs = a.regs /\ f.pc = q /\ f.cc = c /\ f.image = a.image
        /\ f.status = a.status
    BY <1>2, <2>2 DEF XMachine
  <2> HIDE DEF f
  <2>4. CASE op = "STB"
    <3>1. n = [f EXCEPT !.image[e] = <<"num", Lo(v)>>]
      BY <1>4, <2>4
    <3>2. <<"num", Lo(v)>> \in Tags \X (0..(BYTE - 1))
      BY <2>1, WordBytes
    <3> DEFINE z == <<"num", Lo(v)>>
               im == [f.image EXCEPT ![e] = z]
    <3> HIDE DEF z
    <3>3. n = [f EXCEPT !.image = im]
      BY <3>1 DEF XMachine, z
    <3>4. im \in Memory
      BY <1>1, <2>3, <3>2, XFields DEF Memory, z
    <3> HIDE DEF im
    <3>5. /\ n \in XMachine /\ n.regs = f.regs /\ n.pc = f.pc /\ n.cc = f.cc /\ n.status = f.status
          /\ n.image = im
      BY <2>3, <3>3, <3>4 DEF XMachine
    <3>6. QED
      BY <2>3, <2>4, <3>5 DEF im, z
  <2>5. CASE op = "STW"
    <3>1. n = X!StoreWord(f, e, v)
      BY <1>3, <1>4, <1>6, <2>5
    <3> DEFINE im == Stored(f.image, e, v)
    <3>2. n = [f EXCEPT !.image = im]
      BY <1>1, <1>3, <1>6, <2>1, <2>3, <2>5, <3>1, XStore
    <3>3. im \in Memory
      BY <1>1, <2>1, <2>3, XFields, StoredMemory
    <3> HIDE DEF im
    <3>4. /\ n \in XMachine /\ n.regs = f.regs /\ n.pc = f.pc /\ n.cc = f.cc /\ n.status = f.status
          /\ n.image = im
      BY <2>3, <3>2, <3>3 DEF XMachine
    <3>5. QED
      BY <2>3, <2>5, <3>4 DEF im
  <2>6. CASE op \notin {"STB", "STW"}
    <3>1. n = [f EXCEPT !.regs[l] = v]
      BY <1>3, <1>4, <1>6, <2>6
    <3>2. /\ n \in XMachine /\ n.regs = [f.regs EXCEPT ![l] = v] /\ n.pc = f.pc /\ n.cc = f.cc
          /\ n.status = f.status /\ n.image = f.image
      BY <1>1, <2>1, <2>3, <3>1 DEF XMachine
    <3>3. QED
      BY <2>3, <2>6, <3>2
  <2>7. QED
    BY <2>4, <2>5, <2>6
<1>7. QED
  BY <1>5, <1>6

LEMMA PMove ==
  ASSUME NEW b \in PMachine, NEW op \in Moves
  PROVE  LET e == P!get_ea(b, 2)
             v == PValue(b, op, e)
             n == P!move(b, op)
         IN  /\ n \in PMachine
             /\ n.regs = IF op \in {"STB", "STW"} THEN b.regs
                         ELSE [b.regs EXCEPT ![P!get_reg(b, 1)] = v]
             /\ n.pc = b.pc + 5
             /\ n.cc = P!calc_cc(v) /\ n.last = v
             /\ n.image = CASE op = "STB" -> [b.image EXCEPT ![e % WORD] = <<"num", Lo(v % WORD)>>]
                            [] op = "STW" -> Stored(b.image, e % WORD, v % WORD)
                            [] OTHER -> b.image
             /\ n.status = b.status
<1> DEFINE e == P!get_ea(b, 2)
           v == PValue(b, op, e)
           l == P!get_reg(b, 1)
           q == b.pc + 5
           c == P!calc_cc(v)
           f == [[b EXCEPT !.cc = c, !.last = v] EXCEPT !.pc = q]
           n == P!move(b, op)
<1>1. e \in Int /\ l \in Regs /\ q \in Int
  BY PFetch, PFields
<1>2. v \in Int
  BY <1>1, PValues
<1>3. c \in 0..2
  BY <1>2, Codes
<1>4. n = CASE op = "STB" -> [f EXCEPT !.image[e % WORD] = <<"num", v % BYTE>>]
            [] op = "STW" -> P!WriteWord(f, e, v)
            [] OTHER -> [f EXCEPT !.regs[l] = v]
  <2>1. v = CASE op = "LDA" -> e
              [] op = "LDB" -> P!ReadByte(b, e)
              [] op = "LDW" -> P!ReadWord(b, e)
              [] OTHER -> b.regs[l]
    BY DEF PValue, Moves
  <2> HIDE DEF v
  <2>2. QED
    BY <2>1, PNames DEF P!move, P!Calculated, P!setpc, P!setreg, P!WriteByte, P!Num
<1> HIDE DEF e, n, v, q, c, l
<1>5. /\ f \in PMachine /\ f.regs = b.regs /\ f.pc = q /\ f.cc = c /\ f.image = b.image
      /\ f.status = b.status /\ f.last = v
  BY <1>1, <1>2, <1>3 DEF PMachine
<1> HIDE DEF f
<1>6. CASE op = "STB"
  <2> DEFINE z == <<"num", v % BYTE>>
             im == [f.image EXCEPT ![e % WORD] = z]
  <2>1. z = <<"num", Lo(v % WORD)>> /\ z \in Tags \X (0..(BYTE - 1))
    BY <1>2, Bytes, WordMod, WordBytes
  <2> HIDE DEF z
  <2>2. n = [f EXCEPT !.image = im]
    BY <1>4, <1>5, <1>6 DEF PMachine, z
  <2>3. im \in Memory
    BY <1>1, <1>5, <2>1, PFields, WordMod DEF Memory
  <2> HIDE DEF im
  <2>4. /\ n \in PMachine /\ n.regs = f.regs /\ n.pc = f.pc /\ n.cc = f.cc /\ n.status = f.status
        /\ n.image = im /\ n.last = f.last
    BY <1>5, <2>2, <2>3 DEF PMachine
  <2>5. n.image = [b.image EXCEPT ![e % WORD] = <<"num", Lo(v % WORD)>>]
    BY <1>5, <2>1, <2>4 DEF im
  <2>6. QED
    BY <1>5, <1>6, <2>4, <2>5 DEF e, n, v, q, c, l
<1>7. CASE op = "STW"
  <2>1. n = P!WriteWord(f, e, v)
    BY <1>4, <1>7
  <2> DEFINE im == Stored(f.image, e % WORD, v % WORD)
  <2>2. n = [f EXCEPT !.image = im] /\ n \in PMachine
    <3>1. f \in PMachine
      BY <1>5
    <3>2. P!WriteWord(f, e, v) = [f EXCEPT !.image = im] /\ P!WriteWord(f, e, v) \in PMachine
      BY <1>1, <1>2, <3>1, PStore
    <3>3. QED
      BY <2>1, <3>2
  <2> HIDE DEF im
  <2>3. /\ n.regs = f.regs /\ n.pc = f.pc /\ n.cc = f.cc /\ n.status = f.status
        /\ n.image = im /\ n.last = f.last
    BY <1>5, <2>2 DEF PMachine
  <2>4. n.image = Stored(b.image, e % WORD, v % WORD)
    BY <1>5, <2>3 DEF im
  <2>5. QED
    BY <1>5, <1>7, <2>2, <2>3, <2>4 DEF e, n, v, q, c, l
<1>8. CASE op \notin {"STB", "STW"}
  <2>1. n = [f EXCEPT !.regs[l] = v]
    BY <1>4, <1>8
  <2>2. /\ n \in PMachine /\ n.regs = [f.regs EXCEPT ![l] = v] /\ n.pc = f.pc /\ n.cc = f.cc
        /\ n.status = f.status /\ n.image = f.image /\ n.last = f.last
    BY <1>1, <1>2, <1>5, <2>1 DEF PMachine
  <2>3. QED
    BY <1>5, <1>8, <2>2 DEF e, n, v, q, c, l
<1>9. QED
  BY <1>6, <1>7, <1>8

-----------------------------------------------------------------------------
(* The stack                                                               *)

LEMMA XPushes ==
  ASSUME NEW m \in XMachine, NEW w \in Word
  PROVE  LET s == (m.regs[SP] - 2) % WORD
             n == X!Pushed(m, w)
         IN  /\ n \in XMachine /\ s \in Word
             /\ n.pc = m.pc /\ n.cc = m.cc /\ n.code = m.code
             /\ X!InImage(s) => /\ n.regs = [m.regs EXCEPT ![SP] = s]
                                /\ n.image = Stored(m.image, s, w)
                                /\ n.status = m.status
             /\ ~ X!InImage(s) => n.status = "undefined"
<1> DEFINE s == (m.regs[SP] - 2) % WORD
           n == X!Pushed(m, w)
           f == [m EXCEPT !.regs[SP] = s]
<1>1. m.regs[SP] - 2 \in Int
  <2>1. m.regs[SP] \in Word
    BY XFields, Sizes
  <2>2. QED
    BY <2>1, WordInt
<1>2. s \in Word
  BY <1>1, WordMod
<1>3. n = IF X!InImage(s) THEN X!StoreWord(f, s, w) ELSE [m EXCEPT !.status = "undefined"]
  BY XNames DEF X!Pushed, X!Undefined
<1> HIDE DEF s, n
<1>4. ASSUME ~ X!InImage(s)
      PROVE  n \in XMachine /\ n.status = "undefined" /\ n.pc = m.pc /\ n.cc = m.cc /\ n.code = m.code
  BY <1>3, <1>4 DEF XMachine, Status
<1>5. ASSUME X!InImage(s)
      PROVE  /\ n \in XMachine /\ n.pc = m.pc /\ n.cc = m.cc /\ n.code = m.code
             /\ n.regs = [m.regs EXCEPT ![SP] = s]
             /\ n.image = Stored(m.image, s, w)
             /\ n.status = m.status
  <2>1. /\ f \in XMachine /\ f.regs = [m.regs EXCEPT ![SP] = s] /\ f.pc = m.pc /\ f.cc = m.cc
        /\ f.code = m.code /\ f.image = m.image /\ f.status = m.status
    BY <1>2, Sizes DEF XMachine
  <2> DEFINE im == Stored(f.image, s, w)
  <2> HIDE DEF f
  <2>2. n = [f EXCEPT !.image = im]
    BY <1>2, <1>3, <1>5, <2>1, XStore
  <2>3. im \in Memory
    BY <1>2, <2>1, XFields, StoredMemory
  <2> HIDE DEF im
  <2>4. /\ n \in XMachine /\ n.regs = f.regs /\ n.pc = f.pc /\ n.cc = f.cc /\ n.status = f.status
        /\ n.image = im /\ n.code = f.code
    BY <2>1, <2>2, <2>3 DEF XMachine
  <2>5. QED
    BY <2>1, <2>4 DEF im
<1>6. QED
  BY <1>2, <1>4, <1>5 DEF s, n

LEMMA PPushes ==
  ASSUME NEW m \in PMachine, NEW v \in Int
  PROVE  LET s == HostInt(m.regs[SP] - 2)
             n == P!Pushed(m, v)
         IN  /\ n \in PMachine /\ s \in Int /\ s % WORD = (m.regs[SP] - 2) % WORD
             /\ n.pc = m.pc /\ n.cc = m.cc /\ n.last = m.last /\ n.status = m.status /\ n.code = m.code
             /\ n.regs = [m.regs EXCEPT ![SP] = s]
             /\ n.image = Stored(m.image, s % WORD, v % WORD)
<1> DEFINE s == HostInt(m.regs[SP] - 2)
           n == P!Pushed(m, v)
           f == [m EXCEPT !.regs[SP] = s]
<1>1. m.regs[SP] - 2 \in Int
  BY PFields, Sizes
<1>2. s \in Int /\ s % WORD = (m.regs[SP] - 2) % WORD
  BY <1>1, HostInts
<1>3. n = P!WriteWord(f, s, v)
  BY PNames DEF P!Pushed, P!setreg
<1> HIDE DEF s, n
<1>4. /\ f \in PMachine /\ f.regs = [m.regs EXCEPT ![SP] = s] /\ f.pc = m.pc /\ f.cc = m.cc
      /\ f.code = m.code /\ f.image = m.image /\ f.status = m.status /\ f.last = m.last
  BY <1>2, Sizes DEF PMachine
<1> DEFINE im == Stored(f.image, s % WORD, v % WORD)
<1> HIDE DEF f
<1>5. n = [f EXCEPT !.image = im] /\ n \in PMachine
  BY <1>2, <1>3, <1>4, PStore
<1> HIDE DEF im
<1>6. /\ n.regs = f.regs /\ n.pc = f.pc /\ n.cc = f.cc /\ n.status = f.status
      /\ n.image = im /\ n.code = f.code /\ n.last = f.last
  BY <1>4, <1>5 DEF PMachine
<1>7. n.image = Stored(m.image, s % WORD, v % WORD)
  BY <1>4, <1>6 DEF im
<1>8. QED
  BY <1>2, <1>4, <1>5, <1>6, <1>7 DEF s, n

LEMMA XPops ==
  ASSUME NEW m \in XMachine, NEW r \in Regs
  PROVE  LET s == m.regs[SP]
             n == X!Popped(m, r)
         IN  /\ n \in XMachine
             /\ n.pc = m.pc /\ n.cc = m.cc /\ n.code = m.code /\ n.image = m.image
             /\ X!InImage(s) =>
                  /\ n.regs = [[m.regs EXCEPT ![SP] = (s + 2) % WORD] EXCEPT ![r] = X!WordAt(m, s)]
                  /\ n.status = m.status
             /\ ~ X!InImage(s) => n.status = "undefined" /\ n.regs = m.regs
<1> DEFINE s == m.regs[SP]
           n == X!Popped(m, r)
           t == (s + 2) % WORD
           w == X!WordAt(m, s)
<1>1. s \in Word
  BY XFields, Sizes
<1>2. t \in Word
  <2>1. s + 2 \in Int
    BY <1>1, WordInt
  <2>2. QED
    BY <2>1, WordMod
<1>3. X!InImage(s) => w \in Word
  BY <1>1, WordAts
<1>4. n = IF ~ X!InImage(s) THEN [m EXCEPT !.status = "undefined"]
          ELSE [m EXCEPT !.regs = [[m.regs EXCEPT ![SP] = t] EXCEPT ![r] = w]]
  BY XNames DEF X!Popped, X!Undefined
<1> HIDE DEF s, n, t, w
<1>5. ASSUME ~ X!InImage(s)
      PROVE  /\ n \in XMachine /\ n.status = "undefined" /\ n.pc = m.pc /\ n.cc = m.cc /\ n.code = m.code
             /\ n.image = m.image /\ n.regs = m.regs
  BY <1>4, <1>5 DEF XMachine, Status
<1>6. ASSUME X!InImage(s)
      PROVE  /\ n \in XMachine /\ n.status = m.status /\ n.pc = m.pc /\ n.cc = m.cc /\ n.code = m.code
             /\ n.image = m.image /\ n.regs = [[m.regs EXCEPT ![SP] = t] EXCEPT ![r] = w]
  <2> DEFINE R == [[m.regs EXCEPT ![SP] = t] EXCEPT ![r] = w]
  <2>1. R \in [Regs -> Word]
    BY <1>2, <1>3, <1>6, XFields, Sizes
  <2> HIDE DEF R
  <2>2. n = [m EXCEPT !.regs = R]
    BY <1>4, <1>6 DEF R
  <2>3. /\ n \in XMachine /\ n.status = m.status /\ n.pc = m.pc /\ n.cc = m.cc /\ n.code = m.code
        /\ n.image = m.image /\ n.regs = R
    BY <2>1, <2>2 DEF XMachine
  <2>4. QED
    BY <2>3 DEF R
<1>7. QED
  BY <1>5, <1>6 DEF s, n, t, w

LEMMA PPops ==
  ASSUME NEW m \in PMachine, NEW r \in Regs
  PROVE  LET s == HostInt(m.regs[SP] + 2)
             n == P!Popped(m, r)
         IN  /\ n \in PMachine /\ s \in Int /\ s % WORD = (m.regs[SP] + 2) % WORD
             /\ n.pc = m.pc /\ n.cc = m.cc /\ n.last = m.last /\ n.status = m.status /\ n.code = m.code
             /\ n.image = m.image
             /\ n.regs = [[m.regs EXCEPT ![SP] = s] EXCEPT ![r] = P!ReadWord(m, m.regs[SP])]
<1> DEFINE s == HostInt(m.regs[SP] + 2)
           n == P!Popped(m, r)
           v == P!ReadWord(m, m.regs[SP])
<1>1. m.regs[SP] \in Int /\ m.regs[SP] + 2 \in Int
  BY PFields, Sizes
<1>2. s \in Int /\ s % WORD = (m.regs[SP] + 2) % WORD
  BY <1>1, HostInts
<1>3. v \in Int
  BY <1>1, Reads
<1>4. n = [[m EXCEPT !.regs[SP] = s] EXCEPT !.regs[r] = v]
  BY PNames DEF P!Popped, P!setreg
<1> HIDE DEF s, n, v
<1> DEFINE R == [[m.regs EXCEPT ![SP] = s] EXCEPT ![r] = v]
<1>5. R \in [Regs -> Int]
  BY <1>2, <1>3, PFields, Sizes
<1>6. n = [m EXCEPT !.regs = R]
  BY <1>4 DEF PMachine
<1> HIDE DEF R
<1>7. /\ n \in PMachine /\ n.status = m.status /\ n.pc = m.pc /\ n.cc = m.cc /\ n.code = m.code
      /\ n.image = m.image /\ n.regs = R /\ n.last = m.last
  BY <1>5, <1>6 DEF PMachine
<1>8. n.regs = [[m.regs EXCEPT ![SP] = s] EXCEPT ![r] = v]
  BY <1>7 DEF R
<1>9. QED
  BY <1>2, <1>7, <1>8 DEF s, n, v

LEMMA XPush ==
  ASSUME NEW a \in XMachine, NEW op \in Pushes
  PROVE  LET e == X!ea(a, 1)
             v == XValue(a, op, e)
             s == (a.regs[SP] - 2) % WORD
             n == X!push(a, op)
         IN  /\ n \in XMachine
             /\ (Touches(op) => X!InImage(e)) /\ X!InImage(s) =>
                  /\ v \in Word
                  /\ n.regs = [a.regs EXCEPT ![SP] = s]
                  /\ n.pc = (a.pc + 4) % WORD
                  /\ n.cc = X!ConditionCode(v)
                  /\ n.image = Stored(a.image, s, v)
                  /\ n.status = a.status
             /\ ~ ((Touches(op) => X!InImage(e)) /\ X!InImage(s)) => n.status = "undefined"
<1> DEFINE e == X!ea(a, 1)
           v == XValue(a, op, e)
           s == (a.regs[SP] - 2) % WORD
           n == X!push(a, op)
           q == (a.pc + 4) % WORD
           c == X!ConditionCode(v)
           f == X!Pushed(a, v)
<1>1. e \in Word
  BY XFetch
<1>2. q \in Word
  <2>1. a.pc + 4 \in Int
    BY XFields, WordInt
  <2>2. QED
    BY <2>1, WordMod
<1>3. Touches(op) <=> op = "PSHW"
  BY DEF Touches, Pushes
<1>4. n = IF op = "PSHW" /\ ~ X!InImage(e) THEN [a EXCEPT !.status = "undefined"]
          ELSE [f EXCEPT !.pc = X!Add(@, 4), !.cc = c]
  <2>1. v = CASE op = "PSHA" -> e
              [] op = "PSHB" -> X!Char(X!Val(a.image[e])) % X!WORD
              [] op = "PSHW" -> X!WordAt(a, e)
    BY XNames DEF XValue, Pushes
  <2> HIDE DEF v
  <2>2. QED
    BY <2>1 DEF X!push, X!Undefined
<1> HIDE DEF e, n, v, s, q, c, f
<1>5. ASSUME Touches(op), ~ X!InImage(e) PROVE n \in XMachine /\ n.status = "undefined"
  BY <1>3, <1>4, <1>5 DEF XMachine, Status
<1>6. ASSUME Touches(op) => X!InImage(e)
      PROVE  /\ v \in Word
             /\ f \in XMachine
             /\ n \in XMachine /\ n.regs = f.regs /\ n.pc = q /\ n.cc = c
             /\ n.image = f.image /\ n.status = f.status
  <2>1. v \in Word
    BY <1>1, <1>6, XValues DEF v
  <2>2. c \in 0..2
    BY <2>1, WordInt, Codes DEF c
  <2>3. f \in XMachine /\ f.pc = a.pc
    BY <2>1, XPushes DEF f
  <2>4. n = [f EXCEPT !.pc = q, !.cc = c]
    BY <1>3, <1>4, <1>6, <2>3, XNames DEF q
  <2>5. QED
    BY <1>2, <2>1, <2>2, <2>3, <2>4 DEF XMachine
<1>7. ASSUME v \in Word
      PROVE  /\ X!InImage(s) => /\ f.regs = [a.regs EXCEPT ![SP] = s]
                                /\ f.image = Stored(a.image, s, v)
                                /\ f.status = a.status
             /\ ~ X!InImage(s) => f.status = "undefined"
  BY <1>7, XPushes DEF f, s
<1>8. QED
  BY <1>5, <1>6, <1>7 DEF e, n, v, s, q, c

LEMMA PPush ==
  ASSUME NEW b \in PMachine, NEW op \in Pushes
  PROVE  LET e == P!get_ea(b, 1)
             v == PValue(b, op, e)
             s == HostInt(b.regs[SP] - 2)
             n == P!push(b, op)
         IN  /\ n \in PMachine /\ s \in Int /\ s % WORD = (b.regs[SP] - 2) % WORD
             /\ v \in Int
             /\ n.regs = [b.regs EXCEPT ![SP] = s]
             /\ n.pc = b.pc + 4
             /\ n.cc = P!calc_cc(v) /\ n.last = v
             /\ n.image = Stored(b.image, s % WORD, v % WORD)
             /\ n.status = b.status
<1> DEFINE e == P!get_ea(b, 1)
           v == PValue(b, op, e)
           s == HostInt(b.regs[SP] - 2)
           n == P!push(b, op)
           q == b.pc + 4
           c == P!calc_cc(v)
           d == [b EXCEPT !.cc = c, !.last = v]
           f == P!Pushed(d, v)
<1>1. e \in Int /\ q \in Int
  BY PFetch, PFields
<1>2. v \in Int
  BY <1>1, PValues
<1>3. c \in 0..2
  BY <1>2, Codes
<1>4. n = [f EXCEPT !.pc = q]
  <2>1. v = CASE op = "PSHA" -> e
              [] op = "PSHB" -> P!ReadByte(b, e)
              [] op = "PSHW" -> P!ReadWord(b, e)
    BY DEF PValue, Pushes
  <2> HIDE DEF v
  <2>2. QED
    BY <2>1 DEF P!push, P!Calculated, P!setpc
<1> HIDE DEF e, n, v, q, c, f
<1>5. d \in PMachine /\ d.regs = b.regs /\ d.cc = c /\ d.last = v /\ d.image = b.image /\ d.status = b.status
  BY <1>2, <1>3 DEF PMachine
<1> HIDE DEF d
<1>6. /\ f \in PMachine /\ s \in Int /\ s % WORD = (b.regs[SP] - 2) % WORD
      /\ f.cc = d.cc /\ f.last = d.last /\ f.status = d.status
      /\ f.regs = [d.regs EXCEPT ![SP] = s]
      /\ f.image = Stored(d.image, s % WORD, v % WORD)
  BY <1>2, <1>5, PPushes DEF f
<1> HIDE DEF s
<1>7. /\ n \in PMachine /\ n.regs = f.regs /\ n.pc = q /\ n.cc = f.cc /\ n.last = f.last
      /\ n.image = f.image /\ n.status = f.status
  BY <1>1, <1>4, <1>6 DEF PMachine
<1>8. QED
  BY <1>2, <1>5, <1>6, <1>7 DEF e, n, v, s, q, c

LEMMA XJsb ==
  ASSUME NEW a \in XMachine
  PROVE  LET s == (a.regs[SP] - 2) % WORD
             n == X!jsb(a)
         IN  /\ n \in XMachine
             /\ n.pc = X!ea(a, 1) /\ n.cc = a.cc
             /\ n.regs = X!Pushed(a, (a.pc + 4) % WORD).regs
             /\ n.image = X!Pushed(a, (a.pc + 4) % WORD).image
             /\ n.status = X!Pushed(a, (a.pc + 4) % WORD).status
<1> DEFINE q == X!ea(a, 1)
           w == (a.pc + 4) % WORD
           f == X!Pushed(a, w)
           n == X!jsb(a)
<1>1. a.pc + 4 \in Int
  BY XFields, WordInt
<1>2. w \in Word /\ q \in Word
  BY <1>1, WordMod, XFetch
<1>3. f \in XMachine /\ f.cc = a.cc
  BY <1>2, XPushes
<1>4. n = [f EXCEPT !.pc = q]
  BY XNames DEF X!jsb
<1> HIDE DEF n, w, q, f
<1>5. /\ n \in XMachine /\ n.pc = q /\ n.cc = f.cc /\ n.regs = f.regs /\ n.image = f.image
      /\ n.status = f.status
  BY <1>2, <1>3, <1>4 DEF XMachine
<1>6. QED
  BY <1>3, <1>5 DEF n, w, q, f

LEMMA PJsb ==
  ASSUME NEW b \in PMachine
  PROVE  LET n == P!jsb(b)
             f == P!Pushed(b, b.pc + 4)
         IN  /\ n \in PMachine
             /\ n.pc = P!get_ea(b, 1) /\ n.cc = b.cc /\ n.last = b.last
             /\ n.regs = f.regs /\ n.image = f.image /\ n.status = f.status
<1> DEFINE q == P!get_ea(b, 1)
           w == b.pc + 4
           f == P!Pushed(b, w)
           n == P!jsb(b)
<1>1. w \in Int /\ q \in Int
  BY PFields, PFetch
<1>2. f \in PMachine /\ f.cc = b.cc /\ f.last = b.last
  BY <1>1, PPushes
<1>3. n = [f EXCEPT !.pc = q]
  BY DEF P!jsb, P!setpc
<1> HIDE DEF n, w, q, f
<1>4. /\ n \in PMachine /\ n.pc = q /\ n.cc = f.cc /\ n.regs = f.regs /\ n.image = f.image
      /\ n.status = f.status /\ n.last = f.last
  BY <1>1, <1>2, <1>3 DEF PMachine
<1>5. QED
  BY <1>2, <1>4 DEF n, w, q, f

LEMMA XRsb ==
  ASSUME NEW a \in XMachine
  PROVE  LET s == a.regs[SP]
             n == X!rsb(a)
         IN  /\ n \in XMachine
             /\ ~ X!InImage(s) => n.status = "undefined"
             /\ X!InImage(s) =>
                  /\ n.pc = X!WordAt(a, s) /\ n.cc = a.cc
                  /\ n.regs = [a.regs EXCEPT ![SP] = (s + 2) % WORD]
                  /\ n.image = a.image /\ n.status = a.status
<1> DEFINE s == a.regs[SP]
           n == X!rsb(a)
           t == (s + 2) % WORD
           w == X!WordAt(a, s)
<1>1. s \in Word
  BY XFields, Sizes
<1>2. t \in Word
  <2>1. s + 2 \in Int
    BY <1>1, WordInt
  <2>2. QED
    BY <2>1, WordMod
<1>3. X!InImage(s) => w \in Word
  BY <1>1, WordAts
<1>4. n = IF ~ X!InImage(s) THEN [a EXCEPT !.status = "undefined"]
          ELSE [a EXCEPT !.pc = w, !.regs[SP] = t]
  BY XNames DEF X!rsb, X!Undefined
<1> HIDE DEF s, n, t, w
<1>5. ASSUME ~ X!InImage(s)
      PROVE  n \in XMachine /\ n.status = "undefined"
  BY <1>4, <1>5 DEF XMachine, Status
<1>6. ASSUME X!InImage(s)
      PROVE  /\ n \in XMachine /\ n.status = a.status /\ n.pc = w /\ n.cc = a.cc
             /\ n.image = a.image /\ n.regs = [a.regs EXCEPT ![SP] = t]
  BY <1>2, <1>3, <1>4, <1>6, Sizes DEF XMachine
<1>7. QED
  BY <1>5, <1>6 DEF s, n, t, w

LEMMA PRsb ==
  ASSUME NEW b \in PMachine
  PROVE  LET s == HostInt(b.regs[SP] + 2)
             n == P!rsb(b)
         IN  /\ n \in PMachine /\ s \in Int /\ s % WORD = (b.regs[SP] + 2) % WORD
             /\ n.pc = P!ReadWord(b, b.regs[SP]) /\ n.cc = b.cc /\ n.last = b.last
             /\ n.regs = [b.regs EXCEPT ![SP] = s]
             /\ n.image = b.image /\ n.status = b.status
<1> DEFINE s == HostInt(b.regs[SP] + 2)
           n == P!rsb(b)
           v == P!ReadWord(b, b.regs[SP])
<1>1. b.regs[SP] \in Int /\ b.regs[SP] + 2 \in Int
  BY PFields, Sizes
<1>2. s \in Int /\ s % WORD = (b.regs[SP] + 2) % WORD
  BY <1>1, HostInts
<1>3. v \in Int
  BY <1>1, Reads
<1>4. n = [[b EXCEPT !.pc = v] EXCEPT !.regs[SP] = s]
  BY PNames DEF P!rsb, P!setreg, P!setpc
<1> HIDE DEF s, n, v
<1>5. /\ n \in PMachine /\ n.pc = v /\ n.cc = b.cc /\ n.last = b.last
      /\ n.regs = [b.regs EXCEPT ![SP] = s] /\ n.image = b.image /\ n.status = b.status
  BY <1>2, <1>3, <1>4, Sizes DEF PMachine
<1>6. QED
  BY <1>2, <1>5 DEF s, n, v

\* The instruction is left behind.
LEMMA XSkip ==
  ASSUME NEW a \in XMachine
  PROVE  LET n == X!Skip(a, 3)
         IN  /\ n \in XMachine /\ n.pc = (a.pc + 3) % WORD
             /\ n.regs = a.regs /\ n.cc = a.cc /\ n.image = a.image /\ n.status = a.status
<1> DEFINE n == X!Skip(a, 3)
           q == (a.pc + 3) % WORD
<1>1. a.pc + 3 \in Int
  BY XFields, WordInt
<1>2. q \in Word
  BY <1>1, WordMod
<1>3. n = [a EXCEPT !.pc = q]
  BY XNames DEF X!Skip
<1> HIDE DEF n, q
<1>4. QED
  BY <1>2, <1>3 DEF XMachine, n, q

LEMMA PSkip ==
  ASSUME NEW b \in PMachine
  PROVE  LET n == P!Skip(b, 3)
         IN  /\ n \in PMachine /\ n.pc = b.pc + 3 /\ n.last = b.last
             /\ n.regs = b.regs /\ n.cc = b.cc /\ n.image = b.image /\ n.status = b.status
<1> DEFINE n == P!Skip(b, 3)
           q == b.pc + 3
<1>1. q \in Int
  BY PFields
<1>2. n = [b EXCEPT !.pc = q]
  BY DEF P!Skip, P!setpc
<1> HIDE DEF n, q
<1>3. QED
  BY <1>1, <1>2 DEF PMachine, n, q

LEMMA XSvc ==
  ASSUME NEW m \in XMachine, NEW id \in Word
  PROVE  LET n == X!svc(m, id)
         IN  /\ n \in XMachine
             /\ id # 0 \/ X!InImage(m.regs[1]) =>
                  /\ n.cc = m.cc /\ n.pc = m.pc /\ n.image = m.image
                  /\ n.regs = IF id \in Answers
                              THEN [m.regs EXCEPT ![1] = Service(id, m.regs[1]) % WORD]
                              ELSE m.regs
                  /\ n.status = IF id \in {1, 2, 3} THEN m.status ELSE "stopped"
             /\ ~ (id # 0 \/ X!InImage(m.regs[1])) => n.status = "undefined"
<1> DEFINE n == X!svc(m, id)
           w == X!WordAt(m, m.regs[1])
           v == Service(id, m.regs[1]) % WORD
<1>1. m.regs[1] \in Word /\ 1 \in Regs
  BY XFields, Sizes
<1>2. X!InImage(m.regs[1]) => w \in Int
  BY <1>1, WordAts, WordInt
<1>3. id \in Answers => v \in Word
  BY <1>1, HostAssumption, WordMod
<1>4. id \in Int /\ (id \in Answers <=> id \in {2, 3})
  BY WordInt DEF Answers
<1>5. n = CASE id = 0 -> IF X!InImage(m.regs[1]) THEN [m EXCEPT !.status = "stopped", !.code = w]
                         ELSE [m EXCEPT !.status = "undefined"]
            [] id = 1 -> m
            [] id \in Answers -> [m EXCEPT !.regs[1] = v]
            [] OTHER -> [m EXCEPT !.status = "stopped", !.code = 1]
  BY XNames DEF X!svc, X!EXIT, X!MONITOR, X!Answers, Answers, X!Stop, X!Undefined
<1> HIDE DEF n, w, v
<1>6. CASE id = 0
  <2>1. CASE X!InImage(m.regs[1])
    <3>1. n = [m EXCEPT !.status = "stopped", !.code = w]
      BY <1>4, <1>5, <1>6, <2>1
    <3>2. /\ n \in XMachine /\ n.cc = m.cc /\ n.pc = m.pc /\ n.image = m.image /\ n.regs = m.regs
          /\ n.status = "stopped"
      BY <1>2, <2>1, <3>1 DEF XMachine, Status
    <3>3. QED
      BY <1>4, <1>6, <2>1, <3>2 DEF n
  <2>2. CASE ~ X!InImage(m.regs[1])
    <3>1. n = [m EXCEPT !.status = "undefined"]
      BY <1>4, <1>5, <1>6, <2>2
    <3>2. n \in XMachine /\ n.status = "undefined"
      BY <3>1 DEF XMachine, Status
    <3>3. QED
      BY <1>6, <2>2, <3>2 DEF n
  <2>3. QED
    BY <2>1, <2>2
<1>7. CASE id = 1
  <2>1. n = m
    BY <1>4, <1>5, <1>7
  <2>2. QED
    BY <1>4, <1>7, <2>1 DEF n
<1>8. CASE id \in Answers
  <2>1. n = [m EXCEPT !.regs[1] = v] /\ id \in {2, 3}
    BY <1>4, <1>5, <1>8
  <2>2. /\ n \in XMachine /\ n.cc = m.cc /\ n.pc = m.pc /\ n.image = m.image
        /\ n.regs = [m.regs EXCEPT ![1] = v] /\ n.status = m.status
    BY <1>1, <1>3, <1>8, <2>1 DEF XMachine
  <2>3. QED
    BY <1>8, <2>1, <2>2 DEF n, v
<1>9. CASE id # 0 /\ id # 1 /\ id \notin Answers
  <2>1. n = [m EXCEPT !.status = "stopped", !.code = 1] /\ id \notin {1, 2, 3}
    BY <1>4, <1>5, <1>9
  <2>2. PICK d \in Int : d = 1
    OBVIOUS
  <2>3. n = [m EXCEPT !.status = "stopped", !.code = d]
    BY <2>1, <2>2
  <2>4. /\ n \in XMachine /\ n.cc = m.cc /\ n.pc = m.pc /\ n.image = m.image
        /\ n.regs = m.regs /\ n.status = "stopped"
    BY ONLY m \in XMachine, d \in Int, <2>3 DEF XMachine, Status
  <2>5. QED
    BY <1>9, <2>1, <2>4 DEF n
<1>10. QED
  BY <1>6, <1>7, <1>8, <1>9

LEMMA PSvc ==
  ASSUME NEW b \in PMachine, NEW id \in Int
  PROVE  LET n == P!svc(b, id)
         IN  /\ n \in PMachine
             /\ n.cc = b.cc /\ n.last = b.last /\ n.image = b.image
             /\ n.pc = IF id \in Answers THEN b.pc + 3 ELSE b.pc
             /\ n.regs = IF id \in Answers THEN [b.regs EXCEPT ![1] = Service(id, b.regs[1] % WORD)]
                         ELSE b.regs
             /\ n.status = IF id \in Answers THEN b.status ELSE "stopped"
<1> DEFINE n == P!svc(b, id)
           w == P!ReadWord(b, b.regs[1]) % WORD
           v == Service(id, b.regs[1] % WORD)
           f == P!Skip(b, 3)
<1>1. b.regs[1] \in Int /\ 1 \in Regs
  BY PFields, Sizes
<1>2. w \in Int
  BY <1>1, Reads, WordInt
<1>3. id \in Answers => v \in Int
  BY <1>1, HostAssumption, WordMod
<1>4. f \in PMachine /\ f.pc = b.pc + 3 /\ f.regs = b.regs /\ f.last = b.last /\ f.cc = b.cc
      /\ f.image = b.image /\ f.status = b.status
  BY PSkip
<1>5. n = CASE id = 0 -> [b EXCEPT !.status = "stopped", !.code = w]
            [] id \in Answers -> [f EXCEPT !.regs[1] = v]
            [] OTHER -> [b EXCEPT !.status = "stopped", !.code = 0]
  BY PNames DEF P!svc, P!EXIT, P!Answers, Answers, P!Event, P!setreg
<1> HIDE DEF n, w, v, f
<1>6. CASE id \in Answers
  <2>1. n = [f EXCEPT !.regs[1] = v]
    BY <1>5, <1>6 DEF Answers
  <2>2. /\ n \in PMachine /\ n.cc = f.cc /\ n.pc = f.pc /\ n.image = f.image /\ n.last = f.last
        /\ n.regs = [f.regs EXCEPT ![1] = v] /\ n.status = f.status
    BY <1>1, <1>3, <1>4, <1>6, <2>1 DEF PMachine
  <2>3. QED
    BY <1>4, <1>6, <2>2 DEF n, v
<1>7. CASE id \notin Answers
  <2> DEFINE d == IF id = 0 THEN w ELSE 0
  <2>1. d \in Int /\ n = [b EXCEPT !.status = "stopped", !.code = d]
    <3>1. CASE id = 0
      BY <1>2, <1>5, <1>7, <3>1
    <3>2. CASE id # 0
      BY <1>2, <1>5, <1>7, <3>2
    <3>3. QED
      BY <3>1, <3>2
  <2> HIDE DEF d
  <2>2. /\ n \in PMachine /\ n.cc = b.cc /\ n.pc = b.pc /\ n.image = b.image /\ n.last = b.last
        /\ n.regs = b.regs /\ n.status = "stopped"
    BY ONLY b \in PMachine, <2>1 DEF PMachine, Status
  <2>3. QED
    BY <1>7, <2>2 DEF n
<1>8. QED
  BY <1>6, <1>7

-----------------------------------------------------------------------------
(* PSHR and POPR: the loops, one register after the other                  *)

XPshrStep(n, mask, r) ==
  IF X!Bit(mask, r) THEN X!Pushed(n, IF r = SP THEN X!Sub(n.regs[SP], 2) ELSE n.regs[r]) ELSE n
PPshrStep(n, mask, r) == IF P!Bit(mask % WORD, r) THEN P!Pushed(n, n.regs[r]) ELSE n
XPoprStep(n, mask, r) == IF X!Bit(mask, r) THEN X!Popped(n, r) ELSE n
PPoprStep(n, mask, r) == IF P!Bit(mask % WORD, r) THEN P!Popped(n, r) ELSE n

LEMMA XPshrType ==
  ASSUME NEW n \in XMachine, NEW mask, NEW r \in Regs
  PROVE  XPshrStep(n, mask, r) \in XMachine
<1>1. n.regs[SP] \in Word /\ n.regs[r] \in Word
  BY XFields, Sizes
<1>2. X!Sub(n.regs[SP], 2) \in Word
  <2>1. n.regs[SP] \in Int
    BY <1>1, WordInt
  <2>2. QED
    BY <2>1, 2 \in Int, XOn
<1>3. PICK w \in Word : w = IF r = SP THEN X!Sub(n.regs[SP], 2) ELSE n.regs[r]
  BY <1>1, <1>2
<1>4. X!Pushed(n, w) \in XMachine
  BY XPushes
<1>5. QED
  BY <1>3, <1>4 DEF XPshrStep

LEMMA PPshrType ==
  ASSUME NEW n \in PMachine, NEW mask, NEW r \in Regs
  PROVE  PPshrStep(n, mask, r) \in PMachine
<1>1. n.regs[r] \in Int
  BY PFields
<1>2. P!Pushed(n, n.regs[r]) \in PMachine
  BY <1>1, PPushes
<1>3. QED
  BY <1>2 DEF PPshrStep

LEMMA XPoprType ==
  ASSUME NEW n \in XMachine, NEW mask, NEW r \in Regs
  PROVE  XPoprStep(n, mask, r) \in XMachine
<1>1. X!Popped(n, r) \in XMachine
  BY XPops
<1>2. QED
  BY <1>1 DEF XPoprStep

LEMMA PPoprType ==
  ASSUME NEW n \in PMachine, NEW mask, NEW r \in Regs
  PROVE  PPoprStep(n, mask, r) \in PMachine
<1>1. P!Popped(n, r) \in PMachine
  BY PPops
<1>2. QED
  BY <1>1 DEF PPoprStep

LEMMA XPshrRuns ==
  ASSUME NEW m \in XMachine, NEW mask
  PROVE  \E g \in [0..NREG -> XMachine] :
           /\ g[0] = m /\ X!pshr(m, mask) = g[NREG]
           /\ \A k \in 1..NREG : g[k] = XPshrStep(g[k - 1], mask, k - 1)
<1> DEFINE n == NREG
           Q(h) == h = [k \in 0..n |-> IF k = 0 THEN m ELSE XPshrStep(h[k - 1], mask, k - 1)]
           F == [k \in 1..n |-> [e \in XMachine |-> XPshrStep(e, mask, k - 1)]]
<1>1. n \in Nat
  BY Sizes
<1>2. \A k \in 1..n : F[k] \in [XMachine -> XMachine]
  <2>1. ASSUME NEW k \in 1..n, NEW e \in XMachine PROVE XPshrStep(e, mask, k - 1) \in XMachine
    <3>1. k - 1 \in Regs
      BY Sizes DEF Regs
    <3>2. QED
      BY <3>1, XPshrType
  <2>2. QED
    BY <2>1
<1>3. PICK g : Runs(n, XMachine, m, F, g)
  <2> HIDE DEF F, n
  <2>1. QED
    BY <1>1, <1>2, RunExists
<1>4. g \in [0..n -> XMachine] /\ g[0] = m /\ \A k \in 1..n : g[k] = F[k][g[k - 1]]
  BY <1>3 DEF Runs
<1>5. \A k \in 1..n : g[k] = XPshrStep(g[k - 1], mask, k - 1)
  <2> SUFFICES ASSUME NEW k \in 1..n PROVE g[k] = XPshrStep(g[k - 1], mask, k - 1)
    OBVIOUS
  <2>1. g[k - 1] \in XMachine
    BY <1>1, <1>4
  <2>2. QED
    BY <1>4, <2>1
<1> HIDE DEF F
<1>6. Q(g)
  <2>1. g = [k \in 0..n |-> g[k]]
    BY <1>4
  <2>2. \A k \in 0..n : g[k] = IF k = 0 THEN m ELSE XPshrStep(g[k - 1], mask, k - 1)
    BY <1>1, <1>4, <1>5
  <2> HIDE DEF n
  <2>3. QED
    BY <2>1, <2>2
<1> DEFINE f == CHOOSE h : Q(h)
<1>7. Q(f)
  BY <1>6
<1>8. X!pshr(m, mask) = f[n]
  BY XNames DEF X!pshr, XPshrStep
<1> HIDE DEF f
<1>9. f[0] = m /\ \A k \in 1..n : f[k] = XPshrStep(f[k - 1], mask, k - 1)
  <2> HIDE DEF n
  <2>1. QED
    BY <1>1, <1>7
<1>10. \A k \in 0..n : f[k] = g[k]
  <2> DEFINE S == {k \in 0..n : f[k] = g[k]}
  <2>1. 0 \in S
    BY <1>1, <1>4, <1>9
  <2>2. ASSUME NEW k \in 0..(n - 1), k \in S PROVE k + 1 \in S
    <3>1. k + 1 \in 1..n /\ (k + 1) - 1 = k /\ k + 1 \in 0..n
      BY <1>1
    <3>2. PICK j \in 1..n : j = k + 1 /\ j - 1 = k
      BY <3>1
    <3>3. f[j] = XPshrStep(f[j - 1], mask, j - 1) /\ g[j] = XPshrStep(g[j - 1], mask, j - 1)
      BY <1>5, <1>9
    <3>4. f[j] = g[j]
      BY <2>2, <3>2, <3>3
    <3>5. QED
      BY <3>1, <3>2, <3>4
  <2> HIDE DEF S
  <2>3. \A k \in 0..n : k \in S
    <3> HIDE DEF n
    <3>1. QED
      BY ONLY <1>1, <2>1, <2>2, UpTo
  <2>4. QED
    BY <2>3 DEF S
<1>11. X!pshr(m, mask) = g[n]
  BY <1>1, <1>8, <1>10
<1>12. QED
  BY <1>4, <1>5, <1>11

LEMMA PPshrRuns ==
  ASSUME NEW m \in PMachine, NEW mask
  PROVE  \E g \in [0..SP -> PMachine] :
           /\ g[0] = m /\ P!pshr(m, mask) = g[SP]
           /\ \A k \in 1..SP : g[k] = PPshrStep(g[k - 1], mask, k - 1)
<1> DEFINE n == SP
           Q(h) == h = [k \in 0..n |-> IF k = 0 THEN m ELSE PPshrStep(h[k - 1], mask, k - 1)]
           F == [k \in 1..n |-> [e \in PMachine |-> PPshrStep(e, mask, k - 1)]]
<1>1. n \in Nat
  BY Sizes
<1>2. \A k \in 1..n : F[k] \in [PMachine -> PMachine]
  <2>1. ASSUME NEW k \in 1..n, NEW e \in PMachine PROVE PPshrStep(e, mask, k - 1) \in PMachine
    <3>1. k - 1 \in Regs
      BY Sizes DEF Regs
    <3>2. QED
      BY <3>1, PPshrType
  <2>2. QED
    BY <2>1
<1>3. PICK g : Runs(n, PMachine, m, F, g)
  <2> HIDE DEF F, n
  <2>1. QED
    BY <1>1, <1>2, RunExists
<1>4. g \in [0..n -> PMachine] /\ g[0] = m /\ \A k \in 1..n : g[k] = F[k][g[k - 1]]
  BY <1>3 DEF Runs
<1>5. \A k \in 1..n : g[k] = PPshrStep(g[k - 1], mask, k - 1)
  <2> SUFFICES ASSUME NEW k \in 1..n PROVE g[k] = PPshrStep(g[k - 1], mask, k - 1)
    OBVIOUS
  <2>1. g[k - 1] \in PMachine
    BY <1>1, <1>4
  <2>2. QED
    BY <1>4, <2>1
<1> HIDE DEF F
<1>6. Q(g)
  <2>1. g = [k \in 0..n |-> g[k]]
    BY <1>4
  <2>2. \A k \in 0..n : g[k] = IF k = 0 THEN m ELSE PPshrStep(g[k - 1], mask, k - 1)
    BY <1>1, <1>4, <1>5
  <2> HIDE DEF n
  <2>3. QED
    BY <2>1, <2>2
<1> DEFINE f == CHOOSE h : Q(h)
<1>7. Q(f)
  BY <1>6
<1>8. P!pshr(m, mask) = f[n]
  BY PNames DEF P!pshr, PPshrStep
<1> HIDE DEF f
<1>9. f[0] = m /\ \A k \in 1..n : f[k] = PPshrStep(f[k - 1], mask, k - 1)
  <2> HIDE DEF n
  <2>1. QED
    BY <1>1, <1>7
<1>10. \A k \in 0..n : f[k] = g[k]
  <2> DEFINE S == {k \in 0..n : f[k] = g[k]}
  <2>1. 0 \in S
    BY <1>1, <1>4, <1>9
  <2>2. ASSUME NEW k \in 0..(n - 1), k \in S PROVE k + 1 \in S
    <3>1. k + 1 \in 1..n /\ (k + 1) - 1 = k /\ k + 1 \in 0..n
      BY <1>1
    <3>2. PICK j \in 1..n : j = k + 1 /\ j - 1 = k
      BY <3>1
    <3>3. f[j] = PPshrStep(f[j - 1], mask, j - 1) /\ g[j] = PPshrStep(g[j - 1], mask, j - 1)
      BY <1>5, <1>9
    <3>4. f[j] = g[j]
      BY <2>2, <3>2, <3>3
    <3>5. QED
      BY <3>1, <3>2, <3>4
  <2> HIDE DEF S
  <2>3. \A k \in 0..n : k \in S
    <3> HIDE DEF n
    <3>1. QED
      BY ONLY <1>1, <2>1, <2>2, UpTo
  <2>4. QED
    BY <2>3 DEF S
<1>11. P!pshr(m, mask) = g[n]
  BY <1>1, <1>8, <1>10
<1>12. QED
  BY <1>4, <1>5, <1>11

LEMMA XPoprRuns ==
  ASSUME NEW m \in XMachine, NEW mask
  PROVE  \E g \in [0..NREG -> XMachine] :
           /\ g[0] = m /\ X!popr(m, mask) = g[NREG]
           /\ \A k \in 1..NREG : g[k] = XPoprStep(g[k - 1], mask, NREG - k)
<1> DEFINE n == NREG
           Q(h) == h = [k \in 0..n |-> IF k = 0 THEN m ELSE XPoprStep(h[k - 1], mask, NREG - k)]
           F == [k \in 1..n |-> [e \in XMachine |-> XPoprStep(e, mask, NREG - k)]]
<1>1. n \in Nat
  BY Sizes
<1>2. \A k \in 1..n : F[k] \in [XMachine -> XMachine]
  <2>1. ASSUME NEW k \in 1..n, NEW e \in XMachine PROVE XPoprStep(e, mask, NREG - k) \in XMachine
    <3>1. NREG - k \in Regs
      BY Sizes DEF Regs
    <3>2. QED
      BY <3>1, XPoprType
  <2>2. QED
    BY <2>1
<1>3. PICK g : Runs(n, XMachine, m, F, g)
  <2> HIDE DEF F, n
  <2>1. QED
    BY <1>1, <1>2, RunExists
<1>4. g \in [0..n -> XMachine] /\ g[0] = m /\ \A k \in 1..n : g[k] = F[k][g[k - 1]]
  BY <1>3 DEF Runs
<1>5. \A k \in 1..n : g[k] = XPoprStep(g[k - 1], mask, NREG - k)
  <2> SUFFICES ASSUME NEW k \in 1..n PROVE g[k] = XPoprStep(g[k - 1], mask, NREG - k)
    OBVIOUS
  <2>1. g[k - 1] \in XMachine
    BY <1>1, <1>4
  <2>2. QED
    BY <1>4, <2>1
<1> HIDE DEF F
<1>6. Q(g)
  <2>1. g = [k \in 0..n |-> g[k]]
    BY <1>4
  <2>2. \A k \in 0..n : g[k] = IF k = 0 THEN m ELSE XPoprStep(g[k - 1], mask, NREG - k)
    BY <1>1, <1>4, <1>5
  <2> HIDE DEF n
  <2>3. QED
    BY <2>1, <2>2
<1> DEFINE f == CHOOSE h : Q(h)
<1>7. Q(f)
  BY <1>6
<1>8. X!popr(m, mask) = f[n]
  BY XNames DEF X!popr, XPoprStep
<1> HIDE DEF f
<1>9. f[0] = m /\ \A k \in 1..n : f[k] = XPoprStep(f[k - 1], mask, NREG - k)
  <2> HIDE DEF n
  <2>1. QED
    BY <1>1, <1>7
<1>10. \A k \in 0..n : f[k] = g[k]
  <2> DEFINE S == {k \in 0..n : f[k] = g[k]}
  <2>1. 0 \in S
    BY <1>1, <1>4, <1>9
  <2>2. ASSUME NEW k \in 0..(n - 1), k \in S PROVE k + 1 \in S
    <3>1. k + 1 \in 1..n /\ (k + 1) - 1 = k /\ k + 1 \in 0..n
      BY <1>1
    <3>2. PICK j \in 1..n : j = k + 1 /\ j - 1 = k
      BY <3>1
    <3>3. f[j] = XPoprStep(f[j - 1], mask, NREG - j) /\ g[j] = XPoprStep(g[j - 1], mask, NREG - j)
      BY <1>5, <1>9
    <3>4. f[j] = g[j]
      BY <2>2, <3>2, <3>3
    <3>5. QED
      BY <3>1, <3>2, <3>4
  <2> HIDE DEF S
  <2>3. \A k \in 0..n : k \in S
    <3> HIDE DEF n
    <3>1. QED
      BY ONLY <1>1, <2>1, <2>2, UpTo
  <2>4. QED
    BY <2>3 DEF S
<1>11. X!popr(m, mask) = g[n]
  BY <1>1, <1>8, <1>10
<1>12. QED
  BY <1>4, <1>5, <1>11

LEMMA PPoprRuns ==
  ASSUME NEW m \in PMachine, NEW mask
  PROVE  \E g \in [0..SP -> PMachine] :
           /\ g[0] = m /\ P!popr(m, mask) = g[SP]
           /\ \A k \in 1..SP : g[k] = PPoprStep(g[k - 1], mask, SP - k)
<1> DEFINE n == SP
           Q(h) == h = [k \in 0..n |-> IF k = 0 THEN m ELSE PPoprStep(h[k - 1], mask, SP - k)]
           F == [k \in 1..n |-> [e \in PMachine |-> PPoprStep(e, mask, SP - k)]]
<1>1. n \in Nat
  BY Sizes
<1>2. \A k \in 1..n : F[k] \in [PMachine -> PMachine]
  <2>1. ASSUME NEW k \in 1..n, NEW e \in PMachine PROVE PPoprStep(e, mask, SP - k) \in PMachine
    <3>1. SP - k \in Regs
      BY Sizes DEF Regs
    <3>2. QED
      BY <3>1, PPoprType
  <2>2. QED
    BY <2>1
<1>3. PICK g : Runs(n, PMachine, m, F, g)
  <2> HIDE DEF F, n
  <2>1. QED
    BY <1>1, <1>2, RunExists
<1>4. g \in [0..n -> PMachine] /\ g[0] = m /\ \A k \in 1..n : g[k] = F[k][g[k - 1]]
  BY <1>3 DEF Runs
<1>5. \A k \in 1..n : g[k] = PPoprStep(g[k - 1], mask, SP - k)
  <2> SUFFICES ASSUME NEW k \in 1..n PROVE g[k] = PPoprStep(g[k - 1], mask, SP - k)
    OBVIOUS
  <2>1. g[k - 1] \in PMachine
    BY <1>1, <1>4
  <2>2. QED
    BY <1>4, <2>1
<1> HIDE DEF F
<1>6. Q(g)
  <2>1. g = [k \in 0..n |-> g[k]]
    BY <1>4
  <2>2. \A k \in 0..n : g[k] = IF k = 0 THEN m ELSE PPoprStep(g[k - 1], mask, SP - k)
    BY <1>1, <1>4, <1>5
  <2> HIDE DEF n
  <2>3. QED
    BY <2>1, <2>2
<1> DEFINE f == CHOOSE h : Q(h)
<1>7. Q(f)
  BY <1>6
<1>8. P!popr(m, mask) = f[n]
  BY PNames DEF P!popr, PPoprStep
<1> HIDE DEF f
<1>9. f[0] = m /\ \A k \in 1..n : f[k] = PPoprStep(f[k - 1], mask, SP - k)
  <2> HIDE DEF n
  <2>1. QED
    BY <1>1, <1>7
<1>10. \A k \in 0..n : f[k] = g[k]
  <2> DEFINE S == {k \in 0..n : f[k] = g[k]}
  <2>1. 0 \in S
    BY <1>1, <1>4, <1>9
  <2>2. ASSUME NEW k \in 0..(n - 1), k \in S PROVE k + 1 \in S
    <3>1. k + 1 \in 1..n /\ (k + 1) - 1 = k /\ k + 1 \in 0..n
      BY <1>1
    <3>2. PICK j \in 1..n : j = k + 1 /\ j - 1 = k
      BY <3>1
    <3>3. f[j] = PPoprStep(f[j - 1], mask, SP - j) /\ g[j] = PPoprStep(g[j - 1], mask, SP - j)
      BY <1>5, <1>9
    <3>4. f[j] = g[j]
      BY <2>2, <3>2, <3>3
    <3>5. QED
      BY <3>1, <3>2, <3>4
  <2> HIDE DEF S
  <2>3. \A k \in 0..n : k \in S
    <3> HIDE DEF n
    <3>1. QED
      BY ONLY <1>1, <2>1, <2>2, UpTo
  <2>4. QED
    BY <2>3 DEF S
<1>11. P!popr(m, mask) = g[n]
  BY <1>1, <1>8, <1>10
<1>12. QED
  BY <1>4, <1>5, <1>11

-----------------------------------------------------------------------------
(* One step of either machine                                              *)

LEMMA XLoops ==
  ASSUME NEW m \in XMachine, NEW mask
  PROVE  X!pshr(m, mask) \in XMachine /\ X!popr(m, mask) \in XMachine
<1>1. X!pshr(m, mask) \in XMachine
  BY XPshrRuns, Sizes
<1>2. X!popr(m, mask) \in XMachine
  BY XPoprRuns, Sizes
<1>3. QED
  BY <1>1, <1>2

LEMMA PLoops ==
  ASSUME NEW m \in PMachine, NEW mask
  PROVE  P!pshr(m, mask) \in PMachine /\ P!popr(m, mask) \in PMachine
<1>1. SP \in 0..SP
  BY Sizes
<1>2. PICK g \in [0..SP -> PMachine] : P!pshr(m, mask) = g[SP]
  BY PPshrRuns
<1>3. PICK h \in [0..SP -> PMachine] : P!popr(m, mask) = h[SP]
  BY PPoprRuns
<1>4. QED
  BY <1>1, <1>2, <1>3

XOp(a) == a.image[a.pc][1]
POp(b) == b.image[b.pc % WORD][1]

LEMMA XStepCases ==
  ASSUME NEW a, a.status = "running"
  PROVE  /\ XOp(a) \in Binary => X!step(a) = X!binary(a, XOp(a))
         /\ XOp(a) \in Unary => X!step(a) = X!unary(a, XOp(a))
         /\ XOp(a) \in Branches \cup {"JMP"} => X!step(a) = X!branch(a, XOp(a))
         /\ XOp(a) \in Moves => X!step(a) = X!move(a, XOp(a))
         /\ XOp(a) \in Pushes => X!step(a) = X!push(a, XOp(a))
         /\ XOp(a) = "JSB" => X!step(a) = X!jsb(a)
         /\ XOp(a) = "RSB" => X!step(a) = X!rsb(a)
         /\ XOp(a) = "PSHR" => X!step(a) = X!Skip(X!pshr(a, X!imm(a, 1)), 3)
         /\ XOp(a) = "POPR" => X!step(a) = X!Skip(X!popr(a, X!imm(a, 1)), 3)
         /\ XOp(a) = "SVC" => X!step(a) = X!svc(X!Skip(a, 3), X!imm(a, 1))
         /\ XOp(a) \notin Opcodes => X!step(a) = X!Stop(a, 1)
<1>1. /\ X!Binary = Binary /\ X!Unary = Unary /\ X!Branches = Branches /\ X!Moves = Moves
      /\ X!Pushes = Pushes
  BY DEF X!Binary, Binary, X!Calcs, Calcs, X!Unary, Unary, X!Branches, Branches, X!Moves, Moves,
         X!Pushes, Pushes
<1> DEFINE op == XOp(a)
<1>2. X!step(a) = CASE op \in Binary -> X!binary(a, op)
         [] op \in Unary -> X!unary(a, op)
         [] op \in Branches \cup {"JMP"} -> X!branch(a, op)
         [] op \in Moves -> X!move(a, op)
         [] op \in Pushes -> X!push(a, op)
         [] op = "JSB" -> X!jsb(a)
         [] op = "RSB" -> X!rsb(a)
         [] op = "PSHR" -> X!Skip(X!pshr(a, X!imm(a, 1)), 3)
         [] op = "POPR" -> X!Skip(X!popr(a, X!imm(a, 1)), 3)
         [] op = "SVC" -> X!svc(X!Skip(a, 3), X!imm(a, 1))
         [] OTHER -> X!Stop(a, 1)
  BY <1>1 DEF X!step, XOp
<1> HIDE DEF op
<1>3. QED
  BY <1>2 DEF op, Binary, Calcs, Unary, Branches, Moves, Pushes, Opcodes

LEMMA PTickCases ==
  ASSUME NEW b, b.status = "running"
  PROVE  /\ POp(b) \in Binary => P!tick(b) = P!binary(b, POp(b))
         /\ POp(b) \in Unary => P!tick(b) = P!unary(b, POp(b))
         /\ POp(b) \in Branches \cup {"JMP"} => P!tick(b) = P!branch(b, POp(b))
         /\ POp(b) \in Moves => P!tick(b) = P!move(b, POp(b))
         /\ POp(b) \in Pushes => P!tick(b) = P!push(b, POp(b))
         /\ POp(b) = "JSB" => P!tick(b) = P!jsb(b)
         /\ POp(b) = "RSB" => P!tick(b) = P!rsb(b)
         /\ POp(b) = "PSHR" => P!tick(b) = P!Skip(P!pshr(b, P!get_word(b, 1)), 3)
         /\ POp(b) = "POPR" => P!tick(b) = P!Skip(P!popr(b, P!get_word(b, 1)), 3)
         /\ POp(b) = "SVC" => P!tick(b) = P!svc(b, P!get_word(b, 1))
         /\ POp(b) \notin Opcodes => P!tick(b) = P!Event(b)
<1>1. /\ P!Binary = Binary /\ P!Unary = Unary /\ P!Branches = Branches /\ P!Moves = Moves
      /\ P!Pushes = Pushes
  BY DEF P!Binary, Binary, P!Calcs, Calcs, P!Unary, Unary, P!Branches, Branches, P!Moves, Moves,
         P!Pushes, Pushes
<1> DEFINE op == POp(b)
<1>2. P!tick(b) = CASE op \in Binary -> P!binary(b, op)
         [] op \in Unary -> P!unary(b, op)
         [] op \in Branches \cup {"JMP"} -> P!branch(b, op)
         [] op \in Moves -> P!move(b, op)
         [] op \in Pushes -> P!push(b, op)
         [] op = "JSB" -> P!jsb(b)
         [] op = "RSB" -> P!rsb(b)
         [] op = "PSHR" -> P!Skip(P!pshr(b, P!get_word(b, 1)), 3)
         [] op = "POPR" -> P!Skip(P!popr(b, P!get_word(b, 1)), 3)
         [] op = "SVC" -> P!svc(b, P!get_word(b, 1))
         [] OTHER -> P!Event(b)
  BY <1>1, PNames DEF P!tick, POp, P!Cell
<1> HIDE DEF op
<1>3. QED
  BY <1>2 DEF op, Binary, Calcs, Unary, Branches, Moves, Pushes, Opcodes

LEMMA AllOps ==
  ASSUME NEW op, op \in Opcodes
  PROVE  op \in Binary \cup Unary \cup Branches \cup {"JMP"} \cup Moves \cup Pushes
               \cup {"JSB", "RSB", "PSHR", "POPR", "SVC"}
  BY DEF Opcodes

LEMMA XStop ==
  ASSUME NEW a \in XMachine
  PROVE  LET n == X!Stop(a, 1)
         IN  /\ n \in XMachine /\ n.regs = a.regs /\ n.pc = a.pc /\ n.cc = a.cc /\ n.image = a.image
             /\ n.status = "stopped"
<1> DEFINE n == X!Stop(a, 1)
<1>1. PICK d \in Int : d = 1
  OBVIOUS
<1>2. n = [a EXCEPT !.status = "stopped", !.code = d]
  BY <1>1 DEF X!Stop
<1> HIDE DEF n
<1>3. /\ n \in XMachine /\ n.regs = a.regs /\ n.pc = a.pc /\ n.cc = a.cc /\ n.image = a.image
      /\ n.status = "stopped"
  BY ONLY a \in XMachine, d \in Int, <1>2 DEF XMachine, Status
<1>4. QED
  BY <1>3 DEF n

LEMMA PEvent ==
  ASSUME NEW b \in PMachine
  PROVE  LET n == P!Event(b)
         IN  /\ n \in PMachine /\ n.regs = b.regs /\ n.pc = b.pc /\ n.cc = b.cc /\ n.image = b.image
             /\ n.last = b.last /\ n.status = "stopped"
<1> DEFINE n == P!Event(b)
<1>1. PICK d \in Int : d = 0
  OBVIOUS
<1>2. n = [b EXCEPT !.status = "stopped", !.code = d]
  BY <1>1 DEF P!Event
<1> HIDE DEF n
<1>3. /\ n \in PMachine /\ n.regs = b.regs /\ n.pc = b.pc /\ n.cc = b.cc /\ n.image = b.image
      /\ n.last = b.last /\ n.status = "stopped"
  BY ONLY b \in PMachine, d \in Int, <1>2 DEF PMachine, Status
<1>4. QED
  BY <1>3 DEF n

\* Whatever it executes, xemu stays a machine of words.
LEMMA XStepType ==
  ASSUME BitsByBit, NEW a \in XMachine
  PROVE  X!step(a) \in XMachine
<1>1. CASE a.status # "running"
  BY <1>1 DEF X!step
<1>2. CASE a.status = "running"
  <2> DEFINE op == XOp(a)
  <2>1. CASE op \in Binary
    BY <1>2, <2>1, XStepCases, XBinary
  <2>2. CASE op \in Unary
    BY <1>2, <2>2, XStepCases, XUnary
  <2>3. CASE op \in Branches \cup {"JMP"}
    BY <1>2, <2>3, XStepCases, XBranch
  <2>4. CASE op \in Moves
    BY <1>2, <2>4, XStepCases, XMove
  <2>5. CASE op \in Pushes
    BY <1>2, <2>5, XStepCases, XPush, ZenonT(40)
  <2>6. CASE op = "JSB"
    BY <1>2, <2>6, XStepCases, XJsb
  <2>7. CASE op = "RSB"
    BY <1>2, <2>7, XStepCases, XRsb
  <2>8. CASE op \in {"PSHR", "POPR"}
    BY <1>2, <2>8, XStepCases, XLoops, XSkip
  <2>9. CASE op = "SVC"
    <3>1. X!imm(a, 1) \in Word
      BY XFetch
    <3>2. X!Skip(a, 3) \in XMachine
      BY XSkip
    <3>3. X!svc(X!Skip(a, 3), X!imm(a, 1)) \in XMachine
      BY <3>1, <3>2, XSvc
    <3>4. QED
      BY <1>2, <2>9, <3>3, XStepCases
  <2>10. CASE op \notin Opcodes
    BY <1>2, <2>10, XStepCases, XStop
  <2>11. QED
    BY <2>1, <2>2, <2>3, <2>4, <2>5, <2>6, <2>7, <2>8, <2>9, <2>10, AllOps
<1>3. QED
  BY <1>1, <1>2

LEMMA PTickType ==
  ASSUME BitsByBit, NEW b \in PMachine
  PROVE  P!tick(b) \in PMachine
<1>1. CASE b.status # "running"
  BY <1>1 DEF P!tick
<1>2. CASE b.status = "running"
  <2> DEFINE op == POp(b)
  <2>1. CASE op \in Binary
    BY <1>2, <2>1, PTickCases, PBinary
  <2>2. CASE op \in Unary
    BY <1>2, <2>2, PTickCases, PUnary
  <2>3. CASE op \in Branches \cup {"JMP"}
    BY <1>2, <2>3, PTickCases, PBranch
  <2>4. CASE op \in Moves
    <3>1. P!move(b, op) \in PMachine
      BY <2>4, PMove
    <3>2. QED
      BY <1>2, <2>4, <3>1, PTickCases
  <2>5. CASE op \in Pushes
    <3>1. P!push(b, op) \in PMachine
      BY <2>5, PPush
    <3>2. QED
      BY <1>2, <2>5, <3>1, PTickCases
  <2>6. CASE op = "JSB"
    BY <1>2, <2>6, PTickCases, PJsb
  <2>7. CASE op = "RSB"
    BY <1>2, <2>7, PTickCases, PRsb
  <2>8. CASE op \in {"PSHR", "POPR"}
    BY <1>2, <2>8, PTickCases, PLoops, PSkip
  <2>9. CASE op = "SVC"
    <3>1. P!get_word(b, 1) \in Int
      BY PFetch
    <3>2. QED
      BY <1>2, <2>9, <3>1, PTickCases, PSvc
  <2>10. CASE op \notin Opcodes
    BY <1>2, <2>10, PTickCases, PEvent
  <2>11. QED
    BY <2>1, <2>2, <2>3, <2>4, <2>5, <2>6, <2>7, <2>8, <2>9, <2>10, AllOps
<1>3. QED
  BY <1>1, <1>2

-----------------------------------------------------------------------------
(* The two machines, instruction by instruction                            *)

Alike(a, b) ==
  /\ Sim(a, b)
  /\ a.status = b.status
  /\ a.status = "running" => b.pc % WORD = a.pc
  /\ Inexact(b.last) \/ a.cc = b.cc

Keeps(a, b) == a.status = "undefined" \/ Alike(a, b)

LEMMA Agreement ==
  ASSUME NEW b, ~ Differs(b)
  PROVE  /\ POp(b) \in {"DIV", "MOD", "ASR"} => ~ (Wide(POperand(b, 1)) \/ Wide(POperand(b, 2)))
         /\ POp(b) = "ASL" => ~ Wide(POperand(b, 2))
         /\ POp(b) \in Branches => ~ Inexact(b.last)
         /\ POp(b) \in {"PSHR", "POPR"} => ~ Bit(P!get_word(b, 1) % WORD, SP)
         /\ POp(b) = "SVC" => P!get_word(b, 1) # 1
<1>1. P!Cell(b, b.pc)[1] = POp(b)
  BY PNames DEF P!Cell, POp
<1>2. QED
  BY <1>1 DEF Differs, POperand, MONITOR

LEMMA OneRegister ==
  ASSUME NEW f \in [Regs -> Word], NEW g \in [Regs -> Int], \A q \in Regs : g[q] % WORD = f[q],
         NEW r \in Regs, NEW v, NEW w, v % WORD = w
  PROVE  \A q \in Regs : [g EXCEPT ![r] = v][q] % WORD = [f EXCEPT ![r] = w][q]
  OBVIOUS

\* Both machines are at the same place, k bytes further on.
LEMMA Onward ==
  ASSUME NEW v \in Int, NEW w \in Word, v % WORD = w, NEW k \in Int
  PROVE  (v + k) % WORD = (w + k) % WORD
<1>1. w \in Int /\ v % WORD = w % WORD
  BY WordInt
<1>2. QED
  BY <1>1, Near

LEMMA SimFields ==
  ASSUME NEW a, NEW b, Sim(a, b)
  PROVE  /\ a \in XMachine /\ b \in PMachine /\ b.image = a.image
         /\ a.regs \in [Regs -> Word] /\ b.regs \in [Regs -> Int]
         /\ \A r \in Regs : b.regs[r] % WORD = a.regs[r]
         /\ a.pc \in Word /\ b.pc \in Int
  BY XFields, PFields DEF Sim

LEMMA SameOperands ==
  ASSUME NEW a, NEW b, Sim(a, b), b.pc % WORD = a.pc, NEW k \in Nat
  PROVE  /\ POperand(b, k) \in Int /\ POperand(b, k) % WORD = a.regs[X!reg(a, k)]
         /\ a.regs[X!reg(a, k)] \in Word
  BY Fetches, SimFields DEF POperand

\* The results of a calculation in the two machines.
LEMMA SameResults ==
  ASSUME BitsByBit, NEW a, NEW b, Sim(a, b), b.pc % WORD = a.pc, NEW op \in Ops, POp(b) = op,
         ~ Differs(b)
  PROVE  /\ op \notin Unary => Defined(op, XOperand(a, 2)) = Defined(op, POperand(b, 2))
         /\ op \in Unary \/ Defined(op, POperand(b, 2)) =>
              /\ PResult(b, op) \in Int /\ PResult(b, op) % WORD = XResult(a, op)
              /\ XResult(a, op) \in Word
<1>1. PICK l \in Int, u \in Word : l = POperand(b, 1) /\ u = a.regs[X!reg(a, 1)] /\ l % WORD = u
  BY SameOperands
<1>2. PICK r \in Int, w \in Word : r = POperand(b, 2) /\ w = a.regs[X!reg(a, 2)] /\ r % WORD = w
  BY SameOperands
<1>3. op \in {"DIV", "MOD", "ASR"} => ~ (Wide(l) \/ Wide(r))
  BY <1>1, <1>2, Agreement
<1>4. op = "ASL" => ~ Wide(r)
  BY <1>1, <1>2, Agreement
<1>5. CASE op \notin Unary
  <2>1. /\ Defined(op, Signed(w)) = Defined(op, r)
        /\ Defined(op, r) => /\ Exact(op, l, r) \in Int /\ Exact(op, Signed(u), Signed(w)) \in Int
                             /\ Exact(op, l, r) % WORD = Exact(op, Signed(u), Signed(w)) % WORD
    BY <1>1, <1>2, <1>3, <1>4, Operations
  <2>2. XResult(a, op) = Exact(op, Signed(u), Signed(w)) % WORD /\ PResult(b, op) = HostInt(Exact(op, l, r))
    BY <1>1, <1>2, <1>5 DEF XResult, PResult, XOperand
  <2>3. ASSUME Defined(op, r)
        PROVE  /\ HostInt(Exact(op, l, r)) \in Int
               /\ HostInt(Exact(op, l, r)) % WORD = Exact(op, Signed(u), Signed(w)) % WORD
               /\ Exact(op, Signed(u), Signed(w)) % WORD \in Word
    BY <2>1, <2>3, HostInts, WordMod
  <2>4. XOperand(a, 2) = Signed(w)
    BY <1>2 DEF XOperand
  <2>5. QED
    BY <1>2, <1>5, <2>1, <2>2, <2>3, <2>4
<1>6. CASE op \in Unary
  <2>1. 0 \in Word /\ 0 \in Int /\ 0 % WORD = 0 /\ Signed(0) = 0 /\ Defined(op, 0)
    <3>1. 0 \in Word /\ HALF > 0
      BY Sizes
    <3>2. 0 % WORD = 0
      BY <3>1, WordInt
    <3>3. QED
      BY <1>6, <3>1, <3>2, Sizes DEF Signed, SignBit, Defined, Unary
  <2>2. PICK z \in Word, y \in Int : z = 0 /\ y = 0 /\ y % WORD = z /\ Signed(z) = 0
    BY <2>1
  <2>3. op \notin {"DIV", "MOD", "ASR"} /\ op # "ASL"
    BY <1>6 DEF Unary
  <2>4. /\ Defined(op, y) => /\ Exact(op, l, y) \in Int /\ Exact(op, Signed(u), Signed(z)) \in Int
                             /\ Exact(op, l, y) % WORD = Exact(op, Signed(u), Signed(z)) % WORD
    BY <1>1, <2>2, <2>3, Operations
  <2>5. /\ Exact(op, l, 0) \in Int /\ Exact(op, Signed(u), 0) \in Int
        /\ Exact(op, l, 0) % WORD = Exact(op, Signed(u), 0) % WORD
    BY <2>1, <2>2, <2>4
  <2>6. XResult(a, op) = Exact(op, Signed(u), 0) % WORD /\ PResult(b, op) = HostInt(Exact(op, l, 0))
    BY <1>1, <1>6 DEF XResult, PResult, XOperand
  <2>7. /\ HostInt(Exact(op, l, 0)) \in Int
        /\ HostInt(Exact(op, l, 0)) % WORD = Exact(op, Signed(u), 0) % WORD
        /\ Exact(op, Signed(u), 0) % WORD \in Word
    BY <2>5, HostInts, WordMod
  <2>8. QED
    BY <1>6, <2>6, <2>7
<1>7. QED
  BY <1>5, <1>6

LEMMA LockBinary ==
  ASSUME BitsByBit, NEW a, NEW b, Alike(a, b), a.status = "running", NEW op \in Binary,
         POp(b) = op, ~ Differs(b)
  PROVE  Keeps(X!binary(a, op), P!binary(b, op))
<1> DEFINE m == X!binary(a, op)
           n == P!binary(b, op)
           v == PResult(b, op)
           w == XResult(a, op)
           r == P!get_reg(b, 1)
<1>1. Sim(a, b) /\ b.pc % WORD = a.pc
  BY DEF Alike
<1>2. /\ a \in XMachine /\ b \in PMachine /\ b.image = a.image
      /\ a.regs \in [Regs -> Word] /\ b.regs \in [Regs -> Int]
      /\ \A q \in Regs : b.regs[q] % WORD = a.regs[q]
      /\ a.pc \in Word /\ b.pc \in Int
  BY <1>1, SimFields
<1>3. op \in Ops /\ op \notin Unary
  BY DEF Ops, Binary, Calcs, Unary
<1>4. CASE ~ Defined(op, XOperand(a, 2))
  BY <1>2, <1>4, XBinary DEF Keeps
<1>5. CASE Defined(op, XOperand(a, 2))
  <2>1. Defined(op, POperand(b, 2)) /\ v \in Int /\ v % WORD = w
    BY <1>1, <1>3, <1>5, SameResults
  <2>2. X!reg(a, 1) = r /\ r \in Regs
    BY <1>1, Fetches
  <2>3. /\ m \in XMachine
        /\ m.regs = IF op = "CMP" THEN a.regs ELSE [a.regs EXCEPT ![r] = w]
        /\ m.pc = (a.pc + 3) % WORD /\ m.cc = X!ConditionCode(w) /\ m.image = a.image
        /\ m.status = a.status
    BY <1>2, <1>5, <2>2, XBinary
  <2>4. /\ n \in PMachine
        /\ n.regs = IF op = "CMP" THEN b.regs ELSE [b.regs EXCEPT ![r] = v]
        /\ n.pc = b.pc + 3 /\ n.cc = P!calc_cc(v) /\ n.last = v /\ n.image = b.image
        /\ n.status = b.status
    BY <1>2, <2>1, PBinary
  <2>5. Inexact(v) \/ X!ConditionCode(w) = P!calc_cc(v)
    BY <2>1, Codes
  <2>6. (b.pc + 3) % WORD = (a.pc + 3) % WORD
    BY <1>1, <1>2, Onward
  <2> HIDE DEF m, n, v, w, r
  <2>7. \A q \in Regs : [b.regs EXCEPT ![r] = v][q] % WORD = [a.regs EXCEPT ![r] = w][q]
    BY <1>2, <2>1, <2>2, OneRegister
  <2>8. \A q \in Regs : n.regs[q] % WORD = m.regs[q]
    BY <1>2, <2>3, <2>4, <2>7
  <2>9. Sim(m, n)
    BY <1>2, <2>3, <2>4, <2>8 DEF Sim
  <2>10. a.status = b.status
    BY DEF Alike
  <2>11. Alike(m, n)
    BY <2>3, <2>4, <2>5, <2>6, <2>9, <2>10 DEF Alike
  <2>12. QED
    BY <2>11 DEF Keeps, m, n
<1>6. QED
  BY <1>4, <1>5

LEMMA LockUnary ==
  ASSUME BitsByBit, NEW a, NEW b, Alike(a, b), a.status = "running", NEW op \in Unary,
         POp(b) = op, ~ Differs(b)
  PROVE  Keeps(X!unary(a, op), P!unary(b, op))
<1> DEFINE m == X!unary(a, op)
           n == P!unary(b, op)
           v == PResult(b, op)
           w == XResult(a, op)
           r == P!get_reg(b, 1)
<1>1. Sim(a, b) /\ b.pc % WORD = a.pc /\ a.status = b.status
  BY DEF Alike
<1>2. /\ a \in XMachine /\ b \in PMachine /\ b.image = a.image
      /\ a.regs \in [Regs -> Word] /\ b.regs \in [Regs -> Int]
      /\ \A q \in Regs : b.regs[q] % WORD = a.regs[q]
      /\ a.pc \in Word /\ b.pc \in Int
  BY <1>1, SimFields
<1>3. v \in Int /\ v % WORD = w
  BY <1>1, SameResults DEF Ops
<1>4. X!reg(a, 1) = r /\ r \in Regs
  BY <1>1, Fetches
<1>5. /\ m \in XMachine
      /\ m.regs = [a.regs EXCEPT ![r] = w]
      /\ m.pc = (a.pc + 2) % WORD /\ m.cc = X!ConditionCode(w) /\ m.image = a.image
      /\ m.status = a.status
  BY <1>2, <1>4, XUnary
<1>6. /\ n \in PMachine
      /\ n.regs = [b.regs EXCEPT ![r] = v]
      /\ n.pc = b.pc + 2 /\ n.cc = P!calc_cc(v) /\ n.last = v /\ n.image = b.image
      /\ n.status = b.status
  BY <1>2, PUnary
<1>7. Inexact(v) \/ X!ConditionCode(w) = P!calc_cc(v)
  BY <1>3, Codes
<1>8. (b.pc + 2) % WORD = (a.pc + 2) % WORD
  BY <1>1, <1>2, Onward
<1> HIDE DEF m, n, v, w, r
<1>9. \A q \in Regs : n.regs[q] % WORD = m.regs[q]
  BY <1>2, <1>3, <1>4, <1>5, <1>6, OneRegister
<1>10. Sim(m, n)
  BY <1>2, <1>5, <1>6, <1>9 DEF Sim
<1>11. Alike(m, n)
  BY <1>1, <1>5, <1>6, <1>7, <1>8, <1>10 DEF Alike
<1>12. QED
  BY <1>11 DEF Keeps, m, n

LEMMA LockBranch ==
  ASSUME NEW a, NEW b, Alike(a, b), a.status = "running", NEW op \in Branches \cup {"JMP"},
         POp(b) = op, ~ Differs(b)
  PROVE  Keeps(X!branch(a, op), P!branch(b, op))
<1> DEFINE m == X!branch(a, op)
           n == P!branch(b, op)
<1>1. Sim(a, b) /\ b.pc % WORD = a.pc /\ a.status = b.status
  BY DEF Alike
<1>2. /\ a \in XMachine /\ b \in PMachine /\ b.image = a.image
      /\ \A q \in Regs : b.regs[q] % WORD = a.regs[q]
      /\ a.pc \in Word /\ b.pc \in Int
  BY <1>1, SimFields
<1>3. op # "JMP" => X!Taken(a.cc, op) = P!test_cc(b.cc, op)
  <2>1. op # "JMP" => a.cc = b.cc
    BY Agreement DEF Alike
  <2>2. QED
    BY <2>1 DEF X!Taken, P!test_cc, Branches
<1>4. P!get_ea(b, 1) % WORD = X!ea(a, 1)
  BY <1>1, Effective
<1>5. (b.pc + 4) % WORD = (a.pc + 4) % WORD
  BY <1>1, <1>2, Onward
<1>6. /\ m \in XMachine /\ m.regs = a.regs /\ m.cc = a.cc /\ m.image = a.image /\ m.status = a.status
      /\ m.pc = IF op = "JMP" \/ X!Taken(a.cc, op) THEN X!ea(a, 1) ELSE (a.pc + 4) % WORD
  BY <1>2, XBranch
<1>7. /\ n \in PMachine /\ n.regs = b.regs /\ n.cc = b.cc /\ n.image = b.image /\ n.status = b.status
      /\ n.pc = IF op = "JMP" \/ P!test_cc(b.cc, op) THEN P!get_ea(b, 1) ELSE b.pc + 4
      /\ n.last = b.last
  BY <1>2, PBranch
<1> HIDE DEF m, n
<1>8. n.pc % WORD = m.pc
  BY <1>3, <1>4, <1>5, <1>6, <1>7
<1>9. Sim(m, n)
  BY <1>2, <1>6, <1>7 DEF Sim
<1>10. Alike(m, n)
  BY <1>1, <1>6, <1>7, <1>8, <1>9 DEF Alike
<1>11. QED
  BY <1>10 DEF Keeps, m, n

\* A word of memory that is in the image.
LEMMA SameWord ==
  ASSUME NEW a, NEW b, Sim(a, b), NEW v \in Int, NEW e \in Word, v % WORD = e, X!InImage(e)
  PROVE  P!ReadWord(b, v) % WORD = X!WordAt(a, e)
<1>1. a \in XMachine /\ b \in PMachine /\ b.image = a.image
  BY SimFields
<1>2. X!WordAt(a, e) = a.image[e][2] * BYTE + a.image[e + 1][2] /\ e + 1 \in Word
  BY <1>1, WordAts
<1>3. (e + 1) % WORD = e + 1
  BY <1>2, WordInt
<1>4. (v + 1) % WORD = (e + 1) % WORD
  BY Onward
<1>5. P!ReadWord(b, v) % WORD = b.image[v % WORD][2] * BYTE + b.image[(v + 1) % WORD][2]
  BY <1>1, Reads
<1>6. QED
  BY <1>1, <1>2, <1>3, <1>4, <1>5

LEMMA SameValues ==
  ASSUME NEW a, NEW b, Sim(a, b), b.pc % WORD = a.pc, NEW op \in Moves \cup Pushes,
         NEW v \in Int, NEW e \in Word, v % WORD = e, Touches(op) => X!InImage(e)
  PROVE  PValue(b, op, v) \in Int /\ PValue(b, op, v) % WORD = XValue(a, op, e)
<1>1. a \in XMachine /\ b \in PMachine /\ b.image = a.image
  BY SimFields
<1>2. PValue(b, op, v) \in Int
  BY <1>1, PValues
<1>3. CASE op \in {"LDA", "PSHA"}
  BY <1>2, <1>3 DEF PValue, XValue
<1>4. CASE op \in {"LDB", "PSHB"}
  <2>1. P!ReadByte(b, v) = Char(b.image[v % WORD][2])
    BY <1>1, Reads
  <2>2. XValue(a, op, e) = Char(a.image[e][2]) % WORD
    BY <1>4, XNames DEF XValue, X!Val
  <2>3. QED
    BY <1>1, <1>2, <1>4, <2>1, <2>2 DEF PValue
<1>5. CASE op \in {"LDW", "PSHW"}
  <2>1. P!ReadWord(b, v) % WORD = X!WordAt(a, e)
    BY <1>5, SameWord DEF Touches
  <2>2. QED
    BY <1>2, <1>5, <2>1 DEF PValue, XValue
<1>6. CASE op \in {"STB", "STW"}
  <2>1. POperand(b, 1) % WORD = a.regs[X!reg(a, 1)]
    BY SameOperands
  <2>2. QED
    BY <1>2, <1>6, <2>1 DEF PValue, XValue, POperand
<1>7. QED
  BY <1>3, <1>4, <1>5, <1>6 DEF Moves, Pushes

LEMMA LockMove ==
  ASSUME NEW a, NEW b, Alike(a, b), a.status = "running", NEW op \in Moves
  PROVE  Keeps(X!move(a, op), P!move(b, op))
<1> DEFINE m == X!move(a, op)
           n == P!move(b, op)
           d == P!get_ea(b, 2)
           e == X!ea(a, 2)
           v == PValue(b, op, d)
           w == XValue(a, op, e)
           r == P!get_reg(b, 1)
<1>1. Sim(a, b) /\ b.pc % WORD = a.pc /\ a.status = b.status
  BY DEF Alike
<1>2. /\ a \in XMachine /\ b \in PMachine /\ b.image = a.image
      /\ a.regs \in [Regs -> Word] /\ b.regs \in [Regs -> Int]
      /\ \A q \in Regs : b.regs[q] % WORD = a.regs[q]
      /\ a.pc \in Word /\ b.pc \in Int
  BY <1>1, SimFields
<1>3. d \in Int /\ d % WORD = e /\ e \in Word
  BY <1>1, Effective
<1>4. CASE ~ (Touches(op) => X!InImage(e))
  BY <1>2, <1>4, XMove DEF Keeps
<1>5. CASE Touches(op) => X!InImage(e)
  <2>1. v \in Int /\ v % WORD = w
    BY <1>1, <1>3, <1>5, SameValues
  <2>2. X!reg(a, 1) = r /\ r \in Regs
    BY <1>1, Fetches
  <2>3. /\ m \in XMachine
        /\ m.regs = IF op \in {"STB", "STW"} THEN a.regs ELSE [a.regs EXCEPT ![r] = w]
        /\ m.pc = (a.pc + 5) % WORD /\ m.cc = X!ConditionCode(w) /\ m.status = a.status
        /\ m.image = CASE op = "STB" -> [a.image EXCEPT ![e] = <<"num", Lo(w)>>]
                       [] op = "STW" -> Stored(a.image, e, w)
                       [] OTHER -> a.image
    BY <1>2, <1>5, <2>2, XMove
  <2>4. /\ n \in PMachine
        /\ n.regs = IF op \in {"STB", "STW"} THEN b.regs ELSE [b.regs EXCEPT ![r] = v]
        /\ n.pc = b.pc + 5 /\ n.cc = P!calc_cc(v) /\ n.last = v /\ n.status = b.status
        /\ n.image = CASE op = "STB" -> [b.image EXCEPT ![d % WORD] = <<"num", Lo(v % WORD)>>]
                       [] op = "STW" -> Stored(b.image, d % WORD, v % WORD)
                       [] OTHER -> b.image
    BY <1>2, PMove
  <2>5. Inexact(v) \/ X!ConditionCode(w) = P!calc_cc(v)
    BY <2>1, Codes
  <2>6. (b.pc + 5) % WORD = (a.pc + 5) % WORD
    BY <1>1, <1>2, Onward
  <2> HIDE DEF m, n, d, e, v, w, r
  <2>7. \A q \in Regs : [b.regs EXCEPT ![r] = v][q] % WORD = [a.regs EXCEPT ![r] = w][q]
    BY <1>2, <2>1, <2>2, OneRegister
  <2>8. \A q \in Regs : n.regs[q] % WORD = m.regs[q]
    BY <1>2, <2>3, <2>4, <2>7
  <2>9. n.image = m.image
    BY <1>2, <1>3, <2>1, <2>3, <2>4
  <2>10. Sim(m, n)
    BY <2>3, <2>4, <2>8, <2>9 DEF Sim
  <2>11. Alike(m, n)
    BY <1>1, <2>3, <2>4, <2>5, <2>6, <2>10 DEF Alike
  <2>12. QED
    BY <2>11 DEF Keeps, m, n
<1>6. QED
  BY <1>4, <1>5

\* A push and a pop of the two machines.
LEMMA PushPair ==
  ASSUME NEW a, NEW b, Sim(a, b), NEW v \in Int, NEW w \in Word, v % WORD = w
  PROVE  \/ X!Pushed(a, w).status = "undefined"
         \/ Sim(X!Pushed(a, w), P!Pushed(b, v)) /\ X!Pushed(a, w).status = a.status
<1> DEFINE m == X!Pushed(a, w)
           n == P!Pushed(b, v)
           s == (a.regs[SP] - 2) % WORD
           t == HostInt(b.regs[SP] - 2)
<1>1. /\ a \in XMachine /\ b \in PMachine /\ b.image = a.image
      /\ a.regs \in [Regs -> Word] /\ b.regs \in [Regs -> Int]
      /\ \A q \in Regs : b.regs[q] % WORD = a.regs[q]
      /\ SP \in Regs
  BY SimFields, Sizes
<1>2. CASE ~ X!InImage(s)
  BY <1>1, <1>2, XPushes
<1>3. CASE X!InImage(s)
  <2>1. /\ m \in XMachine /\ m.regs = [a.regs EXCEPT ![SP] = s] /\ m.image = Stored(a.image, s, w)
        /\ m.status = a.status
    BY <1>1, <1>3, XPushes
  <2>2. /\ n \in PMachine /\ t % WORD = (b.regs[SP] - 2) % WORD /\ n.regs = [b.regs EXCEPT ![SP] = t]
        /\ n.image = Stored(b.image, t % WORD, v % WORD)
    BY <1>1, PPushes
  <2>3. (b.regs[SP] - 2) % WORD = (a.regs[SP] - 2) % WORD
    <3>1. PICK i \in Int, j \in Word : i = b.regs[SP] /\ j = a.regs[SP] /\ i % WORD = j
      BY <1>1
    <3>2. j \in Int /\ i % WORD = j % WORD
      BY <3>1, WordInt
    <3>3. (i - 2) % WORD = (j - 2) % WORD
      BY <3>2, Near
    <3>4. QED
      BY <3>1, <3>3
  <2>4. t % WORD = s
    BY <2>2, <2>3
  <2> HIDE DEF m, n, s, t
  <2>5. \A q \in Regs : n.regs[q] % WORD = m.regs[q]
    BY <1>1, <2>1, <2>2, <2>4, OneRegister
  <2>6. Sim(m, n)
    BY <1>1, <2>1, <2>2, <2>4, <2>5 DEF Sim
  <2>7. QED
    BY <2>1, <2>6 DEF m, n
<1>4. QED
  BY <1>2, <1>3

LEMMA PopPair ==
  ASSUME NEW a, NEW b, Sim(a, b), NEW r \in Regs
  PROVE  \/ X!Popped(a, r).status = "undefined"
         \/ Sim(X!Popped(a, r), P!Popped(b, r)) /\ X!Popped(a, r).status = a.status
<1> DEFINE m == X!Popped(a, r)
           n == P!Popped(b, r)
           s == a.regs[SP]
           u == b.regs[SP]
           s2 == (s + 2) % WORD
           u2 == HostInt(u + 2)
           w == X!WordAt(a, s)
           v == P!ReadWord(b, u)
<1>1. /\ a \in XMachine /\ b \in PMachine /\ b.image = a.image
      /\ a.regs \in [Regs -> Word] /\ b.regs \in [Regs -> Int]
      /\ \A q \in Regs : b.regs[q] % WORD = a.regs[q]
      /\ SP \in Regs
  BY SimFields, Sizes
<1>2. s \in Word /\ u \in Int /\ u % WORD = s
  BY <1>1
<1>3. CASE ~ X!InImage(s)
  BY <1>1, <1>3, XPops
<1>4. CASE X!InImage(s)
  <2>1. /\ m \in XMachine /\ m.regs = [[a.regs EXCEPT ![SP] = s2] EXCEPT ![r] = w]
        /\ m.image = a.image /\ m.status = a.status
    BY <1>1, <1>4, XPops
  <2>2. /\ n \in PMachine /\ n.regs = [[b.regs EXCEPT ![SP] = u2] EXCEPT ![r] = v]
        /\ u2 \in Int /\ u2 % WORD = (u + 2) % WORD
        /\ n.image = b.image
    BY <1>1, PPops
  <2>3. v % WORD = w
    BY <1>2, <1>4, SameWord
  <2>4. u2 % WORD = s2
    BY <1>2, <2>2, Onward
  <2> DEFINE f == [a.regs EXCEPT ![SP] = s2]
             g == [b.regs EXCEPT ![SP] = u2]
  <2>5. s2 \in Word
    BY <1>2, WordInt, WordMod, s + 2 \in Int
  <2> HIDE DEF m, n, s, u, s2, u2, w, v
  <2>6. f \in [Regs -> Word] /\ g \in [Regs -> Int]
    BY <1>1, <2>2, <2>5
  <2>7. \A q \in Regs : g[q] % WORD = f[q]
    BY <1>1, <2>4, OneRegister
  <2>8. m.regs = [f EXCEPT ![r] = w] /\ n.regs = [g EXCEPT ![r] = v]
    BY <2>1, <2>2
  <2> HIDE DEF f, g
  <2>9. \A q \in Regs : n.regs[q] % WORD = m.regs[q]
    BY <2>3, <2>6, <2>7, <2>8, OneRegister
  <2>10. Sim(m, n)
    BY <1>1, <2>1, <2>2, <2>9 DEF Sim
  <2>11. QED
    BY <2>1, <2>10 DEF m, n
<1>5. QED
  BY <1>3, <1>4

LEMMA LockPush ==
  ASSUME NEW a, NEW b, Alike(a, b), a.status = "running", NEW op \in Pushes
  PROVE  Keeps(X!push(a, op), P!push(b, op))
<1> DEFINE m == X!push(a, op)
           n == P!push(b, op)
           d == P!get_ea(b, 1)
           e == X!ea(a, 1)
           v == PValue(b, op, d)
           w == XValue(a, op, e)
           s == (a.regs[SP] - 2) % WORD
           t == HostInt(b.regs[SP] - 2)
<1>1. Sim(a, b) /\ b.pc % WORD = a.pc /\ a.status = b.status
  BY DEF Alike
<1>2. /\ a \in XMachine /\ b \in PMachine /\ b.image = a.image
      /\ a.regs \in [Regs -> Word] /\ b.regs \in [Regs -> Int]
      /\ \A q \in Regs : b.regs[q] % WORD = a.regs[q]
      /\ a.pc \in Word /\ b.pc \in Int /\ SP \in Regs
  BY <1>1, SimFields, Sizes
<1>3. d \in Int /\ d % WORD = e /\ e \in Word
  BY <1>1, Effective
<1>4. CASE ~ ((Touches(op) => X!InImage(e)) /\ X!InImage(s))
  BY <1>2, <1>4, XPush DEF Keeps
<1>5. CASE (Touches(op) => X!InImage(e)) /\ X!InImage(s)
  <2>1. v \in Int /\ v % WORD = w
    BY <1>1, <1>3, <1>5, SameValues
  <2>2. /\ m \in XMachine /\ m.regs = [a.regs EXCEPT ![SP] = s]
        /\ m.pc = (a.pc + 4) % WORD /\ m.cc = X!ConditionCode(w) /\ m.status = a.status
        /\ m.image = Stored(a.image, s, w)
    BY <1>2, <1>5, XPush
  <2>3. /\ n \in PMachine /\ t \in Int /\ t % WORD = (b.regs[SP] - 2) % WORD
        /\ n.regs = [b.regs EXCEPT ![SP] = t]
        /\ n.pc = b.pc + 4 /\ n.cc = P!calc_cc(v) /\ n.last = v /\ n.status = b.status
        /\ n.image = Stored(b.image, t % WORD, v % WORD)
    BY <1>2, PPush
  <2>4. Inexact(v) \/ X!ConditionCode(w) = P!calc_cc(v)
    BY <2>1, Codes
  <2>5. (b.pc + 4) % WORD = (a.pc + 4) % WORD
    BY <1>1, <1>2, Onward
  <2>6. (b.regs[SP] - 2) % WORD = (a.regs[SP] - 2) % WORD
    <3>1. PICK i \in Int, j \in Word : i = b.regs[SP] /\ j = a.regs[SP] /\ i % WORD = j
      BY <1>2
    <3>2. j \in Int /\ i % WORD = j % WORD
      BY <3>1, WordInt
    <3>3. (i - 2) % WORD = (j - 2) % WORD
      BY <3>2, Near
    <3>4. QED
      BY <3>1, <3>3
  <2>7. t % WORD = s
    BY <2>3, <2>6
  <2> HIDE DEF m, n, d, e, v, w, s, t
  <2>8. \A q \in Regs : n.regs[q] % WORD = m.regs[q]
    BY <1>2, <2>2, <2>3, <2>7, OneRegister
  <2>9. Sim(m, n)
    BY <1>2, <2>1, <2>2, <2>3, <2>7, <2>8 DEF Sim
  <2>10. Alike(m, n)
    BY <1>1, <2>2, <2>3, <2>4, <2>5, <2>9 DEF Alike
  <2>11. QED
    BY <2>10 DEF Keeps, m, n
<1>6. QED
  BY <1>4, <1>5

LEMMA LockJsb ==
  ASSUME NEW a, NEW b, Alike(a, b), a.status = "running"
  PROVE  Keeps(X!jsb(a), P!jsb(b))
<1> DEFINE m == X!jsb(a)
           n == P!jsb(b)
           w == (a.pc + 4) % WORD
           v == b.pc + 4
           f == X!Pushed(a, w)
           g == P!Pushed(b, v)
<1>1. Sim(a, b) /\ b.pc % WORD = a.pc /\ a.status = b.status /\ (Inexact(b.last) \/ a.cc = b.cc)
  BY DEF Alike
<1>2. a \in XMachine /\ b \in PMachine /\ a.pc \in Word /\ b.pc \in Int
  BY <1>1, SimFields
<1>3. v \in Int /\ w \in Word /\ v % WORD = w
  <2>1. v \in Int
    BY <1>2
  <2>2. v % WORD = w
    BY <1>1, <1>2, Onward
  <2>3. QED
    BY <2>1, <2>2, WordMod
<1>4. f.status = "undefined" \/ (Sim(f, g) /\ f.status = a.status)
  BY <1>1, <1>3, PushPair
<1>5. P!get_ea(b, 1) % WORD = X!ea(a, 1)
  BY <1>1, Effective
<1>6. /\ m \in XMachine /\ m.pc = X!ea(a, 1) /\ m.cc = a.cc /\ m.regs = f.regs /\ m.image = f.image
      /\ m.status = f.status
  BY <1>2, XJsb
<1>7. /\ n \in PMachine /\ n.pc = P!get_ea(b, 1) /\ n.cc = b.cc /\ n.last = b.last
      /\ n.regs = g.regs /\ n.image = g.image /\ n.status = g.status
  BY <1>2, PJsb
<1>8. g.status = b.status
  BY <1>2, <1>3, PPushes
<1> HIDE DEF m, n, w, v, f, g
<1>9. CASE f.status = "undefined"
  BY <1>6, <1>9 DEF Keeps, m
<1>10. CASE Sim(f, g) /\ f.status = a.status
  <2>1. Sim(m, n)
    BY <1>6, <1>7, <1>10 DEF Sim
  <2>2. Alike(m, n)
    BY <1>1, <1>5, <1>6, <1>7, <1>8, <1>10, <2>1 DEF Alike
  <2>3. QED
    BY <2>2 DEF Keeps, m, n
<1>11. QED
  BY <1>4, <1>9, <1>10

LEMMA LockRsb ==
  ASSUME NEW a, NEW b, Alike(a, b), a.status = "running"
  PROVE  Keeps(X!rsb(a), P!rsb(b))
<1> DEFINE m == X!rsb(a)
           n == P!rsb(b)
           s == a.regs[SP]
           u == b.regs[SP]
           s2 == (s + 2) % WORD
           u2 == HostInt(u + 2)
<1>1. Sim(a, b) /\ a.status = b.status /\ (Inexact(b.last) \/ a.cc = b.cc)
  BY DEF Alike
<1>2. /\ a \in XMachine /\ b \in PMachine /\ b.image = a.image
      /\ a.regs \in [Regs -> Word] /\ b.regs \in [Regs -> Int]
      /\ \A q \in Regs : b.regs[q] % WORD = a.regs[q]
      /\ SP \in Regs
  BY <1>1, SimFields, Sizes
<1>3. s \in Word /\ u \in Int /\ u % WORD = s
  BY <1>2
<1>4. CASE ~ X!InImage(s)
  BY <1>2, <1>4, XRsb DEF Keeps
<1>5. CASE X!InImage(s)
  <2>1. /\ m \in XMachine /\ m.pc = X!WordAt(a, s) /\ m.cc = a.cc
        /\ m.regs = [a.regs EXCEPT ![SP] = s2] /\ m.image = a.image /\ m.status = a.status
    BY <1>2, <1>5, XRsb
  <2>2. /\ n \in PMachine /\ u2 \in Int /\ u2 % WORD = (u + 2) % WORD
        /\ n.pc = P!ReadWord(b, u) /\ n.cc = b.cc /\ n.last = b.last
        /\ n.regs = [b.regs EXCEPT ![SP] = u2] /\ n.image = b.image /\ n.status = b.status
    BY <1>2, PRsb
  <2>3. P!ReadWord(b, u) % WORD = X!WordAt(a, s)
    BY <1>1, <1>3, <1>5, SameWord
  <2>4. u2 % WORD = s2
    BY <1>3, <2>2, Onward
  <2> HIDE DEF m, n, s, u, s2, u2
  <2>5. \A q \in Regs : n.regs[q] % WORD = m.regs[q]
    BY <1>2, <2>1, <2>2, <2>4, OneRegister
  <2>6. Sim(m, n)
    BY <1>2, <2>1, <2>2, <2>5 DEF Sim
  <2>7. Alike(m, n)
    BY <1>1, <2>1, <2>2, <2>3, <2>6 DEF Alike
  <2>8. QED
    BY <2>7 DEF Keeps, m, n
<1>6. QED
  BY <1>4, <1>5

\* What the loops of PSHR and POPR leave alone, and what both machines have
\* in common after them.
Loop(a, b, m, n) ==
  /\ m \in XMachine /\ n \in PMachine
  /\ m.pc = a.pc /\ m.cc = a.cc
  /\ n.pc = b.pc /\ n.cc = b.cc /\ n.last = b.last /\ n.status = b.status
  /\ m.status = "undefined" \/ (Sim(m, n) /\ m.status = a.status)

LEMMA LoopPush ==
  ASSUME NEW a, NEW b, NEW m, NEW n, Loop(a, b, m, n), NEW r \in Regs
  PROVE  Loop(a, b, X!Pushed(m, m.regs[r]), P!Pushed(n, n.regs[r]))
<1>1. m \in XMachine /\ n \in PMachine
  BY DEF Loop
<1>2. PICK w \in Word, v \in Int : w = m.regs[r] /\ v = n.regs[r]
  BY <1>1, XFields, PFields
<1> DEFINE f == X!Pushed(m, w)
           g == P!Pushed(n, v)
<1>3. /\ f \in XMachine /\ f.pc = m.pc /\ f.cc = m.cc
      /\ f.status = m.status \/ f.status = "undefined"
  BY <1>1, XPushes
<1>4. /\ g \in PMachine /\ g.pc = n.pc /\ g.cc = n.cc /\ g.last = n.last /\ g.status = n.status
  BY <1>1, PPushes
<1>5. Sim(m, n) => f.status = "undefined" \/ (Sim(f, g) /\ f.status = m.status)
  <2> SUFFICES ASSUME Sim(m, n) PROVE f.status = "undefined" \/ (Sim(f, g) /\ f.status = m.status)
    OBVIOUS
  <2>1. v % WORD = w
    BY <1>2, SimFields
  <2>2. QED
    BY <2>1, PushPair
<1> HIDE DEF f, g
<1>6. Loop(a, b, f, g)
  BY <1>3, <1>4, <1>5 DEF Loop
<1>7. QED
  BY <1>2, <1>6 DEF f, g

LEMMA LoopPop ==
  ASSUME NEW a, NEW b, NEW m, NEW n, Loop(a, b, m, n), NEW r \in Regs
  PROVE  Loop(a, b, X!Popped(m, r), P!Popped(n, r))
<1>1. m \in XMachine /\ n \in PMachine
  BY DEF Loop
<1> DEFINE f == X!Popped(m, r)
           g == P!Popped(n, r)
<1>2. /\ f \in XMachine /\ f.pc = m.pc /\ f.cc = m.cc
      /\ f.status = m.status \/ f.status = "undefined"
  BY <1>1, XPops
<1>3. /\ g \in PMachine /\ g.pc = n.pc /\ g.cc = n.cc /\ g.last = n.last /\ g.status = n.status
  BY <1>1, PPops
<1>4. Sim(m, n) => f.status = "undefined" \/ (Sim(f, g) /\ f.status = m.status)
  BY PopPair
<1> HIDE DEF f, g
<1>5. Loop(a, b, f, g)
  BY <1>2, <1>3, <1>4 DEF Loop
<1>6. QED
  BY <1>5 DEF f, g

LEMMA LoopDone ==
  ASSUME NEW a, NEW b, NEW m, NEW n, Loop(a, b, m, n), Alike(a, b), a.status = "running"
  PROVE  Keeps(X!Skip(m, 3), P!Skip(n, 3))
<1> DEFINE f == X!Skip(m, 3)
           g == P!Skip(n, 3)
<1>1. m \in XMachine /\ n \in PMachine
  BY DEF Loop
<1>2. /\ f \in XMachine /\ f.pc = (m.pc + 3) % WORD /\ f.regs = m.regs /\ f.cc = m.cc
      /\ f.image = m.image /\ f.status = m.status
  BY <1>1, XSkip
<1>3. /\ g \in PMachine /\ g.pc = n.pc + 3 /\ g.regs = n.regs /\ g.cc = n.cc
      /\ g.image = n.image /\ g.status = n.status /\ g.last = n.last
  BY <1>1, PSkip
<1>4. b.pc % WORD = a.pc /\ a.status = b.status /\ (Inexact(b.last) \/ a.cc = b.cc)
  BY DEF Alike
<1>5. (n.pc + 3) % WORD = (m.pc + 3) % WORD
  <2>1. n.pc \in Int /\ m.pc \in Word /\ n.pc % WORD = m.pc
    BY <1>1, <1>4, XFields, PFields DEF Loop
  <2>2. QED
    BY <2>1, Onward
<1> HIDE DEF f, g
<1>6. CASE m.status = "undefined"
  BY <1>2, <1>6 DEF Keeps, f
<1>7. CASE Sim(m, n) /\ m.status = a.status
  <2>1. Sim(f, g)
    BY <1>2, <1>3, <1>7 DEF Sim
  <2>2. Alike(f, g)
    BY <1>2, <1>3, <1>4, <1>5, <1>7, <2>1 DEF Alike, Loop
  <2>3. QED
    BY <2>2 DEF Keeps, f, g
<1>8. QED
  BY <1>6, <1>7 DEF Loop

LEMMA LoopPshr ==
  ASSUME NEW a0, NEW b0, NEW a, NEW b, Loop(a0, b0, a, b),
         NEW mask, NEW word, word % WORD = mask, ~ Bit(mask, SP)
  PROVE  Loop(a0, b0, X!pshr(a, mask), P!pshr(b, word))
<1>2. a \in XMachine /\ b \in PMachine
  BY DEF Loop
<1>3. word % WORD = mask /\ ~ Bit(mask, SP)
  OBVIOUS
<1>4. PICK g \in [0..NREG -> XMachine] :
        /\ g[0] = a /\ X!pshr(a, mask) = g[NREG]
        /\ \A k \in 1..NREG : g[k] = XPshrStep(g[k - 1], mask, k - 1)
  BY <1>2, XPshrRuns
<1>5. PICK h \in [0..SP -> PMachine] :
        /\ h[0] = b /\ P!pshr(b, word) = h[SP]
        /\ \A k \in 1..SP : h[k] = PPshrStep(h[k - 1], word, k - 1)
  BY <1>2, PPshrRuns
<1>6. SP \in Nat /\ NREG = SP + 1 /\ NREG \in Nat /\ Regs = 0..SP
  BY Sizes DEF Regs
<1> DEFINE S == {k \in 0..SP : Loop(a0, b0, g[k], h[k])}
<1>7. 0 \in S
  <2>1. Loop(a0, b0, a, b)
    OBVIOUS
  <2>2. QED
    BY <1>4, <1>5, <1>6, <2>1
<1>8. ASSUME NEW k \in 0..(SP - 1), k \in S PROVE k + 1 \in S
  <2>1. k \in Regs /\ k # SP /\ k + 1 \in 1..SP /\ k + 1 \in 1..NREG /\ (k + 1) - 1 = k
        /\ k + 1 \in 0..SP
    BY <1>6
  <2>2. PICK j \in 1..SP : j = k + 1 /\ j \in 1..NREG /\ j - 1 = k
    BY <2>1
  <2>3. g[j] = XPshrStep(g[k], mask, k) /\ h[j] = PPshrStep(h[k], word, k)
    BY <1>4, <1>5, <2>2
  <2>4. Loop(a0, b0, g[k], h[k])
    BY <1>8
  <2>5. X!Bit(mask, k) = Bit(mask, k) /\ P!Bit(word % WORD, k) = Bit(mask, k)
    BY <1>3, XNames, PNames
  <2>6. Loop(a0, b0, X!Pushed(g[k], g[k].regs[k]), P!Pushed(h[k], h[k].regs[k]))
    BY <2>1, <2>4, LoopPush
  <2>7. CASE Bit(mask, k)
    <3>1. g[j] = X!Pushed(g[k], g[k].regs[k]) /\ h[j] = P!Pushed(h[k], h[k].regs[k])
      BY <2>1, <2>3, <2>5, <2>7 DEF XPshrStep, PPshrStep
    <3>2. QED
      BY <2>1, <2>2, <2>6, <3>1
  <2>8. CASE ~ Bit(mask, k)
    <3>1. g[j] = g[k] /\ h[j] = h[k]
      BY <2>3, <2>5, <2>8 DEF XPshrStep, PPshrStep
    <3>2. QED
      BY <2>1, <2>2, <2>4, <3>1
  <2>9. QED
    BY <2>7, <2>8
<1> HIDE DEF S
<1>9. SP \in S
  <2>1. \A k \in 0..SP : k \in S
    BY ONLY <1>6, <1>7, <1>8, UpTo
  <2>2. QED
    BY <1>6, <2>1
<1>10. g[NREG] = g[SP]
  <2>1. NREG \in 1..NREG /\ NREG - 1 = SP
    BY <1>6
  <2>2. g[NREG] = XPshrStep(g[SP], mask, SP)
    BY <1>4, <2>1
  <2>3. ~ X!Bit(mask, SP)
    BY <1>3, XNames
  <2>4. QED
    BY <2>2, <2>3 DEF XPshrStep
<1>11. QED
  BY <1>4, <1>5, <1>9, <1>10 DEF S

LEMMA LockPshr ==
  ASSUME NEW a, NEW b, Alike(a, b), a.status = "running",
         ~ Bit(P!get_word(b, 1) % WORD, SP)
  PROVE  Keeps(X!Skip(X!pshr(a, X!imm(a, 1)), 3), P!Skip(P!pshr(b, P!get_word(b, 1)), 3))
<1>1. Sim(a, b) /\ b.pc % WORD = a.pc /\ a.status = b.status
  BY DEF Alike
<1>2. a \in XMachine /\ b \in PMachine
  BY <1>1, SimFields
<1>3. PICK mask, word : mask = X!imm(a, 1) /\ word = P!get_word(b, 1) /\ word % WORD = mask
  BY <1>1, Fetches
<1>4. Loop(a, b, a, b)
  BY <1>1, <1>2 DEF Loop
<1>5. ~ Bit(mask, SP)
  BY <1>3
<1>6. Loop(a, b, X!pshr(a, mask), P!pshr(b, word))
  BY <1>3, <1>4, <1>5, LoopPshr
<1>7. QED
  BY <1>3, <1>6, LoopDone

LEMMA LoopPopr ==
  ASSUME NEW a0, NEW b0, NEW a, NEW b, Loop(a0, b0, a, b),
         NEW mask, NEW word, word % WORD = mask, ~ Bit(mask, SP)
  PROVE  Loop(a0, b0, X!popr(a, mask), P!popr(b, word))
<1>2. a \in XMachine /\ b \in PMachine
  BY DEF Loop
<1>3. word % WORD = mask /\ ~ Bit(mask, SP)
  OBVIOUS
<1>4. PICK g \in [0..NREG -> XMachine] :
        /\ g[0] = a /\ X!popr(a, mask) = g[NREG]
        /\ \A k \in 1..NREG : g[k] = XPoprStep(g[k - 1], mask, NREG - k)
  BY <1>2, XPoprRuns
<1>5. PICK h \in [0..SP -> PMachine] :
        /\ h[0] = b /\ P!popr(b, word) = h[SP]
        /\ \A k \in 1..SP : h[k] = PPoprStep(h[k - 1], word, SP - k)
  BY <1>2, PPoprRuns
<1>6. SP \in Nat /\ NREG = SP + 1 /\ NREG \in Nat /\ Regs = 0..SP
  BY Sizes DEF Regs
<1>7. g[1] = a
  <2>1. 1 \in 1..NREG /\ NREG - 1 = SP /\ 1 - 1 = 0
    BY <1>6
  <2>2. g[1] = XPoprStep(g[0], mask, SP)
    BY <1>4, <2>1
  <2>3. ~ X!Bit(mask, SP)
    BY <1>3, XNames
  <2>4. QED
    BY <1>4, <2>2, <2>3 DEF XPoprStep
<1> DEFINE S == {k \in 0..SP : Loop(a0, b0, g[k + 1], h[k])}
<1>8. 0 \in S
  <2>1. Loop(a0, b0, a, b)
    OBVIOUS
  <2>2. QED
    BY <1>5, <1>6, <1>7, <2>1
<1>9. ASSUME NEW k \in 0..(SP - 1), k \in S PROVE k + 1 \in S
  <2>1. PICK j \in 1..SP : j = k + 1 /\ j - 1 = k
    BY <1>6
  <2>2. PICK i \in 1..NREG : i = j + 1 /\ i - 1 = j /\ NREG - i = SP - j
    BY <1>6
  <2>3. PICK r \in Regs : r = SP - j
    BY <1>6
  <2>4. g[i] = XPoprStep(g[j], mask, r) /\ h[j] = PPoprStep(h[k], word, r)
    BY <1>4, <1>5, <2>1, <2>2, <2>3
  <2>5. Loop(a0, b0, g[j], h[k])
    BY <1>9, <2>1
  <2>6. X!Bit(mask, r) = Bit(mask, r) /\ P!Bit(word % WORD, r) = Bit(mask, r)
    BY <1>3, XNames, PNames
  <2>7. Loop(a0, b0, X!Popped(g[j], r), P!Popped(h[k], r))
    BY <2>5, LoopPop
  <2>8. Loop(a0, b0, g[i], h[j])
    BY <2>4, <2>5, <2>6, <2>7 DEF XPoprStep, PPoprStep
  <2>9. QED
    BY <1>6, <2>1, <2>2, <2>8
<1> HIDE DEF S
<1>10. SP \in S
  <2>1. \A k \in 0..SP : k \in S
    BY ONLY <1>6, <1>8, <1>9, UpTo
  <2>2. QED
    BY <1>6, <2>1
<1>11. QED
  BY <1>4, <1>5, <1>6, <1>10 DEF S

LEMMA LockPopr ==
  ASSUME NEW a, NEW b, Alike(a, b), a.status = "running",
         ~ Bit(P!get_word(b, 1) % WORD, SP)
  PROVE  Keeps(X!Skip(X!popr(a, X!imm(a, 1)), 3), P!Skip(P!popr(b, P!get_word(b, 1)), 3))
<1>1. Sim(a, b) /\ b.pc % WORD = a.pc /\ a.status = b.status
  BY DEF Alike
<1>2. a \in XMachine /\ b \in PMachine
  BY <1>1, SimFields
<1>3. PICK mask, word : mask = X!imm(a, 1) /\ word = P!get_word(b, 1) /\ word % WORD = mask
  BY <1>1, Fetches
<1>4. Loop(a, b, a, b)
  BY <1>1, <1>2 DEF Loop
<1>5. ~ Bit(mask, SP)
  BY <1>3
<1>6. Loop(a, b, X!popr(a, mask), P!popr(b, word))
  BY <1>3, <1>4, <1>5, LoopPopr
<1>7. QED
  BY <1>3, <1>6, LoopDone

LEMMA LockSvc ==
  ASSUME NEW a, NEW b, Alike(a, b), a.status = "running", P!get_word(b, 1) # 1
  PROVE  Keeps(X!svc(X!Skip(a, 3), X!imm(a, 1)), P!svc(b, P!get_word(b, 1)))
<1>1. Sim(a, b) /\ b.pc % WORD = a.pc /\ a.status = b.status /\ (Inexact(b.last) \/ a.cc = b.cc)
  BY DEF Alike
<1>2. /\ a \in XMachine /\ b \in PMachine /\ b.image = a.image
      /\ a.regs \in [Regs -> Word] /\ b.regs \in [Regs -> Int]
      /\ \A q \in Regs : b.regs[q] % WORD = a.regs[q]
      /\ a.pc \in Word /\ b.pc \in Int /\ 1 \in Regs
  BY <1>1, SimFields, Sizes
<1>3. PICK i \in Int, w \in Word : i = P!get_word(b, 1) /\ w = X!imm(a, 1) /\ i % WORD = w
  BY <1>1, Fetches
<1>4. /\ w = 0 <=> i = 0
      /\ w \in {1, 2, 3} => i = w
      /\ i \in {1, 2, 3} => i = w
  <2>1. PICK c \in 0..(BYTE - 1), d \in 0..(BYTE - 1) : i = Char(c) * BYTE + d
    <3> DEFINE v == b.pc + 1
               c == b.image[v % WORD][2]
               d == b.image[(v + 1) % WORD][2]
    <3>1. v \in Int /\ v + 1 \in Int
      BY <1>2
    <3>2. c \in 0..(BYTE - 1) /\ d \in 0..(BYTE - 1)
      BY <1>2, <3>1, PFields, Cells
    <3>3. P!get_word(b, 1) = Char(c) * BYTE + d
      BY PNames DEF P!get_word, P!ReadWord, P!ReadByte, P!Cell, P!Val
    <3> HIDE DEF c, d
    <3>4. QED
      BY <1>3, <3>2, <3>3
  <2>2. PICK n \in Nat : n = BYTE /\ n >= 4
    BY Sizes
  <2>3. ~ Wide(i)
    <3>1. PICK h \in Nat : n = 2 * h
      <4>1. n % 2 = 0
        BY <2>2, ByteAssumption
      <4>2. n = 2 * (n \div 2) /\ n \div 2 \in Nat
        BY <4>1
      <4>3. QED
        BY <4>2
    <3>2. HALF = n * h /\ HALF \in Nat
      <4>1. WORD = n * n /\ WORD = 2 * HALF /\ HALF \in Nat
        BY <2>2, Sizes
      <4>2. n * n = 2 * (n * h)
        BY <3>1
      <4>3. QED
        BY <4>1, <4>2
    <3>3. n \div 2 = h
      BY <3>1
    <3>4. PICK e \in Int : e = Char(c) /\ -h <= e /\ e <= h - 1
      <4>1. c \in Int /\ c >= 0 /\ c <= n - 1
        BY <2>2
      <4>2. Char(c) = IF c >= h THEN c - n ELSE c
        BY <2>2, <3>3 DEF Char
      <4>3. Char(c) \in Int /\ -h <= Char(c) /\ Char(c) <= h - 1
        <5>1. CASE c >= h
          BY <3>1, <4>1, <4>2, <5>1
        <5>2. CASE ~ (c >= h)
          BY <3>1, <4>1, <4>2, <5>2
        <5>3. QED
          BY <5>1, <5>2
      <4>4. QED
        BY <4>3
    <3>5. n * e <= n * (h - 1) /\ n * e >= n * (-h)
      BY <2>2, <3>4
    <3>6. n * (h - 1) = n * h - n /\ n * (-h) = -(n * h) /\ e * n = n * e
      BY <2>2, <3>4
    <3>7. i = e * n + d /\ d >= 0 /\ d <= n - 1
      BY <2>1, <2>2, <3>4
    <3>8. n * h \in Int /\ n * e \in Int
      BY <2>2, <3>4
    <3>9. i <= n * h - 1 /\ i >= -(n * h)
      BY <2>2, <3>5, <3>6, <3>7, <3>8
    <3>10. QED
      BY <3>2, <3>9 DEF Wide
  <2>4. Signed(w) = i
    BY <1>3, <2>3, NotWide
  <2>5. w \in Nat /\ HALF > 3 /\ HALF \in Nat /\ WORD = 2 * HALF /\ w < WORD
    BY WordInt, Sizes
  <2>6. QED
    BY <2>4, <2>5 DEF Signed, SignBit
<1> DEFINE e == X!Skip(a, 3)
           m == X!svc(e, w)
           n == P!svc(b, i)
<1>5. /\ e \in XMachine /\ e.pc = (a.pc + 3) % WORD
      /\ e.regs = a.regs /\ e.cc = a.cc /\ e.image = a.image /\ e.status = a.status
  BY <1>2, XSkip
<1> HIDE DEF e
<1>6. /\ m \in XMachine
      /\ w # 0 \/ X!InImage(e.regs[1]) =>
           /\ m.cc = e.cc /\ m.pc = e.pc /\ m.image = e.image
           /\ m.regs = IF w \in Answers THEN [e.regs EXCEPT ![1] = Service(w, e.regs[1]) % WORD]
                       ELSE e.regs
           /\ m.status = IF w \in {1, 2, 3} THEN e.status ELSE "stopped"
      /\ ~ (w # 0 \/ X!InImage(e.regs[1])) => m.status = "undefined"
  BY <1>5, XSvc
<1>7. /\ n \in PMachine
      /\ n.cc = b.cc /\ n.last = b.last /\ n.image = b.image
      /\ n.pc = IF i \in Answers THEN b.pc + 3 ELSE b.pc
      /\ n.regs = IF i \in Answers THEN [b.regs EXCEPT ![1] = Service(i, b.regs[1] % WORD)]
                  ELSE b.regs
      /\ n.status = IF i \in Answers THEN b.status ELSE "stopped"
  BY <1>2, PSvc
<1> HIDE DEF m, n
<1>8. (b.pc + 3) % WORD = (a.pc + 3) % WORD
  BY <1>1, <1>2, Onward
<1>9. i \in Answers <=> w \in {2, 3}
  BY <1>4 DEF Answers
<1>10. i # 1 /\ w # 1
  BY <1>3, <1>4
<1>11. w \in Answers <=> w \in {2, 3}
  BY WordInt DEF Answers
<1>12. CASE ~ (w # 0 \/ X!InImage(e.regs[1]))
  BY <1>3, <1>6, <1>12 DEF Keeps, m, e
<1>13. CASE w # 0 \/ X!InImage(e.regs[1])
  <2>1. CASE i \in Answers
    <3>1. w = i /\ w \in Answers /\ w \in {1, 2, 3}
      BY <1>4, <1>9, <1>11, <2>1
    <3>2. PICK v : v = Service(w, a.regs[1])
      OBVIOUS
    <3>3. m.regs = [a.regs EXCEPT ![1] = v % WORD] /\ m.status = a.status /\ m.pc = (a.pc + 3) % WORD
          /\ m.cc = a.cc /\ m.image = a.image
      BY <1>5, <1>6, <1>13, <3>1, <3>2
    <3>4. n.regs = [b.regs EXCEPT ![1] = v] /\ n.status = b.status /\ n.pc = b.pc + 3
      BY <1>2, <1>7, <2>1, <3>1, <3>2
    <3>5. \A q \in Regs : n.regs[q] % WORD = m.regs[q]
      BY <1>2, <3>3, <3>4, OneRegister
    <3>6. Sim(m, n)
      BY <1>2, <1>6, <1>7, <3>3, <3>5 DEF Sim
    <3>7. Alike(m, n)
      BY <1>1, <1>7, <1>8, <3>3, <3>4, <3>6 DEF Alike
    <3>8. QED
      BY <1>3, <3>7 DEF Keeps, m, n, e
  <2>2. CASE i \notin Answers
    <3>1. w \notin Answers /\ w \notin {1, 2, 3}
      BY <1>9, <1>10, <1>11, <2>2
    <3>2. m.regs = a.regs /\ m.status = "stopped" /\ m.cc = a.cc /\ m.image = a.image
      BY <1>5, <1>6, <1>13, <3>1
    <3>3. n.regs = b.regs /\ n.status = "stopped"
      BY <1>7, <2>2
    <3>4. Sim(m, n)
      BY <1>2, <1>6, <1>7, <3>2, <3>3 DEF Sim
    <3>5. Alike(m, n)
      BY <1>1, <1>7, <3>2, <3>3, <3>4 DEF Alike
    <3>6. QED
      BY <1>3, <3>5 DEF Keeps, m, n, e
  <2>3. QED
    BY <2>1, <2>2
<1>14. QED
  BY <1>12, <1>13

LEMMA LockStop ==
  ASSUME NEW a, NEW b, Alike(a, b), a.status = "running"
  PROVE  Keeps(X!Stop(a, 1), P!Event(b))
<1> DEFINE m == X!Stop(a, 1)
           n == P!Event(b)
<1>1. Sim(a, b) /\ (Inexact(b.last) \/ a.cc = b.cc)
  BY DEF Alike
<1>2. /\ a \in XMachine /\ b \in PMachine /\ b.image = a.image
      /\ \A q \in Regs : b.regs[q] % WORD = a.regs[q]
  BY <1>1, SimFields
<1>3. /\ m \in XMachine /\ m.regs = a.regs /\ m.cc = a.cc /\ m.image = a.image
      /\ m.status = "stopped"
  BY <1>2, XStop
<1>4. /\ n \in PMachine /\ n.regs = b.regs /\ n.cc = b.cc /\ n.image = b.image
      /\ n.last = b.last /\ n.status = "stopped"
  BY <1>2, PEvent
<1> HIDE DEF m, n
<1>5. Sim(m, n)
  BY <1>2, <1>3, <1>4 DEF Sim
<1>6. Alike(m, n)
  BY <1>1, <1>3, <1>4, <1>5 DEF Alike
<1>7. QED
  BY <1>6 DEF Keeps, m, n

\* One instruction of each: the machines stay alike, or xemu has left its
\* image.
LEMMA LockStep ==
  ASSUME BitsByBit, NEW a, NEW b, Alike(a, b), ~ Differs(b)
  PROVE  Keeps(X!step(a), P!tick(b))
<1>1. Sim(a, b) /\ a.status = b.status /\ (a.status = "running" => b.pc % WORD = a.pc)
  BY DEF Alike
<1>2. CASE a.status # "running"
  <2>1. X!step(a) = a /\ P!tick(b) = b
    BY <1>1, <1>2 DEF X!step, P!tick
  <2>2. QED
    BY <2>1 DEF Keeps
<1>3. CASE a.status = "running"
  <2>1. b.status = "running" /\ XOp(a) = POp(b)
    BY <1>1, <1>3, SimFields DEF XOp, POp
  <2> DEFINE op == POp(b)
  <2>2. CASE op \in Binary
    <3>1. X!step(a) = X!binary(a, op) /\ P!tick(b) = P!binary(b, op)
      BY <1>3, <2>1, <2>2, XStepCases, PTickCases
    <3>2. QED
      BY <1>3, <2>2, <3>1, LockBinary
  <2>3. CASE op \in Unary
    <3>1. X!step(a) = X!unary(a, op) /\ P!tick(b) = P!unary(b, op)
      BY <1>3, <2>1, <2>3, XStepCases, PTickCases
    <3>2. QED
      BY <1>3, <2>3, <3>1, LockUnary
  <2>4. CASE op \in Branches \cup {"JMP"}
    <3>1. X!step(a) = X!branch(a, op) /\ P!tick(b) = P!branch(b, op)
      BY <1>3, <2>1, <2>4, XStepCases, PTickCases
    <3>2. QED
      BY <1>3, <2>4, <3>1, LockBranch
  <2>5. CASE op \in Moves
    <3>1. X!step(a) = X!move(a, op) /\ P!tick(b) = P!move(b, op)
      BY <1>3, <2>1, <2>5, XStepCases, PTickCases
    <3>2. QED
      BY <1>3, <2>5, <3>1, LockMove
  <2>6. CASE op \in Pushes
    <3>1. X!step(a) = X!push(a, op) /\ P!tick(b) = P!push(b, op)
      BY <1>3, <2>1, <2>6, XStepCases, PTickCases
    <3>2. QED
      BY <1>3, <2>6, <3>1, LockPush
  <2>7. CASE op = "JSB"
    BY <1>3, <2>1, <2>7, XStepCases, PTickCases, LockJsb
  <2>8. CASE op = "RSB"
    BY <1>3, <2>1, <2>8, XStepCases, PTickCases, LockRsb
  <2>9. CASE op = "PSHR"
    <3>1. ~ Bit(P!get_word(b, 1) % WORD, SP)
      BY <2>9, Agreement
    <3>2. QED
      BY <1>3, <2>1, <2>9, <3>1, XStepCases, PTickCases, LockPshr
  <2>10. CASE op = "POPR"
    <3>1. ~ Bit(P!get_word(b, 1) % WORD, SP)
      BY <2>10, Agreement
    <3>2. QED
      BY <1>3, <2>1, <2>10, <3>1, XStepCases, PTickCases, LockPopr
  <2>11. CASE op = "SVC"
    <3>1. P!get_word(b, 1) # 1
      BY <2>11, Agreement
    <3>2. QED
      BY <1>3, <2>1, <2>11, <3>1, XStepCases, PTickCases, LockSvc
  <2>12. CASE op \notin Opcodes
    BY <1>3, <2>1, <2>12, XStepCases, PTickCases, LockStop
  <2>13. QED
    BY <2>2, <2>3, <2>4, <2>5, <2>6, <2>7, <2>8, <2>9, <2>10, <2>11, <2>12, AllOps
<1>4. QED
  BY <1>2, <1>3

-----------------------------------------------------------------------------
(* The arguments of a program: where pushArgs puts what                    *)

LEMMA UsedRuns ==
  ASSUME NEW lens \in Seq(Nat)
  PROVE  \E g \in [0..Len(lens) -> Nat] :
           /\ g[0] = 0
           /\ \A k \in 1..Len(lens) : g[k] = g[k - 1] + lens[k] + 1
           /\ \A k \in 0..Len(lens) : Used(lens, k) = g[k]
<1> DEFINE n == Len(lens)
           F == [k \in 1..n |-> [e \in Nat |-> e + lens[k] + 1]]
<1>1. n \in Nat /\ \A k \in 1..n : lens[k] \in Nat
  OBVIOUS
<1> HIDE DEF n
<1>2. \A k \in 1..n : F[k] \in [Nat -> Nat]
  BY <1>1
<1>3. PICK g : Runs(n, Nat, 0, F, g)
  <2> HIDE DEF F
  <2>1. QED
    BY <1>1, <1>2, RunExists
<1>4. g \in [0..n -> Nat] /\ g[0] = 0 /\ \A k \in 1..n : g[k] = F[k][g[k - 1]]
  BY <1>3 DEF Runs
<1>5. \A k \in 1..n : g[k] = g[k - 1] + lens[k] + 1
  <2> SUFFICES ASSUME NEW k \in 1..n PROVE g[k] = g[k - 1] + lens[k] + 1
    OBVIOUS
  <2>1. g[k - 1] \in Nat
    BY <1>1, <1>4
  <2>2. QED
    BY <1>4, <2>1
<1> HIDE DEF F
<1>6. ASSUME NEW l \in 0..n PROVE Used(lens, l) = g[l]
  <2> DEFINE Q(h) == h = [k \in 0..l |-> IF k = 0 THEN 0 ELSE h[k - 1] + lens[k] + 1]
             r == [k \in 0..l |-> g[k]]
             f == CHOOSE h : Q(h)
  <2>1. l \in Nat /\ l <= n
    BY <1>1
  <2>2. r[0] = 0 /\ \A k \in 1..l : r[k] = r[k - 1] + lens[k] + 1
    BY <1>1, <1>4, <1>5, <2>1
  <2>3. r = [k \in 0..l |-> r[k]]
    OBVIOUS
  <2> HIDE DEF r
  <2>4. \A k \in 0..l : r[k] = IF k = 0 THEN 0 ELSE r[k - 1] + lens[k] + 1
    BY <2>1, <2>2
  <2>5. Q(r)
    BY <2>3, <2>4
  <2>6. Q(f)
    BY <2>5
  <2>7. Used(lens, l) = f[l]
    BY DEF Used
  <2> HIDE DEF f
  <2>8. f[0] = 0 /\ \A k \in 1..l : f[k] = f[k - 1] + lens[k] + 1
    BY <2>1, <2>6
  <2> DEFINE S == {k \in 0..l : f[k] = r[k]}
  <2>9. 0 \in S
    BY <2>1, <2>2, <2>8
  <2>10. ASSUME NEW k \in 0..(l - 1), k \in S PROVE k + 1 \in S
    <3>1. PICK j \in 1..l : j = k + 1 /\ j - 1 = k /\ j \in 0..l
      BY <2>1
    <3>2. f[j] = f[j - 1] + lens[j] + 1 /\ r[j] = r[j - 1] + lens[j] + 1
      BY <2>2, <2>8
    <3>3. f[j] = r[j]
      BY <2>10, <3>1, <3>2
    <3>4. QED
      BY <3>1, <3>3
  <2> HIDE DEF S
  <2>11. \A k \in 0..l : k \in S
    BY ONLY <2>1, <2>9, <2>10, UpTo
  <2>12. f[l] = r[l]
    BY <2>1, <2>11 DEF S
  <2>13. QED
    BY <2>1, <2>7, <2>12 DEF r
<1>7. QED
  BY <1>4, <1>5, <1>6 DEF n

\* Every string has its own bytes, and every byte its string.
LEMMA Strings ==
  ASSUME NEW lens \in Seq(Nat)
  PROVE  /\ \A k \in 0..Len(lens) : Used(lens, k) \in Nat
         /\ Used(lens, 0) = 0
         /\ \A k \in 1..Len(lens) : Used(lens, k) = Used(lens, k - 1) + lens[k] + 1
         /\ \A j, k \in 0..Len(lens) : j < k => Used(lens, j) < Used(lens, k)
         /\ \A b \in 0..(Used(lens, Len(lens)) - 1) : \E k \in 1..Len(lens) :
              Used(lens, k - 1) <= b /\ b < Used(lens, k)
<1>1. PICK g \in [0..Len(lens) -> Nat] :
           /\ g[0] = 0
           /\ \A k \in 1..Len(lens) : g[k] = g[k - 1] + lens[k] + 1
           /\ \A k \in 0..Len(lens) : Used(lens, k) = g[k]
  BY UsedRuns
<1>2. PICK n \in Nat : n = Len(lens) /\ \A k \in 1..n : lens[k] \in Nat
  OBVIOUS
<1>3. \A k \in 1..n : g[k - 1] \in Nat /\ g[k] \in Nat /\ g[k] > g[k - 1]
  <2> SUFFICES ASSUME NEW k \in 1..n PROVE g[k - 1] \in Nat /\ g[k] \in Nat /\ g[k] > g[k - 1]
    OBVIOUS
  <2>1. k - 1 \in 0..n /\ k \in 0..n /\ lens[k] \in Nat
    BY <1>2
  <2>2. PICK c \in Nat, d \in Nat : c = g[k - 1] /\ d = g[k]
    BY <1>1, <1>2, <2>1
  <2>3. PICK l \in Nat : l = lens[k]
    BY <2>1
  <2>4. d = c + l + 1
    BY <1>1, <1>2, <2>2, <2>3
  <2>5. d > c
    BY <2>4
  <2>6. g[k - 1] = c /\ g[k] = d
    BY <2>2
  <2>7. QED
    BY ONLY <2>5, <2>6, c \in Nat, d \in Nat
<1>4. ASSUME NEW j \in 0..n PROVE \A k \in 0..n : j < k => g[j] < g[k]
  <2> DEFINE S == {k \in 0..n : j < k => g[j] < g[k]}
  <2>1. 0 \in S
    BY <1>2
  <2>2. ASSUME NEW k \in 0..(n - 1), k \in S PROVE k + 1 \in S
    <3>1. PICK i \in 1..n : i = k + 1 /\ i - 1 = k /\ i \in 0..n
      BY <1>2
    <3>2. g[i - 1] \in Nat /\ g[i] \in Nat /\ g[i] > g[i - 1] /\ g[j] \in Nat
      BY <1>1, <1>2, <1>3
    <3>3. j < k => g[j] < g[k]
      BY <2>2
    <3>4. j < i => g[j] < g[i]
      BY <3>1, <3>2, <3>3
    <3>5. QED
      BY <3>1, <3>4
  <2> HIDE DEF S
  <2>3. \A k \in 0..n : k \in S
    BY ONLY n \in Nat, <2>1, <2>2, UpTo
  <2>4. QED
    BY <2>3 DEF S
<1>5. ASSUME NEW b \in 0..(g[n] - 1) PROVE \E k \in 1..n : g[k - 1] <= b /\ b < g[k]
  <2> DEFINE B == {k \in 0..n : b < g[k]}
  <2>1. g[n] \in Nat /\ n \in B
    BY <1>1, <1>2
  <2>2. B \in SUBSET Nat
    BY <1>2
  <2>3. PICK k \in B : \A l \in B : k <= l
    BY <2>1, <2>2, LeastNat
  <2>4. k \in 0..n /\ b < g[k] /\ k # 0 /\ b \in Nat
    BY <1>1, <2>1
  <2>5. k - 1 \in 0..n /\ k - 1 \notin B /\ k \in 1..n
    BY <1>2, <2>3, <2>4
  <2>6. g[k - 1] \in Nat /\ g[k - 1] <= b
    BY <1>2, <1>3, <2>4, <2>5
  <2>7. QED
    BY <2>4, <2>5, <2>6
<1>6. \A k \in 0..n : Used(lens, k) = g[k]
  BY <1>1, <1>2
<1>7. \A k \in 1..n : Used(lens, k - 1) = g[k - 1] /\ Used(lens, k) = g[k]
  BY <1>2, <1>6
<1>8. Used(lens, n) = g[n]
  BY <1>2, <1>6
<1>9. /\ \A k \in 0..n : Used(lens, k) \in Nat
      /\ Used(lens, 0) = 0
      /\ \A k \in 1..n : Used(lens, k) = Used(lens, k - 1) + lens[k] + 1
  <2>1. \A k \in 0..n : g[k] \in Nat
    BY <1>1, <1>2
  <2>2. 0 \in 0..n
    BY <1>2
  <2>3. Used(lens, 0) = 0
    BY <1>1, <1>6, <2>2
  <2>4. \A k \in 1..n : Used(lens, k) = Used(lens, k - 1) + lens[k] + 1
    BY <1>1, <1>2, <1>7
  <2>5. QED
    BY <1>6, <2>1, <2>3, <2>4
<1>10. \A j, k \in 0..n : j < k => Used(lens, j) < Used(lens, k)
  BY <1>4, <1>6
<1>11. \A b \in 0..(Used(lens, n) - 1) : \E k \in 1..n : Used(lens, k - 1) <= b /\ b < Used(lens, k)
  BY <1>5, <1>7, <1>8
<1>12. QED
  BY <1>2, <1>9, <1>10, <1>11

\* The strings start at base, argv[] at argv, the frame at s.
Laid(top, lens, n, u, base, argv, s) ==
  /\ n = Len(lens) /\ n > 0 /\ u = Used(lens, n) /\ u > 0
  /\ base = StrBase(top, lens) /\ argv = ArgvBase(top, lens) /\ s = Sub(argv, 8)
  /\ s + 8 = argv /\ argv + 2 * (n + 1) = base /\ base + u <= WORD /\ base < WORD

LEMMA Layout ==
  ASSUME NEW top \in Word, NEW lens \in Seq(Nat), lens # <<>>,
         Room(lens) <= IF top = 0 THEN WORD ELSE top
  PROVE  \E n, u, base, argv, s \in Nat : Laid(top, lens, n, u, base, argv, s)
<1>1. PICK n \in Nat : n = Len(lens) /\ n > 0
  OBVIOUS
<1>2. PICK u \in Nat : u = Used(lens, n) /\ u > 0
  <2>1. 0 \in 0..n /\ n \in 0..n
    BY <1>1
  <2>2. Used(lens, 0) = 0 /\ Used(lens, n) \in Nat /\ Used(lens, 0) < Used(lens, n)
    BY <1>1, <2>1, Strings
  <2>3. QED
    BY <2>2
<1>3. PICK h \in Nat : h = (u + n + 1) \div 2
  OBVIOUS
<1>4. 2 * h <= u + n + 1 /\ 2 * h >= u + n
  BY <1>3
<1>5. PICK t \in Nat : t = top /\ t < WORD
  BY WordInt
<1>6. PICK w \in Nat : w = WORD /\ w > 0
  BY Sizes
<1>7. h * 2 + (n + 5) * 2 <= IF t = 0 THEN w ELSE t
  BY <1>1, <1>2, <1>3, <1>5, <1>6 DEF Room, BPW
<1> DEFINE base == (IF t = 0 THEN w ELSE t) - 2 * h
<1>8. base \in Nat /\ base >= (n + 5) * 2 /\ base + u <= w /\ base < w
  <2>1. PICK e \in Nat : e = (IF t = 0 THEN w ELSE t) /\ e <= w
    BY <1>5, <1>6
  <2>2. PICK b \in Int : b = base /\ b = e - 2 * h
    BY <2>1
  <2>3. 2 * h + (n + 5) * 2 <= e
    BY <1>7, <2>1
  <2>4. n > 0 /\ e <= w /\ b = e - 2 * h
    BY <1>1, <2>1, <2>2
  <2>5. b >= (n + 5) * 2
    BY ONLY n \in Nat, h \in Nat, e \in Nat, b \in Int, <2>3, <2>4
  <2>6. b + u <= w /\ b < w
    BY ONLY n \in Nat, u \in Nat, h \in Nat, w \in Nat, e \in Nat, b \in Int, <1>4, <2>4
  <2>7. b \in Nat
    BY ONLY n \in Nat, b \in Int, <2>5
  <2>8. QED
    BY <2>2, <2>5, <2>6, <2>7
<1>9. StrBase(top, lens) = base
  <2>1. PICK d \in Int : d = t - 2 * h /\ -w < d /\ d < w
    BY <1>5, <1>6, <1>7
  <2>2. d % w = IF d >= 0 THEN d ELSE d + w
    BY <1>6, <2>1, Wrapped
  <2>3. d % w = base
    BY <1>1, <1>4, <1>5, <1>6, <1>7, <2>1, <2>2
  <2>4. StrBase(top, lens) = d % w
    <3>1. h * 2 = 2 * h
      OBVIOUS
    <3>2. QED
      BY <1>1, <1>2, <1>3, <1>5, <1>6, <2>1, <3>1 DEF StrBase, Sub
  <2>5. QED
    BY <2>3, <2>4
<1> HIDE DEF base
<1> DEFINE argv == base - 2 * (n + 1)
<1>10. argv \in Nat /\ argv < w /\ argv >= 8 /\ argv \in Word
  BY <1>6, <1>8, Sizes
<1>11. ArgvBase(top, lens) = argv
  <2>1. argv % WORD = argv
    BY <1>10, WordInt
  <2>2. base - (n + 1) * 2 = argv
    BY <1>8
  <2>3. QED
    BY <1>1, <1>9, <2>1, <2>2 DEF ArgvBase, Sub, BPW
<1>12. argv + 2 * (n + 1) = base
  BY <1>8
<1> HIDE DEF argv
<1> DEFINE s == argv - 8
<1>13. s \in Nat /\ s \in Word /\ s + 8 = argv
  BY <1>6, <1>10, Sizes
<1>14. Sub(argv, 8) = s
  BY <1>13, WordInt DEF Sub
<1> HIDE DEF s
<1>15. Laid(top, lens, n, u, base, argv, s)
  BY <1>1, <1>2, <1>6, <1>8, <1>9, <1>11, <1>12, <1>13, <1>14 DEF Laid
<1>16. QED
  BY <1>8, <1>10, <1>13, <1>15

LEMMA Frame ==
  ASSUME NEW top \in Word, NEW lens \in Seq(Nat), NEW n \in Nat, NEW u \in Nat, NEW base \in Nat,
         NEW argv \in Nat, NEW s \in Nat, Laid(top, lens, n, u, base, argv, s)
  PROVE  LET words == FrameWords(top, lens) IN
         /\ words[1] = 0 /\ words[2] = 6 /\ words[3] = argv /\ words[4] = n /\ words[n + 5] = 0
         /\ \A k \in 1..n : words[k + 4] = base + Used(lens, k - 1)
         /\ \A j \in 1..(n + 5) : words[j] \in Word
<1>1. PICK w \in Nat : w = WORD /\ w > 15 /\ Word = 0..(w - 1)
  <2>1. PICK b \in Nat : b = BYTE /\ b >= 4
    BY Sizes
  <2>2. b * b >= 16 /\ b * b \in Nat
    BY <2>1
  <2>3. QED
    BY <2>1, <2>2, Sizes
<1>2. /\ n = Len(lens) /\ u = Used(lens, n) /\ n > 0
      /\ base = StrBase(top, lens) /\ argv = ArgvBase(top, lens)
      /\ s + 8 = argv /\ argv + 2 * (n + 1) = base /\ base + u <= w /\ base < w
  BY <1>1 DEF Laid
<1> DEFINE A == <<0, 6, argv, n>>
           B == [k \in 1..n |-> base + Used(lens, k - 1)]
           C == <<0>>
<1>3. FrameWords(top, lens) = A \o B \o C
  BY <1>2 DEF FrameWords, BPW
<1>4. A \in Seq(Nat) /\ Len(A) = 4 /\ C \in Seq(Nat) /\ Len(C) = 1
  OBVIOUS
<1>5. \A k \in 1..n : B[k] \in Nat /\ B[k] < w
  <2> SUFFICES ASSUME NEW k \in 1..n PROVE B[k] \in Nat /\ B[k] < w
    OBVIOUS
  <2>1. k - 1 \in 0..n /\ n \in 0..n /\ k - 1 < n
    OBVIOUS
  <2>2. PICK c \in Nat : c = Used(lens, k - 1) /\ c < u
    BY <1>2, <2>1, Strings
  <2>3. B[k] = base + c
    BY <2>2
  <2>4. base + u <= w /\ c < u
    BY <1>2, <2>2
  <2>5. base + c \in Nat /\ base + c < w
    BY ONLY base \in Nat, c \in Nat, u \in Nat, w \in Nat, <2>4
  <2> HIDE DEF B
  <2>6. QED
    BY <2>3, <2>5
<1>6. B \in Seq(Nat) /\ Len(B) = n
  <2>1. B \in [1..n -> Nat]
    BY <1>5
  <2>2. QED
    BY <2>1
<1>7. \A k \in 1..n : B[k] = base + Used(lens, k - 1)
  OBVIOUS
<1>8. A[1] = 0 /\ A[2] = 6 /\ A[3] = argv /\ A[4] = n /\ C[1] = 0
  OBVIOUS
<1> HIDE DEF A, B, C
<1>9. /\ A \o B \in Seq(Nat) /\ Len(A \o B) = n + 4
      /\ \A i \in 1..(n + 4) : (A \o B)[i] = IF i <= 4 THEN A[i] ELSE B[i - 4]
  <2>1. /\ A \o B \in Seq(Nat) /\ Len(A \o B) = Len(A) + Len(B)
        /\ \A i \in 1..(Len(A) + Len(B)) : (A \o B)[i] = IF i <= Len(A) THEN A[i] ELSE B[i - Len(A)]
    BY <1>4, <1>6, ConcatProperties
  <2>2. Len(A) + Len(B) = n + 4
    BY <1>4, <1>6
  <2>3. QED
    BY <1>4, <2>1, <2>2
<1> DEFINE D == A \o B
<1>10. D \in Seq(Nat) /\ Len(D) = n + 4
  BY <1>9
<1>11. \A i \in 1..(n + 4) : D[i] = IF i <= 4 THEN A[i] ELSE B[i - 4]
  BY <1>9
<1>12. A \o B \o C = D \o C
  OBVIOUS
<1> HIDE DEF D
<1> DEFINE W == D \o C
<1>13. \A i \in 1..(n + 5) : W[i] = IF i <= n + 4 THEN D[i] ELSE C[i - (n + 4)]
  <2>1. \A i \in 1..(Len(D) + Len(C)) : (D \o C)[i] = IF i <= Len(D) THEN D[i] ELSE C[i - Len(D)]
    <3>1. C \in Seq(Nat) /\ D \in Seq(Nat)
      BY <1>4, <1>10
    <3>2. QED
      BY ONLY <3>1, ConcatProperties
  <2>2. Len(D) + Len(C) = n + 5
    BY <1>4, <1>10
  <2>3. QED
    BY <1>10, <2>1, <2>2
<1>14. FrameWords(top, lens) = W
  BY <1>3, <1>12
<1> HIDE DEF W
<1>15. W[1] = 0 /\ W[2] = 6 /\ W[3] = argv /\ W[4] = n /\ W[n + 5] = 0
  <2>1. ASSUME NEW i \in 1..4 PROVE W[i] = A[i]
    BY <1>11, <1>13
  <2>2. W[n + 5] = C[1]
    <3>1. n + 5 \in 1..(n + 5) /\ ~ (n + 5 <= n + 4) /\ (n + 5) - (n + 4) = 1
      OBVIOUS
    <3>2. QED
      BY <1>13, <3>1
  <2>3. QED
    BY <1>8, <2>1, <2>2
<1>16. \A k \in 1..n : W[k + 4] = B[k]
  <2> SUFFICES ASSUME NEW k \in 1..n PROVE W[k + 4] = B[k]
    OBVIOUS
  <2>1. PICK i \in 1..(n + 4) : i = k + 4 /\ ~ (i <= 4) /\ i - 4 = k /\ i \in 1..(n + 5) /\ i <= n + 4
    OBVIOUS
  <2>2. W[i] = D[i] /\ D[i] = B[i - 4]
    BY <1>11, <1>13, <2>1
  <2>3. QED
    BY <2>1, <2>2
<1>17. ASSUME NEW j \in 1..(n + 5) PROVE W[j] \in Word
  <2>1. 0 \in Word /\ 6 \in Word /\ argv \in Word /\ n \in Word
    <3>1. s + 8 = argv /\ argv + 2 * (n + 1) = base /\ base < w
      BY <1>2
    <3>2. argv < w /\ n < w
      BY ONLY s \in Nat, argv \in Nat, n \in Nat, base \in Nat, w \in Nat, <3>1
    <3>3. QED
      BY <1>1, <3>2
  <2>2. CASE j <= 4
    <3>1. j = 1 \/ j = 2 \/ j = 3 \/ j = 4
      BY <2>2
    <3>2. QED
      BY <1>15, <2>1, <3>1
  <2>3. CASE j = n + 5
    BY <1>15, <2>1, <2>3
  <2>4. CASE j > 4 /\ j # n + 5
    <3>1. PICK k \in 1..n : j = k + 4
      <4>1. j - 4 \in 1..n /\ j = (j - 4) + 4
        BY <2>4
      <4>2. QED
        BY <4>1
    <3>2. W[j] = B[k]
      BY <1>16, <3>1
    <3>3. B[k] \in Word
      BY <1>1, <1>5
    <3>4. QED
      BY <3>2, <3>3
  <2>5. QED
    BY <2>2, <2>3, <2>4
<1>18. QED
  BY <1>7, <1>14, <1>15, <1>16, <1>17

StringOf(lens, b) ==
  CHOOSE k \in 1..Len(lens) : Used(lens, k - 1) <= b /\ b < Used(lens, k)
StringByteOf(lens, b) ==
  IF b + 1 = Used(lens, StringOf(lens, b)) THEN Num(0)
  ELSE Chr(StringOf(lens, b), b - Used(lens, StringOf(lens, b) - 1) + 1)
FrameByte(words, d) == Num(IF d % 2 = 0 THEN Hi(words[d \div 2 + 1]) ELSE Lo(words[d \div 2 + 1]))

LEMMA Memories ==
  ASSUME NEW top, NEW lens, NEW n, NEW u, NEW base, NEW argv, NEW s,
         Laid(top, lens, n, u, base, argv, s), NEW im
  PROVE  WithArgs(im, top, lens) =
           [a \in Word |-> IF a \in base..(base + u - 1) THEN StringByteOf(lens, a - base)
                           ELSE IF a \in s..(base - 1) THEN FrameByte(FrameWords(top, lens), a - s)
                           ELSE im[a]]
<1>1. /\ StrBase(top, lens) = base /\ Sub(ArgvBase(top, lens), 4 * BPW) = s
      /\ Used(lens, Len(lens)) = u
  BY DEF Laid, BPW
<1> DEFINE New(b, c, d) ==
             [a \in Word |-> IF a \in b..(b + d - 1) THEN StringByteOf(lens, a - b)
                             ELSE IF a \in c..(b - 1) THEN FrameByte(FrameWords(top, lens), a - c)
                             ELSE im[a]]
<1>2. WithArgs(im, top, lens) = New(StrBase(top, lens), Sub(ArgvBase(top, lens), 4 * BPW), Used(lens, Len(lens)))
  BY DEF WithArgs, StringByteOf, StringOf, FrameByte
<1> HIDE DEF New
<1>3. WithArgs(im, top, lens) = New(base, s, u)
  BY <1>1, <1>2
<1>4. QED
  BY <1>3 DEF New

LEMMA StringBytes ==
  ASSUME NEW lens \in Seq(Nat), NEW k \in 1..Len(lens)
  PROVE  /\ \A i \in 1..lens[k] : StringByteOf(lens, Used(lens, k - 1) + i - 1) = Chr(k, i)
         /\ StringByteOf(lens, Used(lens, k - 1) + lens[k]) = Num(0)
<1>1. PICK n \in Nat : n = Len(lens) /\ lens[k] \in Nat
  OBVIOUS
<1>2. PICK l \in Nat : l = lens[k]
  BY <1>1
<1>3. k \in Nat /\ k - 1 \in 0..n /\ k \in 0..n
  BY <1>1
<1>4. PICK c \in Nat, d \in Nat : c = Used(lens, k - 1) /\ d = Used(lens, k) /\ d = c + l + 1
  BY <1>1, <1>2, <1>3, Strings
<1>5. ASSUME NEW b \in c..(c + l) PROVE StringOf(lens, b) = k
  <2> DEFINE V(i) == Used(lens, i - 1) <= b /\ b < Used(lens, i)
  <2>1. b \in Nat /\ c <= b /\ b < d
    BY <1>4
  <2>2. V(k)
    BY <1>4, <2>1
  <2>3. PICK i \in 1..n : i = StringOf(lens, b) /\ V(i)
    BY <1>1, <2>2 DEF StringOf
  <2>4. i - 1 \in 0..n /\ i \in 0..n /\ i \in Nat
    BY <1>1
  <2>5. PICK e \in Nat, f \in Nat : e = Used(lens, i - 1) /\ f = Used(lens, i) /\ e <= b /\ b < f
    BY <1>1, <2>3, <2>4, Strings
  <2>6. ~ (i < k)
    <3> SUFFICES ASSUME i < k PROVE FALSE
      OBVIOUS
    <3>1. i < k - 1 \/ i = k - 1
      BY <1>3, <2>4
    <3>2. i < k - 1 => Used(lens, i) < Used(lens, k - 1)
      BY <1>1, <1>3, <2>4, Strings
    <3>3. f = c \/ f < c
      BY <1>4, <2>5, <3>1, <3>2
    <3>4. c <= b /\ b < f
      BY <2>1, <2>5
    <3>5. QED
      BY ONLY b \in Nat, c \in Nat, f \in Nat, <2>1, <3>3, <3>4
  <2>7. ~ (k < i)
    <3> SUFFICES ASSUME k < i PROVE FALSE
      OBVIOUS
    <3>1. k < i - 1 \/ k = i - 1
      BY <1>3, <2>4
    <3>2. k < i - 1 => Used(lens, k) < Used(lens, i - 1)
      BY <1>1, <1>3, <2>4, Strings
    <3>3. d = e \/ d < e
      BY <1>4, <2>5, <3>1, <3>2
    <3>4. e <= b /\ b < d
      BY <2>1, <2>5
    <3>5. QED
      BY ONLY b \in Nat, d \in Nat, e \in Nat, <2>1, <3>3, <3>4
  <2>8. i = k
    BY <1>3, <2>4, <2>6, <2>7
  <2>9. QED
    BY <2>3, <2>8
<1>6. ASSUME NEW i \in 1..l PROVE StringByteOf(lens, c + i - 1) = Chr(k, i)
  <2>1. PICK b \in c..(c + l) : b = c + i - 1 /\ b + 1 # d /\ b - c + 1 = i
    <3>1. d = c + l + 1
      BY <1>4
    <3>2. c + i - 1 \in c..(c + l) /\ (c + i - 1) + 1 # d /\ (c + i - 1) - c + 1 = i
      BY ONLY c \in Nat, l \in Nat, i \in 1..l, <3>1
    <3>3. QED
      BY <3>2
  <2>2. StringOf(lens, b) = k
    BY <1>5
  <2>3. StringByteOf(lens, b) = Chr(k, i)
    BY <1>4, <2>1, <2>2 DEF StringByteOf
  <2>4. QED
    BY <2>1, <2>3
<1>7. StringByteOf(lens, c + l) = Num(0)
  <2>1. PICK b \in c..(c + l) : b = c + l /\ b + 1 = d
    <3>1. c + l \in c..(c + l)
      OBVIOUS
    <3>2. d = (c + l) + 1
      BY <1>4
    <3>3. QED
      BY <3>1, <3>2
  <2>2. StringOf(lens, b) = k
    BY <1>5
  <2>3. QED
    BY <1>4, <2>1, <2>2 DEF StringByteOf
<1>8. QED
  BY <1>2, <1>4, <1>6, <1>7

\* Where a program finds its arguments.
LEMMA Args ==
  ASSUME NEW top \in Word, NEW lens \in Seq(Nat), NEW n \in Nat, NEW u \in Nat, NEW base \in Nat,
         NEW argv \in Nat, NEW s \in Nat, Laid(top, lens, n, u, base, argv, s), NEW im \in Memory
  PROVE  LET new == WithArgs(im, top, lens)
             words == FrameWords(top, lens)
         IN  /\ new \in Memory
             /\ \A j \in 1..(n + 5) : /\ new[s + 2 * (j - 1)] = Num(Hi(words[j]))
                                      /\ new[s + 2 * (j - 1) + 1] = Num(Lo(words[j]))
             /\ \A k \in 1..n :
                  /\ \A i \in 1..lens[k] : new[base + Used(lens, k - 1) + i - 1] = Chr(k, i)
                  /\ new[base + Used(lens, k - 1) + lens[k]] = Num(0)
<1> DEFINE new == WithArgs(im, top, lens)
           words == FrameWords(top, lens)
           S(b) == StringByteOf(lens, b)
           G(d) == FrameByte(words, d)
<1>1. PICK w \in Nat : w = WORD /\ Word = 0..(w - 1)
  BY Sizes
<1>2. n = Len(lens) /\ u = Used(lens, n)
  BY DEF Laid
<1>3. s + 8 = argv /\ argv + 2 * (n + 1) = base /\ base + u <= w /\ base < w
  BY <1>1 DEF Laid
<1>4. new = [a \in Word |-> IF a \in base..(base + u - 1) THEN S(a - base)
                            ELSE IF a \in s..(base - 1) THEN G(a - s)
                            ELSE im[a]]
  BY Memories
<1>5. \A j \in 1..(n + 5) : words[j] \in Word
  BY Frame
<1>6. \A b \in 0..(u - 1) : S(b) \in Tags \X (0..(BYTE - 1))
  <2> SUFFICES ASSUME NEW b \in 0..(u - 1) PROVE S(b) \in Tags \X (0..(BYTE - 1))
    OBVIOUS
  <2>1. PICK k \in 1..n : k = StringOf(lens, b) /\ Used(lens, k - 1) <= b
    <3>1. \E k \in 1..Len(lens) : Used(lens, k - 1) <= b /\ b < Used(lens, k)
      BY <1>2, Strings
    <3>2. QED
      BY <1>2, <3>1 DEF StringOf
  <2>2. PICK y \in Nat : y = BYTE /\ y >= 4
    BY Sizes
  <2>3. "num" \in Tags
    BY DEF Tags
  <2>4. Num(0) \in Tags \X (0..(BYTE - 1))
    BY <2>2, <2>3 DEF Num
  <2>5. Chr(k, b - Used(lens, k - 1) + 1) \in Tags \X (0..(BYTE - 1))
    <3>1. k - 1 \in 0..n
      OBVIOUS
    <3>2. PICK e \in Int : e = b - Used(lens, k - 1) + 1
      <4>1. Used(lens, k - 1) \in Nat
        BY <1>2, <3>1, Strings
      <4>2. QED
        BY <4>1
    <3>3. PICK z \in Nat : z = y - 1 /\ z > 0
      BY <2>2
    <3>4. 3 * k + e \in Int
      OBVIOUS
    <3>5. (3 * k + e) % z \in 0..(z - 1)
      BY <3>3, <3>4, Remainder
    <3>6. ((3 * k + e) % z) + 1 \in 0..(y - 1)
      BY <3>3, <3>5
    <3>7. QED
      BY <2>2, <2>3, <3>2, <3>3, <3>6 DEF Chr, Num
  <2>6. QED
    BY <2>1, <2>4, <2>5 DEF StringByteOf
<1>7. \A d \in 0..(2 * (n + 5) - 1) : G(d) \in Tags \X (0..(BYTE - 1))
  <2> SUFFICES ASSUME NEW d \in 0..(2 * (n + 5) - 1) PROVE G(d) \in Tags \X (0..(BYTE - 1))
    OBVIOUS
  <2>1. PICK j \in 1..(n + 5) : j = d \div 2 + 1
    <3>1. PICK h \in Nat : h = d \div 2 /\ 2 * h <= d
      OBVIOUS
    <3>2. h + 1 \in 1..(n + 5)
      BY <3>1
    <3>3. QED
      BY <3>1, <3>2
  <2>2. PICK v \in Word : v = words[j]
    BY <1>5
  <2>3. Num(Hi(v)) \in Tags \X (0..(BYTE - 1)) /\ Num(Lo(v)) \in Tags \X (0..(BYTE - 1))
    BY WordBytes DEF Num
  <2>4. QED
    BY <2>1, <2>2, <2>3 DEF FrameByte
<1> HIDE DEF S, G, words, new
<1>8. new \in Memory
  <2>1. ASSUME NEW a \in Word PROVE new[a] \in Tags \X (0..(BYTE - 1))
    <3>1. a \in Nat
      BY <1>1
    <3>2. CASE a \in base..(base + u - 1)
      <4>1. a - base \in 0..(u - 1)
        BY <3>1, <3>2
      <4>2. QED
        BY <1>4, <1>6, <3>2, <4>1
    <3>3. CASE a \notin base..(base + u - 1) /\ a \in s..(base - 1)
      <4>1. a - s \in 0..(2 * (n + 5) - 1)
        BY <1>3, <3>1, <3>3
      <4>2. QED
        BY <1>4, <1>7, <3>3, <4>1
    <3>4. CASE a \notin base..(base + u - 1) /\ a \notin s..(base - 1)
      <4>1. new[a] = im[a]
        BY <1>4, <3>4
      <4>2. QED
        BY <4>1 DEF Memory
    <3>5. QED
      BY <3>2, <3>3, <3>4
  <2>2. new = [a \in Word |-> new[a]]
    BY <1>4
  <2>3. QED
    BY <2>1, <2>2 DEF Memory
<1>9. ASSUME NEW j \in 1..(n + 5)
      PROVE  /\ new[s + 2 * (j - 1)] = Num(Hi(words[j]))
             /\ new[s + 2 * (j - 1) + 1] = Num(Lo(words[j]))
  <2>1. PICK d \in Nat : d = 2 * (j - 1)
    OBVIOUS
  <2>2. d % 2 = 0 /\ (d + 1) % 2 = 1 /\ d \div 2 + 1 = j /\ (d + 1) \div 2 + 1 = j
    BY <2>1
  <2>3. PICK a \in Word : a = s + d /\ a \in s..(base - 1) /\ a \notin base..(base + u - 1) /\ a - s = d
    BY <1>1, <1>3, <2>1
  <2>4. PICK c \in Word : c = s + d + 1 /\ c \in s..(base - 1) /\ c \notin base..(base + u - 1) /\ c - s = d + 1
    BY <1>1, <1>3, <2>1
  <2>5. new[a] = G(d) /\ new[c] = G(d + 1)
    BY <1>4, <2>3, <2>4
  <2>6. G(d) = Num(Hi(words[j])) /\ G(d + 1) = Num(Lo(words[j]))
    BY <2>2 DEF G, FrameByte
  <2>7. QED
    BY <2>1, <2>3, <2>4, <2>5, <2>6
<1>10. ASSUME NEW k \in 1..n
       PROVE  /\ \A i \in 1..lens[k] : new[base + Used(lens, k - 1) + i - 1] = Chr(k, i)
              /\ new[base + Used(lens, k - 1) + lens[k]] = Num(0)
  <2>1. PICK l \in Nat : l = lens[k]
    BY <1>2
  <2>2. k - 1 \in 0..n /\ k \in 0..n /\ n \in 0..n /\ (k < n \/ k = n)
    OBVIOUS
  <2>3. PICK c \in Nat : c = Used(lens, k - 1) /\ c + l + 1 <= u
    <3>1. PICK c \in Nat, d \in Nat : c = Used(lens, k - 1) /\ d = Used(lens, k) /\ d = c + l + 1
      BY <1>2, <2>1, <2>2, Strings
    <3>2. k < n => Used(lens, k) < Used(lens, n)
      BY <1>2, <2>2, Strings
    <3>3. d < u \/ d = u
      BY <1>2, <2>2, <3>1, <3>2
    <3>4. d = c + l + 1
      BY <3>1
    <3>5. c + l + 1 <= u
      BY ONLY c \in Nat, d \in Nat, l \in Nat, u \in Nat, <3>3, <3>4
    <3>6. QED
      BY <3>1, <3>5
  <2>4. (\A i \in 1..l : S(c + i - 1) = Chr(k, i)) /\ S(c + l) = Num(0)
    BY <1>2, <2>1, <2>3, StringBytes DEF S
  <2>5. ASSUME NEW b \in 0..(u - 1) PROVE new[base + b] = S(b)
    <3>1. PICK a \in Word : a = base + b /\ a - base = b /\ a \in base..(base + u - 1)
      BY <1>1, <1>3
    <3>2. QED
      BY <1>4, <3>1
  <2>6. ASSUME NEW i \in 1..l PROVE new[base + c + i - 1] = Chr(k, i)
    <3>1. c + l + 1 <= u
      BY <2>3
    <3>2. c + i - 1 \in 0..(u - 1) /\ base + (c + i - 1) = base + c + i - 1
      BY ONLY c \in Nat, l \in Nat, u \in Nat, base \in Nat, i \in 1..l, <3>1
    <3>3. QED
      BY <2>4, <2>5, <3>2
  <2>7. new[base + c + l] = Num(0)
    <3>1. c + l + 1 <= u
      BY <2>3
    <3>2. c + l \in 0..(u - 1) /\ base + (c + l) = base + c + l
      BY ONLY c \in Nat, l \in Nat, u \in Nat, base \in Nat, <3>1
    <3>3. QED
      BY <2>4, <2>5, <3>2
  <2>8. QED
    BY <2>1, <2>3, <2>6, <2>7
<1>11. QED
  BY <1>8, <1>9, <1>10 DEF new, words

LEMMA ArgNames ==
  /\ \A im, top, lens : X!WithArgs(im, top, lens) = WithArgs(im, top, lens)
  /\ \A im, top, lens : P!WithArgs(im, top, lens) = WithArgs(im, top, lens)
  /\ \A top, lens : X!ArgvBase(top, lens) = ArgvBase(top, lens)
  /\ \A top, lens : P!ArgvBase(top, lens) = ArgvBase(top, lens)
<1> USE DEF WORD, Sub, Used, StrBase, ArgvBase, BPW
<1> USE DEF X!WORD, X!Sub, X!Used, X!StrBase, X!ArgvBase, X!BPW
<1> USE DEF P!WORD, P!Sub, P!Used, P!StrBase, P!ArgvBase, P!BPW
<1>1. /\ \A top, lens : X!ArgvBase(top, lens) = ArgvBase(top, lens)
      /\ \A top, lens : P!ArgvBase(top, lens) = ArgvBase(top, lens)
  OBVIOUS
<1>2. \A im, top, lens : X!WithArgs(im, top, lens) = WithArgs(im, top, lens)
  BY DEF X!WithArgs, X!FrameWords, X!Chr, X!Num, X!Hi, X!Lo, X!Word,
         WithArgs, FrameWords, Chr, Num, Hi, Lo, Word
<1>3. \A im, top, lens : P!WithArgs(im, top, lens) = WithArgs(im, top, lens)
  BY DEF P!WithArgs, P!FrameWords, P!Chr, P!Num, P!Hi, P!Lo, P!Word,
         WithArgs, FrameWords, Chr, Num, Hi, Lo, Word
<1>4. QED
  BY <1>1, <1>2, <1>3

LEMMA XLoaded ==
  ASSUME NEW im \in Memory, NEW top \in Word, NEW lens \in Seq(Nat), lens # <<>>,
         Room(lens) <= IF top = 0 THEN WORD ELSE top
  PROVE  LET a == X!Loaded(im, top, lens) IN
         /\ a \in XMachine
         /\ a.regs = [r \in Regs |-> IF r = SP THEN Sub(ArgvBase(top, lens), 8) ELSE 0]
         /\ a.image = WithArgs(im, top, lens) /\ a.pc = 0 /\ a.cc = 0 /\ a.status = "running"
<1>1. PICK n \in Nat, u \in Nat, base \in Nat, argv \in Nat, s \in Nat :
        Laid(top, lens, n, u, base, argv, s)
  BY Layout
<1> DEFINE g0 == [r \in Regs |-> IF r = SP THEN top ELSE 0]
           new == WithArgs(im, top, lens)
           m0 == [regs |-> g0, pc |-> 0, cc |-> 0, image |-> im, status |-> "running", code |-> 0]
           g == [g0 EXCEPT ![SP] = Sub(ArgvBase(top, lens), 8)]
<1>2. new \in Memory
  BY <1>1, Args
<1>3. Sub(ArgvBase(top, lens), 8) \in Word /\ 0 \in Word
  <2>1. s = Sub(ArgvBase(top, lens), 8)
    BY <1>1 DEF Laid
  <2>2. PICK w \in Nat : w = WORD
    BY Sizes
  <2>3. s + 8 = argv /\ argv + 2 * (n + 1) = base /\ base < w
    BY <1>1, <2>2 DEF Laid
  <2>4. s < w /\ 0 < w
    BY ONLY s \in Nat, n \in Nat, argv \in Nat, base \in Nat, w \in Nat, <2>3
  <2>5. QED
    BY <2>1, <2>2, <2>4, Sizes
<1>4. g0[SP] = top /\ g = [r \in Regs |-> IF r = SP THEN Sub(ArgvBase(top, lens), 8) ELSE 0]
  BY Sizes
<1>5. X!Loaded(im, top, lens) = X!pushArgs(m0, lens)
  BY XNames DEF X!Loaded
<1>6. \A a, b : X!Sub(a, b) = Sub(a, b)
  BY XNames DEF Sub
<1> HIDE DEF g0
<1>7. X!pushArgs(m0, lens) = [m0 EXCEPT !.regs[SP] = X!Sub(X!ArgvBase(@, lens), 8), !.image = X!WithArgs(@, m0.regs[SP], lens)]
  BY XNames DEF X!pushArgs
<1>8. m0.regs = g0 /\ m0.image = im
  OBVIOUS
<1>9. X!pushArgs(m0, lens) = [m0 EXCEPT !.regs = g, !.image = new]
  BY <1>4, <1>6, <1>7, <1>8, ArgNames
<1>10. g \in [Regs -> Word] /\ g0 \in [Regs -> Word]
  BY <1>3, <1>4 DEF g0
<1> HIDE DEF g, new
<1>11. m0 \in XMachine
  BY <1>3, <1>10 DEF XMachine, Status
<1>12. m0.pc = 0 /\ m0.cc = 0 /\ m0.status = "running"
  OBVIOUS
<1> HIDE DEF m0
<1> DEFINE m1 == [m0 EXCEPT !.regs = g, !.image = new]
<1>13. /\ m1 \in XMachine /\ m1.regs = g /\ m1.image = new
       /\ m1.pc = m0.pc /\ m1.cc = m0.cc /\ m1.status = m0.status
  BY ONLY <1>2, <1>10, <1>11 DEF XMachine
<1>14. X!Loaded(im, top, lens) = m1
  BY <1>5, <1>9
<1> HIDE DEF m1
<1>15. QED
  BY <1>4, <1>12, <1>13, <1>14 DEF new

LEMMA PLoaded ==
  ASSUME NEW im \in Memory, NEW lens \in Seq(Nat), lens # <<>>, Room(lens) <= WORD
  PROVE  LET b == P!Loaded(im, lens) IN
         /\ b \in PMachine
         /\ b.regs = [r \in Regs |-> IF r = SP THEN Sub(ArgvBase(0, lens), 8) ELSE 0]
         /\ b.image = WithArgs(im, 0, lens) /\ b.pc = 0 /\ b.cc = 0 /\ b.last = 0 /\ b.status = "running"
<1> DEFINE z == 0
<1>0. z \in Word /\ Room(lens) <= IF z = 0 THEN WORD ELSE z
  BY Sizes
<1> HIDE DEF z
<1>1. PICK n \in Nat, u \in Nat, base \in Nat, argv \in Nat, s \in Nat :
        Laid(z, lens, n, u, base, argv, s)
  BY <1>0, Layout
<1>2. WithArgs(im, z, lens) \in Memory
  BY <1>0, <1>1, Args
<1> USE DEF z
<1> DEFINE g0 == [r \in Regs |-> 0]
           new == WithArgs(im, 0, lens)
           m0 == [regs |-> g0, pc |-> 0, cc |-> 0, last |-> 0, image |-> im, status |-> "running", code |-> 0]
           t == ArgvBase(0, lens) - 8
           g == [g0 EXCEPT ![SP] = t]
<1>3. t = Sub(ArgvBase(0, lens), 8) /\ t \in Int
  <2>1. argv = ArgvBase(0, lens) /\ s = Sub(argv, 8) /\ s + 8 = argv
    BY <1>1 DEF Laid
  <2>2. argv - 8 = s
    BY <2>1
  <2>3. QED
    BY <2>1, <2>2
<1>4. g0[SP] = 0 /\ g = [r \in Regs |-> IF r = SP THEN t ELSE 0]
  BY Sizes
<1>5. P!Loaded(im, lens) = P!pushArgs(m0, lens)
  BY PNames DEF P!Loaded
<1> HIDE DEF g0, t
<1>7. P!pushArgs(m0, lens) = [m0 EXCEPT !.regs[SP] = P!ArgvBase(@, lens) - 8, !.image = P!WithArgs(@, m0.regs[SP], lens)]
  BY PNames DEF P!pushArgs
<1>8. m0.regs = g0 /\ m0.image = im
  OBVIOUS
<1>9. P!pushArgs(m0, lens) = [m0 EXCEPT !.regs = g, !.image = new]
  BY <1>4, <1>7, <1>8, ArgNames DEF t
<1>10. g \in [Regs -> Int] /\ g0 \in [Regs -> Int]
  <2>1. g0 \in [Regs -> Int]
    BY DEF g0
  <2>2. t \in Int
    BY <1>3
  <2>3. QED
    BY ONLY <2>1, <2>2
<1>11. new \in Memory
  BY <1>2
<1> HIDE DEF g, new
<1>12. m0 \in PMachine
  BY <1>10 DEF PMachine, Status
<1>13. m0.pc = 0 /\ m0.cc = 0 /\ m0.last = 0 /\ m0.status = "running"
  OBVIOUS
<1> HIDE DEF m0
<1> DEFINE m1 == [m0 EXCEPT !.regs = g, !.image = new]
<1>14. /\ m1 \in PMachine /\ m1.regs = g /\ m1.image = new
       /\ m1.pc = m0.pc /\ m1.cc = m0.cc /\ m1.last = m0.last /\ m1.status = m0.status
  BY ONLY <1>10, <1>11, <1>12 DEF PMachine
<1>15. P!Loaded(im, lens) = m1
  BY <1>5, <1>9
<1> HIDE DEF m1
<1>16. QED
  BY <1>3, <1>4, <1>13, <1>14, <1>15 DEF new

\* Both emulators begin in the same state when xemu's inisp happens to be 0.
LEMMA Starts ==
  ASSUME NEW i \in Invocations
  PROVE  LET a == X!Loaded(i.file, i.sp, i.lens)
             b == P!Loaded(i.file, i.lens)
         IN  a \in XMachine /\ b \in PMachine /\ (i.sp = 0 => Alike(a, b))
<1> DEFINE a == X!Loaded(i.file, i.sp, i.lens)
           b == P!Loaded(i.file, i.lens)
<1>1. PICK im \in Memory, top \in Word, lens \in Seq(Nat) : im = i.file /\ top = i.sp /\ lens = i.lens
  BY InvocationAssumption
<1>2. lens # <<>> /\ Room(lens) <= IF top = 0 THEN WORD ELSE top
  BY <1>1, InvocationAssumption
<1>3. Room(lens) <= WORD
  <2>1. PICK l \in Nat : l = Room(lens)
    <3>1. PICK n \in Nat : n = Len(lens)
      OBVIOUS
    <3>2. PICK u \in Nat : u = Used(lens, Len(lens))
      <4>1. n \in 0..n
        OBVIOUS
      <4>2. QED
        BY <3>1, <4>1, Strings
    <3>3. ((u + n + 1) \div 2) * 2 + (n + 5) * 2 \in Nat
      OBVIOUS
    <3>4. QED
      BY <3>1, <3>2, <3>3 DEF Room, BPW
  <2>2. PICK t \in Nat, w \in Nat : t = top /\ w = WORD /\ t < w
    BY WordInt, Sizes
  <2>3. l <= IF t = 0 THEN w ELSE t
    BY <1>2, <2>1, <2>2
  <2>4. l <= w
    BY ONLY l \in Nat, t \in Nat, w \in Nat, <2>2, <2>3
  <2>5. QED
    BY <2>1, <2>2, <2>4
<1>4. /\ a \in XMachine
      /\ a.regs = [r \in Regs |-> IF r = SP THEN Sub(ArgvBase(top, lens), 8) ELSE 0]
      /\ a.image = WithArgs(im, top, lens) /\ a.pc = 0 /\ a.cc = 0 /\ a.status = "running"
  BY <1>1, <1>2, XLoaded
<1>5. /\ b \in PMachine
      /\ b.regs = [r \in Regs |-> IF r = SP THEN Sub(ArgvBase(0, lens), 8) ELSE 0]
      /\ b.image = WithArgs(im, 0, lens) /\ b.pc = 0 /\ b.cc = 0 /\ b.status = "running"
  BY <1>1, <1>2, <1>3, PLoaded
<1> HIDE DEF a, b
<1>6. ASSUME i.sp = 0 PROVE Alike(a, b)
  <2>1. top = 0 /\ b.image = a.image /\ b.regs = a.regs
    BY <1>1, <1>4, <1>5, <1>6
  <2>2. \A r \in Regs : b.regs[r] % WORD = a.regs[r]
    <3> SUFFICES ASSUME NEW r \in Regs PROVE b.regs[r] % WORD = a.regs[r]
      OBVIOUS
    <3>1. PICK w \in Word : w = a.regs[r]
      BY <1>4, XFields
    <3>2. QED
      BY <2>1, <3>1, WordInt
  <2>3. 0 % WORD = 0
    BY WordInt, Sizes
  <2>4. QED
    BY <1>4, <1>5, <2>1, <2>2, <2>3 DEF Alike, Sim
<1>7. QED
  BY <1>4, <1>5, <1>6 DEF a, b

-----------------------------------------------------------------------------
(* Theorems                                                                *)

\* The machines are machines, and alike until they are apart.
EInv ==
  /\ x \in XMachine /\ p \in PMachine
  /\ apart \in BOOLEAN
  /\ ~ apart /\ start.sp = 0 => Alike(x, p)

LEMMA Initially == Init => EInv
<1> SUFFICES ASSUME Init PROVE EInv
  OBVIOUS
<1>1. PICK i \in Invocations :
        /\ x = X!Loaded(i.file, i.sp, i.lens) /\ p = P!Loaded(i.file, i.lens)
        /\ start = [sp |-> i.sp, lens |-> i.lens, fresh |-> TRUE] /\ apart = FALSE
  BY DEF Init
<1>2. x \in XMachine /\ p \in PMachine /\ (i.sp = 0 => Alike(x, p))
  BY <1>1, Starts
<1>3. start.sp = i.sp
  BY <1>1
<1>4. QED
  BY <1>1, <1>2, <1>3 DEF EInv

LEMMA Always ==
  ASSUME BitsByBit, EInv, [Next]_vars
  PROVE  EInv'
<1>1. CASE UNCHANGED vars
  BY <1>1 DEF EInv, vars
<1>2. CASE Step
  <2>1. x' = X!step(x) /\ p' = P!tick(p) /\ x \in XMachine /\ p \in PMachine
    BY <1>2 DEF Step, EInv
  <2>2. x' \in XMachine
    BY <2>1, XStepType
  <2>3. p' \in PMachine
    BY <2>1, PTickType
  <2>4. ASSUME ~ apart', start'.sp = 0 PROVE Alike(x', p')
    <3>1. ~ apart /\ ~ Differs(p) /\ x'.status # "undefined"
      BY <1>2, <2>4 DEF Step
    <3>2. start.sp = 0
      BY <1>2, <2>4 DEF Step
    <3>3. Alike(x, p)
      BY <3>1, <3>2 DEF EInv
    <3>4. Keeps(x', p')
      BY <2>1, <3>1, <3>3, LockStep
    <3>5. QED
      BY <3>1, <3>4 DEF Keeps
  <2>5. apart' \in BOOLEAN
    BY <1>2 DEF Step, EInv
  <2>6. QED
    BY <2>2, <2>3, <2>4, <2>5 DEF EInv
<1>3. QED
  BY <1>1, <1>2 DEF Next

\* xemu and pso, which were written separately, execute every program alike:
\* the same words in the registers and in the memory, at the same instruction
\* and stopping together, until the first instruction that Differs names.
THEOREM Alikeness == ASSUME BitsByBit PROVE Spec => []Lockstep
<1>1. Init => EInv
  BY Initially
<1>2. EInv /\ [Next]_vars => EInv'
  BY Always
<1>3. EInv => Lockstep
  BY DEF EInv, Alike, Sim, Lockstep, SameWords
<1>4. QED
  BY <1>1, <1>2, <1>3, PTL DEF Spec

LEMMA TwoBytes ==
  ASSUME NEW w \in Word
  PROVE  Hi(w) * BYTE + Lo(w) = w
<1>1. PICK b \in Nat : b = BYTE /\ b > 0
  BY Sizes
<1>2. PICK v \in Int : v = w
  BY WordInt
<1>3. PICK q \in Int, r \in 0..(b - 1) : v = b * q + r
  BY <1>1, Remainder
<1>4. (b * q + r) \div b = q /\ (b * q + r) % b = r
  BY <1>1, RemainderUnique
<1>5. Hi(w) = q /\ Lo(w) = r
  BY <1>1, <1>2, <1>3, <1>4 DEF Hi, Lo
<1>6. q * b + r = v
  BY <1>3
<1>7. QED
  BY <1>1, <1>2, <1>5, <1>6

LEMMA ArgStrings ==
  ASSUME NEW im \in Memory, NEW top \in Word, NEW lens \in Seq(Nat), NEW n \in Nat, NEW u \in Nat,
         NEW base \in Nat, NEW argv \in Nat, NEW s \in Nat, Laid(top, lens, n, u, base, argv, s),
         NEW k \in 1..n
  PROVE  /\ \A i \in 1..lens[k] : WithArgs(im, top, lens)[base + Used(lens, k - 1) + i - 1] = Chr(k, i)
         /\ WithArgs(im, top, lens)[base + Used(lens, k - 1) + lens[k]] = Num(0)
<1>1. ASSUME NEW i \in 1..lens[k] PROVE WithArgs(im, top, lens)[base + Used(lens, k - 1) + i - 1] = Chr(k, i)
  BY Args, SMTT(30)
<1>2. WithArgs(im, top, lens)[base + Used(lens, k - 1) + lens[k]] = Num(0)
  BY Args, SMTT(30)
<1>3. QED
  BY <1>1, <1>2

LEMMA ArgWords ==
  ASSUME NEW im \in Memory, NEW top \in Word, NEW lens \in Seq(Nat), NEW n \in Nat, NEW u \in Nat,
         NEW base \in Nat, NEW argv \in Nat, NEW s \in Nat, Laid(top, lens, n, u, base, argv, s),
         NEW a, a.image = WithArgs(im, top, lens)
  PROVE  \A j \in 1..(n + 5) : X!WordAt(a, s + 2 * (j - 1)) = FrameWords(top, lens)[j]
<1> SUFFICES ASSUME NEW j \in 1..(n + 5)
             PROVE  X!WordAt(a, s + 2 * (j - 1)) = FrameWords(top, lens)[j]
  OBVIOUS
<1>1. PICK w \in Word : w = FrameWords(top, lens)[j]
  BY Frame
<1>2. a.image[s + 2 * (j - 1)] = Num(Hi(w)) /\ a.image[s + 2 * (j - 1) + 1] = Num(Lo(w))
  BY <1>1, Args, SMTT(30)
<1>3. X!WordAt(a, s + 2 * (j - 1)) = Hi(w) * BYTE + Lo(w)
  BY <1>2 DEF X!WordAt, X!Val, Num
<1>4. QED
  BY <1>1, <1>3, TwoBytes

\* What is in memory before the first instruction.
AInv ==
  /\ start \in [sp : Word, lens : Seq(Nat), fresh : BOOLEAN]
  /\ start.fresh => \E im \in Memory :
       /\ start.lens # <<>>
       /\ Room(start.lens) <= IF start.sp = 0 THEN WORD ELSE start.sp
       /\ x = X!Loaded(im, start.sp, start.lens)

LEMMA Arrived == AInv => ArgsInPlace
<1> SUFFICES ASSUME AInv, start.fresh PROVE ArgsInPlace
  BY DEF ArgsInPlace
<1>1. PICK top \in Word, lens \in Seq(Nat) : top = start.sp /\ lens = start.lens
  BY DEF AInv
<1>2. PICK im \in Memory :
       /\ lens # <<>> /\ Room(lens) <= IF top = 0 THEN WORD ELSE top
       /\ x = X!Loaded(im, top, lens)
  BY <1>1 DEF AInv
<1>3. PICK n \in Nat, u \in Nat, base \in Nat, argv \in Nat, s \in Nat :
        Laid(top, lens, n, u, base, argv, s)
  BY <1>2, Layout
<1>4. /\ x.regs = [r \in Regs |-> IF r = SP THEN Sub(ArgvBase(top, lens), 8) ELSE 0]
      /\ x.image = WithArgs(im, top, lens)
  BY <1>2, XLoaded
<1>5. n = Len(lens) /\ n > 0 /\ argv = ArgvBase(top, lens) /\ s = Sub(argv, 8)
  BY <1>3 DEF Laid
<1>6. s + 8 = argv
  BY <1>3 DEF Laid
<1>7. x.regs[SP] = s
  BY <1>4, <1>5, Sizes
<1> DEFINE V(a) == X!WordAt(x, a)
           words == FrameWords(top, lens)
<1>8. \A j \in 1..(n + 5) : V(s + 2 * (j - 1)) = words[j]
  BY <1>3, <1>4, ArgWords
<1>9. /\ words[1] = 0 /\ words[2] = 6 /\ words[3] = argv /\ words[4] = n /\ words[n + 5] = 0
      /\ \A k \in 1..n : words[k + 4] = base + Used(lens, k - 1)
  <2>1. /\ words[1] = 0 /\ words[2] = 6 /\ words[3] = argv /\ words[4] = n /\ words[n + 5] = 0
        /\ \A k \in 1..n : words[k + 4] = base + Used(lens, k - 1)
        /\ \A j \in 1..(n + 5) : words[j] \in Word
    BY ONLY top \in Word, lens \in Seq(Nat), n \in Nat, u \in Nat, base \in Nat, argv \in Nat, s \in Nat, <1>3, Frame
  <2>2. QED
    BY <2>1
<1> HIDE DEF V, words
<1>10. V(s) = 0 /\ V(s + 2) = 6 /\ V(s + 4) = argv /\ V(s + 6) = n
  <2>1. 1 \in 1..(n + 5) /\ 2 \in 1..(n + 5) /\ 3 \in 1..(n + 5) /\ 4 \in 1..(n + 5)
    OBVIOUS
  <2>2. s + 2 * (1 - 1) = s /\ s + 2 * (2 - 1) = s + 2 /\ s + 2 * (3 - 1) = s + 4 /\ s + 2 * (4 - 1) = s + 6
    OBVIOUS
  <2>3. V(s + 2 * (1 - 1)) = 0 /\ V(s + 2 * (2 - 1)) = 6 /\ V(s + 2 * (3 - 1)) = argv /\ V(s + 2 * (4 - 1)) = n
    BY <1>8, <1>9, <2>1
  <2>4. QED
    BY <2>2, <2>3
<1>11. V(argv + n * 2) = 0
  <2>1. n + 5 \in 1..(n + 5) /\ s + 2 * ((n + 5) - 1) = argv + n * 2
    BY <1>6
  <2>2. V(s + 2 * ((n + 5) - 1)) = 0
    BY <1>8, <1>9, <2>1
  <2>3. QED
    BY <2>1, <2>2
<1>12. ASSUME NEW k \in 1..n
       PROVE  /\ V(argv + (k - 1) * 2) = base + Used(lens, k - 1)
              /\ \A i \in 1..lens[k] : x.image[V(argv + (k - 1) * 2) + i - 1] = Chr(k, i)
              /\ x.image[V(argv + (k - 1) * 2) + lens[k]] = Num(0)
  <2>1. k + 4 \in 1..(n + 5) /\ s + 2 * ((k + 4) - 1) = argv + (k - 1) * 2
    BY <1>6
  <2>2. V(s + 2 * ((k + 4) - 1)) = base + Used(lens, k - 1)
    BY <1>8, <1>9, <2>1
  <2>3. /\ \A i \in 1..lens[k] : x.image[base + Used(lens, k - 1) + i - 1] = Chr(k, i)
        /\ x.image[base + Used(lens, k - 1) + lens[k]] = Num(0)
    <3>1. ASSUME NEW i \in 1..lens[k] PROVE WithArgs(im, top, lens)[base + Used(lens, k - 1) + i - 1] = Chr(k, i)
      BY <1>3, ArgStrings, SMTT(30)
    <3>2. WithArgs(im, top, lens)[base + Used(lens, k - 1) + lens[k]] = Num(0)
      BY <1>3, ArgStrings
    <3>3. QED
      BY <1>4, <3>1, <3>2
  <2>4. V(argv + (k - 1) * 2) = base + Used(lens, k - 1)
    BY <2>1, <2>2
  <2>5. QED
    BY <2>3, <2>4
<1>13. 3 * BPW = 6 /\ 2 * BPW = 4 /\ BPW = 2
  BY DEF BPW
<1>14. QED
  BY <1>1, <1>5, <1>7, <1>10, <1>11, <1>12, <1>13, SMTT(30) DEF ArgsInPlace, V

\* A program that starts, under xemu and wherever its uninitialised inisp puts
\* the stack, finds argc, argv[] and the strings as pushArgs was given them,
\* and none of the three areas overwrites another.
THEOREM ArgumentsArrive == Spec => []ArgsInPlace
<1>1. Init => AInv
  <2> SUFFICES ASSUME Init PROVE AInv
    OBVIOUS
  <2>1. PICK i \in Invocations :
          /\ x = X!Loaded(i.file, i.sp, i.lens)
          /\ start = [sp |-> i.sp, lens |-> i.lens, fresh |-> TRUE]
    BY DEF Init
  <2>2. /\ i.file \in Memory /\ i.sp \in Word /\ i.lens \in Seq(Nat) /\ i.lens # <<>>
        /\ Room(i.lens) <= IF i.sp = 0 THEN WORD ELSE i.sp
    BY InvocationAssumption
  <2>3. start.sp = i.sp /\ start.lens = i.lens /\ start \in [sp : Word, lens : Seq(Nat), fresh : BOOLEAN]
    BY <2>1, <2>2
  <2>4. QED
    BY <2>1, <2>2, <2>3 DEF AInv
<1>2. AInv /\ [Next]_vars => AInv'
  <2> SUFFICES ASSUME AInv, [Next]_vars PROVE AInv'
    OBVIOUS
  <2>1. CASE UNCHANGED vars
    BY <2>1 DEF AInv, vars
  <2>2. CASE Step
    <3>1. start' = [start EXCEPT !.fresh = FALSE] /\ start \in [sp : Word, lens : Seq(Nat), fresh : BOOLEAN]
      BY <2>2 DEF Step, AInv
    <3>2. start' \in [sp : Word, lens : Seq(Nat), fresh : BOOLEAN] /\ ~ start'.fresh
      BY <3>1
    <3>3. QED
      BY <3>2 DEF AInv
  <2>3. QED
    BY <2>1, <2>2 DEF Next
<1>3. QED
  BY <1>1, <1>2, Arrived, PTL DEF Spec

-----------------------------------------------------------------------------
(* PSHR and then POPR                                                      *)

LEMMA Distinct ==
  ASSUME NEW v \in Int, NEW u \in Int, 0 < u - v, u - v < WORD
  PROVE  v % WORD # u % WORD
<1> SUFFICES ASSUME u % WORD = v % WORD PROVE FALSE
  OBVIOUS
<1>1. PICK n \in Nat : n = WORD
  BY Sizes
<1>2. PICK q \in Int : u = v + n * q
  BY <1>1, WordApart
<1>3. 0 < n * q /\ n * q < n
  BY <1>1, <1>2
<1>4. ~ (q >= 1)
  <2> SUFFICES ASSUME q >= 1 PROVE FALSE
    OBVIOUS
  <2>1. n * q >= n
    OBVIOUS
  <2>2. QED
    BY <1>3, <2>1
<1>5. ~ (q <= 0)
  <2> SUFFICES ASSUME q <= 0 PROVE FALSE
    OBVIOUS
  <2>1. n * q <= 0
    OBVIOUS
  <2>2. QED
    BY <1>3, <2>1
<1>6. QED
  BY <1>4, <1>5

\* Memory holds the word w at the address v.
Holds(im, v, w) ==
  im[v % WORD] = <<"num", Hi(w)>> /\ im[(v + 1) % WORD] = <<"num", Lo(w)>>

LEMMA StoredAt ==
  ASSUME NEW im \in Memory, NEW v \in Int, NEW w \in Word
  PROVE  /\ Stored(im, v % WORD, w) = [[im EXCEPT ![v % WORD] = <<"num", Hi(w)>>] EXCEPT ![(v + 1) % WORD] = <<"num", Lo(w)>>]
         /\ v % WORD \in Word /\ (v + 1) % WORD \in Word /\ v % WORD # (v + 1) % WORD
<1>1. v % WORD \in Word /\ (v + 1) % WORD \in Word /\ v + 1 \in Int
  BY WordMod, v + 1 \in Int
<1>2. v % WORD \in Int /\ v % WORD = (v % WORD) % WORD
  BY <1>1, WordInt
<1>3. ((v % WORD) + 1) % WORD = (v + 1) % WORD
  BY <1>2, Near
<1>4. v % WORD # (v + 1) % WORD
  <2>1. PICK u \in Int : u = v + 1
    OBVIOUS
  <2>2. 0 < u - v /\ u - v < WORD
    BY <2>1, Sizes
  <2>3. QED
    BY <2>1, <2>2, Distinct
<1>5. QED
  BY <1>1, <1>3, <1>4 DEF Stored

LEMMA HoldsStored ==
  ASSUME NEW im \in Memory, NEW v \in Int, NEW w \in Word
  PROVE  Holds(Stored(im, v % WORD, w), v, w)
<1> DEFINE a == v % WORD
           d == (v + 1) % WORD
           f == <<"num", Hi(w)>>
           g == <<"num", Lo(w)>>
<1>1. Stored(im, a, w) = [[im EXCEPT ![a] = f] EXCEPT ![d] = g] /\ a \in Word /\ d \in Word /\ a # d
  BY StoredAt
<1>2. im = [c \in Word |-> im[c]]
  BY DEF Memory
<1> HIDE DEF a, d, f, g
<1>3. Stored(im, a, w)[a] = f /\ Stored(im, a, w)[d] = g
  BY <1>1, <1>2
<1>4. QED
  BY <1>3 DEF Holds, a, d, f, g

LEMMA HoldsStill ==
  ASSUME NEW im \in Memory, NEW v \in Int, NEW w \in Word, NEW u \in Int, NEW z,
         1 < u - v, u - v + 1 < WORD, Holds(im, u, z)
  PROVE  Holds(Stored(im, v % WORD, w), u, z)
<1> DEFINE a == v % WORD
           d == (v + 1) % WORD
           e == u % WORD
           h == (u + 1) % WORD
           f == <<"num", Hi(w)>>
           g == <<"num", Lo(w)>>
<1>1. Stored(im, a, w) = [[im EXCEPT ![a] = f] EXCEPT ![d] = g] /\ a \in Word /\ d \in Word /\ a # d
  BY ONLY im \in Memory, v \in Int, w \in Word, StoredAt
<1>2. im = [c \in Word |-> im[c]]
  BY DEF Memory
<1>3. e \in Word /\ h \in Word
  BY WordMod, u + 1 \in Int
<1>4. PICK i \in Int, j \in Int, n \in Nat : i = v + 1 /\ j = u + 1 /\ n = WORD
  BY Sizes
<1>5. /\ 0 < u - v /\ u - v < n /\ 0 < j - v /\ j - v < n
      /\ 0 < u - i /\ u - i < n /\ 0 < j - i /\ j - i < n
  BY <1>4
<1>6. a # e
  BY <1>4, <1>5, Distinct
<1>7. a # h
  BY <1>4, <1>5, Distinct
<1>8. d # e
  BY <1>4, <1>5, Distinct
<1>9. d # h
  BY <1>4, <1>5, Distinct
<1> HIDE DEF a, d, e, h, f, g
<1>10. Stored(im, a, w)[e] = im[e] /\ Stored(im, a, w)[h] = im[h]
  BY <1>1, <1>2, <1>3, <1>6, <1>7, <1>8, <1>9
<1>11. QED
  BY <1>10 DEF Holds, a, e, h

LEMMA ReadHeld ==
  ASSUME NEW m \in PMachine, NEW v \in Int, NEW u \in Int, v % WORD = u % WORD, NEW w \in Word,
         Holds(m.image, u, w)
  PROVE  P!ReadWord(m, v) \in Int /\ P!ReadWord(m, v) % WORD = w
<1>1. (v + 1) % WORD = (u + 1) % WORD
  BY Near
<1>2. m.image[v % WORD][2] = Hi(w) /\ m.image[(v + 1) % WORD][2] = Lo(w)
  BY <1>1 DEF Holds
<1>3. P!ReadWord(m, v) \in Int /\ P!ReadWord(m, v) % WORD = Hi(w) * BYTE + Lo(w)
  BY <1>2, Reads
<1>4. QED
  BY <1>3, TwoBytes

\* The stack of all registers is smaller than the memory.
LEMMA FewRegisters == 2 * SP < WORD
<1>1. PICK b \in Nat, n \in Nat : b = BYTE /\ n = NREG /\ b >= 4 /\ n > 1 /\ b % n = 0
  BY Sizes
<1>2. PICK q \in Int : b = n * q + (b % n)
  <2>1. n > 0 /\ b \in Int
    BY <1>1
  <2>2. QED
    BY ONLY n \in Nat, <2>1, Remainder
<1>3. b = n * q
  BY <1>1, <1>2
<1>4. q >= 1
  <2> SUFFICES ASSUME q <= 0 PROVE FALSE
    OBVIOUS
  <2>1. n * q <= 0
    OBVIOUS
  <2>2. QED
    BY <1>1, <1>3, <2>1
<1>5. n * q >= n
  BY <1>4
<1>6. n <= b
  BY <1>3, <1>5
<1>7. b * b >= 2 * b
  BY <1>1
<1>8. 2 * (n - 1) < b * b
  BY <1>6, <1>7
<1>9. QED
  BY <1>1, <1>8, Sizes

\* How many of the registers before k are in a mask.
Counts(c, mask) ==
  /\ c \in [0..SP -> Nat] /\ c[0] = 0
  /\ \A r \in 0..(SP - 1) : c[r + 1] = (IF Bit(mask, r) THEN c[r] + 1 ELSE c[r])

LEMMA Counted ==
  ASSUME NEW mask
  PROVE  \E c : Counts(c, mask) /\ \A k \in 0..SP : c[k] <= k
<1> DEFINE F == [k \in 1..SP |-> [e \in Nat |-> IF Bit(mask, k - 1) THEN e + 1 ELSE e]]
<1>1. SP \in Nat
  BY Sizes
<1>2. \A k \in 1..SP : F[k] \in [Nat -> Nat]
  OBVIOUS
<1>3. PICK c : Runs(SP, Nat, 0, F, c)
  <2> HIDE DEF F
  <2>1. QED
    BY <1>1, <1>2, RunExists
<1>4. c \in [0..SP -> Nat] /\ c[0] = 0 /\ \A k \in 1..SP : c[k] = F[k][c[k - 1]]
  BY <1>3 DEF Runs
<1>5. ASSUME NEW r \in 0..(SP - 1) PROVE c[r + 1] = (IF Bit(mask, r) THEN c[r] + 1 ELSE c[r]) /\ c[r] \in Nat
  <2>1. PICK k \in 1..SP : k = r + 1 /\ k - 1 = r
    BY <1>1
  <2>2. r \in 0..SP
    BY <1>1
  <2>3. c[r] \in Nat
    BY <1>4, <2>2
  <2>4. c[k] = F[k][c[r]]
    BY <1>4, <2>1
  <2>5. F[k] = [e \in Nat |-> IF Bit(mask, r) THEN e + 1 ELSE e]
    BY <2>1
  <2>6. QED
    BY <2>1, <2>3, <2>4, <2>5
<1> HIDE DEF F
<1>6. Counts(c, mask)
  BY <1>4, <1>5 DEF Counts
<1> DEFINE S == {k \in 0..SP : c[k] <= k}
<1>7. 0 \in S
  BY <1>1, <1>4
<1>8. ASSUME NEW k \in 0..(SP - 1), k \in S PROVE k + 1 \in S
  <2>1. PICK d \in Nat : d = c[k] /\ d <= k
    BY <1>5, <1>8
  <2>2. c[k + 1] = d \/ c[k + 1] = d + 1
    BY <1>5, <2>1
  <2>3. PICK e \in Nat : e = c[k + 1] /\ e <= k + 1
    BY <2>1, <2>2
  <2>4. k + 1 \in 0..SP
    BY <1>1
  <2>5. QED
    BY <2>3, <2>4
<1> HIDE DEF S
<1>9. \A k \in 0..SP : k \in S
  BY ONLY <1>1, <1>7, <1>8, UpTo
<1>10. QED
  BY <1>6, <1>9 DEF S

\* pso after PSHR of the registers before k: the stack pointer is moved and
\* the registers of the mask are below where it was.
Saved(m, b, mask, c, k) ==
  /\ m \in PMachine
  /\ m.regs[SP] % WORD = (b.regs[SP] - 2 * c[k]) % WORD
  /\ \A r \in 0..(SP - 1) : m.regs[r] = b.regs[r]
  /\ \A r \in 0..(SP - 1) : r < k /\ Bit(mask, r) =>
       /\ c[r + 1] >= 1 /\ c[r + 1] <= c[k]
       /\ Holds(m.image, b.regs[SP] - 2 * c[r + 1], b.regs[r] % WORD)

LEMMA SavesOne ==
  ASSUME NEW b \in PMachine, NEW mask, NEW c, Counts(c, mask), \A k \in 0..SP : c[k] <= k,
         NEW k \in 0..(SP - 1), NEW m, Saved(m, b, mask, c, k), Bit(mask, k)
  PROVE  Saved(P!Pushed(m, m.regs[k]), b, mask, c, k + 1)
<1>1. SP \in Nat /\ k \in Nat /\ k + 1 \in 0..SP /\ k \in 0..SP /\ SP \in Regs /\ k \in Regs /\ k # SP
  BY Sizes DEF Regs
<1>2. PICK d \in Nat : d = c[k] /\ c[k + 1] = d + 1 /\ d <= k
  BY <1>1 DEF Counts
<1>3. m \in PMachine
  BY DEF Saved
<1>4. PICK s \in Int, v \in Int, t \in Int : s = b.regs[SP] /\ v = m.regs[k] /\ t = m.regs[SP] /\ v = b.regs[k]
  <2>1. m.regs[k] = b.regs[k]
    BY DEF Saved
  <2>2. QED
    BY <1>1, <1>3, <2>1, PFields
<1>5. t % WORD = (s - 2 * d) % WORD
  BY <1>2, <1>4 DEF Saved
<1> DEFINE n == P!Pushed(m, v)
           h == HostInt(t - 2)
<1>6. /\ n \in PMachine /\ h \in Int /\ h % WORD = (t - 2) % WORD
      /\ n.regs = [m.regs EXCEPT ![SP] = h] /\ n.image = Stored(m.image, h % WORD, v % WORD)
  BY <1>3, <1>4, PPushes
<1>7. PICK i \in Int : i = s - 2 * (d + 1)
  OBVIOUS
<1>8. h % WORD = i % WORD
  <2>1. PICK e \in Int : e = s - 2 * d
    OBVIOUS
  <2>2. (t - 2) % WORD = (e - 2) % WORD
    BY <1>5, <2>1, Near
  <2>3. e - 2 = i
    BY <1>7, <2>1
  <2>4. QED
    BY <1>6, <2>2, <2>3
<1> HIDE DEF n, h
<1>9. m.regs \in [Regs -> Int] /\ m.image \in Memory /\ v % WORD \in Word
  BY <1>3, PFields, WordMod
<1>10. n.regs[SP] % WORD = (s - 2 * (d + 1)) % WORD
  BY <1>1, <1>6, <1>7, <1>8, <1>9
<1>11. \A r \in 0..(SP - 1) : n.regs[r] = b.regs[r]
  <2> SUFFICES ASSUME NEW r \in 0..(SP - 1) PROVE n.regs[r] = b.regs[r]
    OBVIOUS
  <2>1. r \in Regs /\ r # SP
    BY <1>1 DEF Regs, SP
  <2>2. n.regs[r] = m.regs[r]
    BY <1>6, <1>9, <2>1
  <2>3. QED
    BY <2>2 DEF Saved
<1>12. n.image = Stored(m.image, i % WORD, v % WORD)
  BY <1>6, <1>8
<1>13. ASSUME NEW r \in 0..(SP - 1), r < k + 1, Bit(mask, r)
       PROVE  /\ c[r + 1] >= 1 /\ c[r + 1] <= d + 1
              /\ Holds(n.image, s - 2 * c[r + 1], b.regs[r] % WORD)
  <2>1. CASE r = k
    <3>1. c[r + 1] = d + 1 /\ b.regs[r] = v
      BY <1>2, <1>4, <2>1
    <3>2. Holds(Stored(m.image, i % WORD, v % WORD), i, v % WORD)
      BY <1>9, HoldsStored
    <3>3. Holds(n.image, s - 2 * (d + 1), v % WORD)
      BY <1>7, <1>12, <3>2
    <3>4. d + 1 >= 1 /\ d + 1 <= d + 1
      OBVIOUS
    <3>5. QED
      BY <3>1, <3>3, <3>4
  <2>2. CASE r # k
    <3>1. r < k
      BY <1>13, <2>2
    <3>2. c[r + 1] >= 1 /\ c[r + 1] <= d /\ Holds(m.image, s - 2 * c[r + 1], b.regs[r] % WORD)
      BY <1>2, <1>4, <1>13, <3>1 DEF Saved
    <3>3. PICK e \in Nat : e = c[r + 1]
      <4>1. r + 1 \in 0..SP
        BY <1>1
      <4>2. QED
        BY <4>1 DEF Counts
    <3>4. e >= 1 /\ e <= d
      BY <3>2, <3>3
    <3>5. PICK u \in Int : u = s - 2 * e
      OBVIOUS
    <3>6. PICK w \in Nat : w = WORD /\ 2 * SP < w
      BY Sizes, FewRegisters
    <3>7. 1 < u - i /\ u - i + 1 < w
      <4>1. d <= k /\ k <= SP - 1 /\ i = s - 2 * (d + 1) /\ u = s - 2 * e
        BY <1>1, <1>2, <1>7, <3>5
      <4>2. SP \in Nat /\ 2 * SP < w
        BY <1>1, <3>6
      <4>3. QED
        BY ONLY d \in Nat, e \in Nat, k \in Int, s \in Int, i \in Int, u \in Int, w \in Nat, <3>4, <4>1, <4>2
    <3>8. Holds(m.image, u, b.regs[r] % WORD)
      BY <3>2, <3>3, <3>5
    <3>9. Holds(Stored(m.image, i % WORD, v % WORD), u, b.regs[r] % WORD)
      BY <1>9, <3>6, <3>7, <3>8, HoldsStill
    <3>10. Holds(n.image, s - 2 * c[r + 1], b.regs[r] % WORD)
      BY <1>12, <3>3, <3>5, <3>9
    <3>11. e >= 1 /\ e <= d + 1
      BY <3>4
    <3>12. QED
      BY <3>3, <3>10, <3>11
  <2>3. QED
    BY <2>1, <2>2
<1>14. Saved(n, b, mask, c, k + 1)
  BY <1>2, <1>4, <1>6, <1>10, <1>11, <1>13 DEF Saved
<1>15. QED
  BY <1>4, <1>14 DEF n

LEMMA SavesNone ==
  ASSUME NEW b \in PMachine, NEW mask, NEW c, Counts(c, mask),
         NEW k \in 0..(SP - 1), NEW m, Saved(m, b, mask, c, k), ~ Bit(mask, k)
  PROVE  Saved(m, b, mask, c, k + 1)
<1>1. c[k + 1] = c[k]
  BY DEF Counts
<1>2. ASSUME NEW r \in 0..(SP - 1), r < k + 1, Bit(mask, r) PROVE r < k
  BY <1>2
<1>3. QED
  BY <1>1, <1>2 DEF Saved

LEMMA SavesAll ==
  ASSUME NEW b \in PMachine, NEW mask, NEW c, Counts(c, mask % WORD), \A k \in 0..SP : c[k] <= k
  PROVE  Saved(P!pshr(b, mask), b, mask % WORD, c, SP)
<1>1. PICK g \in [0..SP -> PMachine] :
        /\ g[0] = b /\ P!pshr(b, mask) = g[SP]
        /\ \A k \in 1..SP : g[k] = PPshrStep(g[k - 1], mask, k - 1)
  BY PPshrRuns
<1>2. SP \in Nat
  BY Sizes
<1> DEFINE M == mask % WORD
           S == {k \in 0..SP : Saved(g[k], b, M, c, k)}
<1>3. 0 \in S
  <2>1. PICK s \in Int : s = b.regs[SP]
    BY Sizes, PFields
  <2>2. s - 2 * 0 = s /\ c[0] = 0
    BY DEF Counts
  <2>3. b.regs[SP] % WORD = (b.regs[SP] - 2 * c[0]) % WORD
    BY <2>1, <2>2
  <2>4. \A r \in 0..(SP - 1) : ~ (r < 0)
    BY <1>2
  <2>5. Saved(b, b, M, c, 0)
    BY <2>3, <2>4 DEF Saved
  <2>6. QED
    BY <1>1, <1>2, <2>5
<1>4. ASSUME NEW k \in 0..(SP - 1), k \in S PROVE k + 1 \in S
  <2>1. PICK j \in 1..SP : j = k + 1 /\ j - 1 = k /\ j \in 0..SP
    BY <1>2
  <2>2. g[j] = PPshrStep(g[k], mask, k)
    BY <1>1, <2>1
  <2>3. P!Bit(M, k) = Bit(M, k)
    BY PNames
  <2>4. PICK m : m = g[k] /\ Saved(m, b, M, c, k)
    BY <1>4
  <2> HIDE DEF M, S
  <2>5. Saved(g[j], b, M, c, k + 1)
    <3>1. CASE Bit(M, k)
      <4>1. g[j] = P!Pushed(m, m.regs[k])
        BY <2>2, <2>3, <2>4, <3>1 DEF PPshrStep, M
      <4>2. Saved(P!Pushed(m, m.regs[k]), b, M, c, k + 1)
        <5>1. Counts(c, M)
          BY DEF M
        <5>2. QED
          BY <2>4, <3>1, <5>1, SavesOne
      <4>3. QED
        BY <4>1, <4>2
    <3>2. CASE ~ Bit(M, k)
      <4>1. g[j] = m
        BY <2>2, <2>3, <2>4, <3>2 DEF PPshrStep, M
      <4>2. Counts(c, M)
        BY DEF M
      <4>3. QED
        BY <2>4, <3>2, <4>1, <4>2, SavesNone
    <3>3. QED
      BY <3>1, <3>2
  <2>6. QED
    BY <2>1, <2>5 DEF S
<1> HIDE DEF S
<1>5. \A k \in 0..SP : k \in S
  BY ONLY <1>2, <1>3, <1>4, UpTo
<1>6. QED
  BY <1>1, <1>2, <1>5 DEF S

\* And while POPR gives them back, the highest first: k are left.
Restored(n, b, im, c, k) ==
  /\ n \in PMachine /\ n.image = im
  /\ n.regs[SP] % WORD = (b.regs[SP] - 2 * c[k]) % WORD
  /\ \A r \in 0..(SP - 1) : n.regs[r] % WORD = b.regs[r] % WORD

LEMMA RestoresOne ==
  ASSUME NEW b \in PMachine, NEW mask, NEW c, Counts(c, mask), NEW m, Saved(m, b, mask, c, SP),
         NEW r \in 0..(SP - 1), NEW n, Restored(n, b, m.image, c, r + 1), Bit(mask, r)
  PROVE  Restored(P!Popped(n, r), b, m.image, c, r)
<1>1. SP \in Nat /\ r < SP /\ SP \in Regs /\ r \in Regs /\ r # SP /\ r \in 0..SP
  BY Sizes DEF Regs
<1>2. PICK d \in Nat : d = c[r] /\ c[r + 1] = d + 1
  BY <1>1 DEF Counts
<1>3. n \in PMachine /\ n.image = m.image
  BY DEF Restored
<1>4. PICK s \in Int, t \in Int, e \in Int : s = b.regs[SP] /\ t = n.regs[SP] /\ e = b.regs[r]
  BY <1>1, <1>3, PFields
<1>5. PICK i \in Int : i = s - 2 * (d + 1)
  OBVIOUS
<1>6. t % WORD = i % WORD
  BY <1>2, <1>4, <1>5 DEF Restored
<1>7. PICK w \in Word : w = e % WORD
  BY WordMod
<1>8. Holds(n.image, i, w)
  BY <1>1, <1>2, <1>3, <1>4, <1>5, <1>7 DEF Saved
<1> DEFINE q == P!Popped(n, r)
           h == HostInt(t + 2)
           v == P!ReadWord(n, t)
<1>9. v \in Int /\ v % WORD = w
  BY <1>3, <1>6, <1>8, ReadHeld
<1>10. /\ q \in PMachine /\ h \in Int /\ h % WORD = (t + 2) % WORD /\ q.image = n.image
       /\ q.regs = [[n.regs EXCEPT ![SP] = h] EXCEPT ![r] = v]
  BY <1>1, <1>3, <1>4, PPops
<1>11. (t + 2) % WORD = (s - 2 * d) % WORD
  <2>1. (t + 2) % WORD = (i + 2) % WORD
    BY <1>6, Near
  <2>2. i + 2 = s - 2 * d
    BY <1>5
  <2>3. QED
    BY <2>1, <2>2
<1>12. n.regs \in [Regs -> Int]
  BY <1>3, PFields
<1> HIDE DEF q, h, v
<1>13. q.regs[SP] = h /\ q.regs[r] = v /\ \A j \in Regs : j # SP /\ j # r => q.regs[j] = n.regs[j]
  BY <1>1, <1>10, <1>12
<1>14. \A j \in 0..(SP - 1) : q.regs[j] % WORD = b.regs[j] % WORD
  <2> SUFFICES ASSUME NEW j \in 0..(SP - 1) PROVE q.regs[j] % WORD = b.regs[j] % WORD
    OBVIOUS
  <2>1. j \in Regs /\ j # SP
    BY <1>1 DEF Regs, SP
  <2>2. CASE j = r
    BY <1>4, <1>7, <1>9, <1>13, <2>2
  <2>3. CASE j # r
    <3>1. q.regs[j] = n.regs[j]
      BY <1>13, <2>1, <2>3
    <3>2. QED
      BY <3>1 DEF Restored
  <2>4. QED
    BY <2>2, <2>3
<1>15. q.regs[SP] % WORD = (b.regs[SP] - 2 * c[r]) % WORD
  BY <1>2, <1>4, <1>10, <1>11, <1>13
<1>16. Restored(q, b, m.image, c, r)
  BY <1>3, <1>10, <1>14, <1>15 DEF Restored
<1>17. QED
  BY <1>16 DEF q

LEMMA PPair ==
  ASSUME NEW b \in PMachine, NEW mask
  PROVE  /\ P!popr(P!pshr(b, mask), mask) \in PMachine
         /\ \A r \in Regs : P!popr(P!pshr(b, mask), mask).regs[r] % WORD = b.regs[r] % WORD
<1> DEFINE M == mask % WORD
           m == P!pshr(b, mask)
<1>1. PICK c : Counts(c, M) /\ \A k \in 0..SP : c[k] <= k
  BY Counted
<1>2. Saved(m, b, M, c, SP)
  BY <1>1, SavesAll
<1>3. m \in PMachine
  BY <1>2 DEF Saved
<1>4. PICK g \in [0..SP -> PMachine] :
        /\ g[0] = m /\ P!popr(m, mask) = g[SP]
        /\ \A k \in 1..SP : g[k] = PPoprStep(g[k - 1], mask, SP - k)
  BY <1>3, PPoprRuns
<1>5. SP \in Nat /\ Regs = 0..SP
  BY Sizes DEF Regs
<1> HIDE DEF m
<1> DEFINE S == {k \in 0..SP : Restored(g[k], b, m.image, c, SP - k)}
<1>6. 0 \in S
  <2>1. Restored(m, b, m.image, c, SP)
    BY <1>2, <1>3 DEF Saved, Restored
  <2>2. SP - 0 = SP /\ 0 \in 0..SP
    BY <1>5
  <2>3. QED
    BY <1>4, <2>1, <2>2
<1>7. ASSUME NEW k \in 0..(SP - 1), k \in S PROVE k + 1 \in S
  <2>1. PICK j \in 1..SP : j = k + 1 /\ j - 1 = k /\ j \in 0..SP
    BY <1>5
  <2>2. PICK r \in 0..(SP - 1) : r = SP - j /\ SP - k = r + 1
    BY <1>5, <2>1
  <2>3. g[j] = PPoprStep(g[k], mask, r)
    BY <1>4, <2>1, <2>2
  <2>4. P!Bit(M, r) = Bit(M, r)
    BY PNames
  <2>5. PICK n : n = g[k] /\ Restored(n, b, m.image, c, r + 1)
    BY <1>7, <2>2
  <2> HIDE DEF M, S
  <2>6. Restored(g[j], b, m.image, c, r)
    <3>1. CASE Bit(M, r)
      <4>1. g[j] = P!Popped(n, r)
        BY <2>3, <2>4, <2>5, <3>1 DEF PPoprStep, M
      <4>2. Restored(P!Popped(n, r), b, m.image, c, r)
        BY <1>1, <1>2, <2>5, <3>1, RestoresOne
      <4>3. QED
        BY <4>1, <4>2
    <3>2. CASE ~ Bit(M, r)
      <4>1. g[j] = n
        BY <2>3, <2>4, <2>5, <3>2 DEF PPoprStep, M
      <4>2. c[r + 1] = c[r]
        BY <1>1, <3>2 DEF Counts
      <4>3. QED
        BY <2>5, <4>1, <4>2 DEF Restored
    <3>3. QED
      BY <3>1, <3>2
  <2>7. QED
    BY <2>1, <2>2, <2>6 DEF S
<1> HIDE DEF S
<1>8. \A k \in 0..SP : k \in S
  BY ONLY <1>5, <1>6, <1>7, UpTo
<1>9. Restored(P!popr(m, mask), b, m.image, c, 0)
  <2>1. SP \in S /\ SP - SP = 0
    BY <1>5, <1>8
  <2>2. QED
    BY <1>4, <2>1 DEF S
<1> DEFINE n == P!popr(m, mask)
<1>10. n \in PMachine /\ \A r \in 0..(SP - 1) : n.regs[r] % WORD = b.regs[r] % WORD
  BY <1>9 DEF Restored
<1>11. n.regs[SP] % WORD = b.regs[SP] % WORD
  <2>1. PICK s \in Int : s = b.regs[SP]
    BY <1>5, PFields
  <2>2. s - 2 * 0 = s /\ c[0] = 0
    BY <1>1 DEF Counts
  <2>3. QED
    BY <1>9, <2>1, <2>2 DEF Restored
<1> HIDE DEF n
<1>12. \A r \in Regs : n.regs[r] % WORD = b.regs[r] % WORD
  BY <1>5, <1>10, <1>11
<1>13. QED
  BY <1>10, <1>12 DEF n, m

\* pso in the state of xemu: what it keeps, xemu keeps.
LEMMA XPair ==
  ASSUME NEW a \in XMachine, NEW mask \in Word, ~ Bit(mask, SP),
         X!popr(X!pshr(a, mask), mask).status # "undefined"
  PROVE  X!popr(X!pshr(a, mask), mask).regs = a.regs
<1> DEFINE b == [regs |-> a.regs, pc |-> a.pc, cc |-> a.cc, last |-> 0, image |-> a.image,
                 status |-> a.status, code |-> a.code]
           m == X!popr(X!pshr(a, mask), mask)
           n == P!popr(P!pshr(b, mask), mask)
<1>1. Regs # {} /\ \A w \in Word : w \in Int /\ w % WORD = w
  BY WordInt, Sizes
<1>2. /\ a.regs \in [Regs -> Word] /\ a.regs \in [Regs -> Int] /\ a.pc \in Int /\ a.cc \in 0..2
      /\ a.image \in Memory /\ a.status \in Status /\ a.code \in Int
  BY <1>1, XFields
<1>3. b \in PMachine
  BY <1>2 DEF PMachine
<1>4. /\ b.regs = a.regs /\ b.image = a.image
  OBVIOUS
<1> HIDE DEF b
<1>5. Sim(a, b)
  BY <1>1, <1>2, <1>3, <1>4 DEF Sim
<1>6. Loop(a, b, a, b)
  BY <1>3, <1>5 DEF Loop
<1>7. mask % WORD = mask
  BY WordInt
<1>8. Loop(a, b, X!pshr(a, mask), P!pshr(b, mask))
  BY <1>6, <1>7, LoopPshr
<1>9. Loop(a, b, m, n)
  BY <1>7, <1>8, LoopPopr
<1>10. m \in XMachine /\ \A r \in Regs : n.regs[r] % WORD = m.regs[r]
  BY <1>9 DEF Loop, Sim
<1>11. \A r \in Regs : n.regs[r] % WORD = b.regs[r] % WORD
  BY <1>3, PPair
<1> HIDE DEF m, n
<1>12. \A r \in Regs : m.regs[r] = a.regs[r]
  BY <1>1, <1>2, <1>4, <1>10, <1>11
<1>13. m.regs \in [Regs -> Word]
  BY <1>10, XFields
<1>14. m.regs = a.regs
  BY <1>2, <1>12, <1>13
<1>15. QED
  BY <1>14 DEF m

LEMMA NoStackPointer ==
  ASSUME NEW mask \in 0..(2^SP - 1)
  PROVE  mask \in Word /\ ~ Bit(mask, SP)
<1>1. PICK e \in Nat : e = 2^SP /\ e > 0 /\ e <= WORD
  <2>1. SP \in 0..(INTBITS - 1)
    BY Sizes, HostAssumption, MachineAssumption
  <2>2. QED
    BY <2>1, HostAssumption
<1>2. mask \in 0..(e - 1) /\ mask \in Word
  BY <1>1, Sizes
<1>3. PICK z \in Int : z = 0
  OBVIOUS
<1>4. (e * z + mask) \div e = z
  BY <1>1, <1>2, RemainderUnique
<1>5. e * z + mask = mask
  BY <1>1, <1>2, <1>3
<1>6. mask \div 2^SP = 0
  BY <1>1, <1>3, <1>4, <1>5
<1>7. QED
  BY <1>2, <1>6 DEF Bit

\* PSHR and POPR with the same mask are inverse in both emulators, in every
\* state a program can reach: pso's loops push what they pop though they run
\* over ints and wrap only in memory, and no word is stored over another.
THEOREM PairsRestore == ASSUME BitsByBit PROVE Spec => []PairRestores
<1>1. Init => EInv
  BY Initially
<1>2. EInv /\ [Next]_vars => EInv'
  BY Always
<1>3. EInv => PairRestores
  <2> SUFFICES ASSUME EInv, NEW mask \in 0..(2^SP - 1)
               PROVE  /\ LET m == X!popr(X!pshr(x, mask), mask) IN
                         m.status # "undefined" => m.regs = x.regs
                      /\ LET m == P!popr(P!pshr(p, mask), mask) IN
                         \A r \in Regs : (m.regs[r] - p.regs[r]) % WORD = 0
    BY DEF PairRestores
  <2>1. x \in XMachine /\ p \in PMachine
    BY DEF EInv
  <2>2. mask \in Word /\ ~ Bit(mask, SP)
    BY NoStackPointer
  <2>3. X!popr(X!pshr(x, mask), mask).status # "undefined" => X!popr(X!pshr(x, mask), mask).regs = x.regs
    BY <2>1, <2>2, XPair
  <2>4. ASSUME NEW r \in Regs PROVE (P!popr(P!pshr(p, mask), mask).regs[r] - p.regs[r]) % WORD = 0
    <3>1. /\ P!popr(P!pshr(p, mask), mask) \in PMachine
          /\ P!popr(P!pshr(p, mask), mask).regs[r] % WORD = p.regs[r] % WORD
      BY <2>1, PPair
    <3>2. PICK i \in Int, j \in Int : i = P!popr(P!pshr(p, mask), mask).regs[r] /\ j = p.regs[r]
      BY <2>1, <3>1, PFields
    <3>3. (i - j) % WORD = (j - j) % WORD
      BY <3>1, <3>2, Near
    <3>4. j - j = 0
      OBVIOUS
    <3>5. 0 % WORD = 0
      BY WordInt, Sizes
    <3>6. QED
      BY <3>2, <3>3, <3>4, <3>5
  <2>5. QED
    BY <2>3, <2>4
<1>4. QED
  BY <1>1, <1>2, <1>3, PTL DEF Spec

=============================================================================
