--------------------------- MODULE HandlesProofs ---------------------------
(* Proofs about the handles of both emulators, for every number of slots,  *)
(* names, files and records.                                               *)
EXTENDS Handles, SequenceTheorems, WellFoundedInduction, TLAPS

Inode == 1..MAXINODE
Status == {"running", "exit", "aborted", "event", "shutdown"}
File == [ino : Nat, mode : {"", "r", "w"}, pos : Nat, pend : Seq(Nat)]

Emulator(n) ==
  [files : [0..(n - 1) -> File], dir : [Names -> Nat],
   data : [Inode -> Seq(Nat)], next : Nat, status : Status, ret : Int,
   log : [Inode -> Seq(Nat)]]

\* A slot is free, or a file that exists; what is read has no buffer.
SlotOK(e, h) ==
  \/ e.files[h] = NULL
  \/ /\ e.files[h].ino \in 1..(e.next - 1)
     /\ e.files[h].mode = "w" \/ (e.files[h].mode = "r" /\ e.files[h].pend = <<>>)

\* A handle that writes to a file is its only one.
Alone(e) ==
  \A h, k \in DOMAIN e.files :
    h # k /\ e.files[h].mode = "w" => e.files[k].ino # e.files[h].ino

\* The disk and the buffer hold together what was written.
Kept(e, h) ==
  e.files[h].mode = "w" =>
    e.log[e.files[h].ino] = e.data[e.files[h].ino] \o e.files[h].pend

\* No handle writes to file i.
Unwritten(e, i) ==
  \A h \in DOMAIN e.files : e.files[h].mode = "w" => e.files[h].ino # i

Sound(e) ==
  /\ e.next \in 1..(MAXINODE + 1)
  /\ \A f \in Names : e.dir[f] \in 0..(e.next - 1)
  /\ \A h \in DOMAIN e.files : SlotOK(e, h) /\ Kept(e, h)
  /\ Alone(e)
  /\ \A i \in Inode : Unwritten(e, i) => e.data[i] = e.log[i]
  /\ e.status \in {"exit", "shutdown"} => e.data = e.log

LEMMA NullFile == NULL \in File /\ NULL.ino = 0 /\ NULL.mode = "" /\ NULL.pos = 0
                  /\ NULL.pend = <<>>
<1> DEFINE p == <<>>
<1>1. p \in Seq(Nat)
  OBVIOUS
<1> HIDE DEF p
<1>2. [ino |-> 0, mode |-> "", pos |-> 0, pend |-> p] \in File
  BY <1>1 DEF File
<1>3. QED
  BY <1>2 DEF NULL, p

\* The fields of an emulator.
LEMMA Fields ==
  ASSUME NEW n \in Nat, NEW e \in Emulator(n)
  PROVE  /\ DOMAIN e.files = 0..(n - 1) /\ \A h \in 0..(n - 1) : e.files[h] \in File
         /\ e.dir \in [Names -> Nat] /\ e.data \in [Inode -> Seq(Nat)]
         /\ e.log \in [Inode -> Seq(Nat)] /\ e.next \in Nat /\ e.ret \in Int
         /\ e.status \in Status /\ e.files \in [0..(n - 1) -> File]
  BY DEF Emulator

LEMMA FileFields ==
  ASSUME NEW a \in File
  PROVE  /\ a.ino \in Nat /\ a.mode \in {"", "r", "w"} /\ a.pos \in Nat
         /\ a.pend \in Seq(Nat)
  BY DEF File

LEMMA InodeRange ==
  \A q \in 1..(MAXINODE + 1) : \A i \in 1..(q - 1) : i \in Inode
  BY BoundsAssumption DEF Inode

\* A used slot is of a file.
LEMMA UsedSlot ==
  ASSUME NEW n \in Nat, NEW e \in Emulator(n), Sound(e), NEW h \in 0..(n - 1),
         e.files[h].mode # "" \/ e.files[h] # NULL \/ e.files[h].ino # 0
  PROVE  /\ e.files[h].ino \in 1..(e.next - 1) /\ e.files[h].ino \in Inode
         /\ e.files[h].mode \in {"r", "w"}
         /\ (e.files[h].mode = "r" => e.files[h].pend = <<>>)
<1>1. e.files[h] # NULL
  BY NullFile
<1>2. /\ e.files[h].ino \in 1..(e.next - 1)
      /\ e.files[h].mode = "w" \/ (e.files[h].mode = "r" /\ e.files[h].pend = <<>>)
  <2>1. h \in DOMAIN e.files
    BY Fields
  <2>2. SlotOK(e, h)
    BY <2>1 DEF Sound
  <2>3. QED
    BY <1>1, <2>2 DEF SlotOK
<1>3. e.files[h].ino \in Inode
  <2>1. e.next \in 1..(MAXINODE + 1)
    BY DEF Sound
  <2>2. QED
    BY <1>2, <2>1, InodeRange
<1>4. QED
  BY <1>2, <1>3

-----------------------------------------------------------------------------
(* What the operations do to an emulator, field by field.                  *)

LEMMA AnswerEffect ==
  ASSUME NEW n \in Nat, NEW e \in Emulator(n), NEW r \in Int
  PROVE  /\ Answer(e, r) \in Emulator(n) /\ Answer(e, r).ret = r
         /\ Answer(e, r).files = e.files /\ Answer(e, r).dir = e.dir
         /\ Answer(e, r).data = e.data /\ Answer(e, r).log = e.log
         /\ Answer(e, r).next = e.next /\ Answer(e, r).status = e.status
  BY DEF Answer, Emulator

\* Soundness is about these fields.
LEMMA SoundFields ==
  ASSUME NEW e, NEW f, Sound(e), f.files = e.files, f.dir = e.dir,
         f.data = e.data, f.log = e.log, f.next = e.next, f.status = e.status
  PROVE  Sound(f)
<1>1. \A h : (SlotOK(e, h) => SlotOK(f, h)) /\ (Kept(e, h) => Kept(f, h))
  BY DEF SlotOK, Kept
<1>2. Alone(f) /\ \A i : Unwritten(f, i) => Unwritten(e, i)
  BY DEF Sound, Alone, Unwritten
<1>3. QED
  BY <1>1, <1>2 DEF Sound

LEMMA AnswerSound ==
  ASSUME NEW n \in Nat, NEW e \in Emulator(n), NEW r \in Int, Sound(e)
  PROVE  Sound(Answer(e, r))
  BY AnswerEffect, SoundFields

\* F with v at x.
Put(F, x, v) == [F EXCEPT ![x] = v]

\* A handle after its buffer is written back, or after a record more is in it.
Emptied(a) == [a EXCEPT !.pend = <<>>]
Longer(a, rec) == [a EXCEPT !.pend = Append(a.pend, rec)]

LEMMA FlushEffect ==
  ASSUME NEW n \in Nat, NEW e \in Emulator(n), NEW h \in 0..(n - 1),
         e.files[h].ino \in Inode
  PROVE  LET i == e.files[h].ino IN
         /\ Flush(e, h) \in Emulator(n)
         /\ Flush(e, h).files = Put(e.files, h, Emptied(e.files[h]))
         /\ Flush(e, h).data = Put(e.data, i, e.data[i] \o e.files[h].pend)
         /\ Flush(e, h).dir = e.dir /\ Flush(e, h).log = e.log
         /\ Flush(e, h).next = e.next /\ Flush(e, h).status = e.status
         /\ Flush(e, h).ret = e.ret
<1> DEFINE i == e.files[h].ino
           a == Emptied(e.files[h])
           F == [e.files EXCEPT ![h] = a]
           D == [e.data EXCEPT ![i] = e.data[i] \o e.files[h].pend]
<1>1. e.files[h] \in File /\ e.files[h].pend \in Seq(Nat) /\ e.data[i] \in Seq(Nat)
      /\ e.files \in [0..(n - 1) -> File] /\ e.data \in [Inode -> Seq(Nat)]
  BY Fields, FileFields
<1>2. a \in File
  <2> DEFINE p == <<>>
  <2>1. p \in Seq(Nat)
    OBVIOUS
  <2> HIDE DEF p
  <2>2. [e.files[h] EXCEPT !.pend = p] \in File
    BY <1>1, <2>1 DEF File
  <2>3. QED
    BY <2>2 DEF p, Emptied
<1>3. F \in [0..(n - 1) -> File]
  BY <1>1, <1>2
<1>4. D \in [Inode -> Seq(Nat)]
  <2>1. e.data[i] \o e.files[h].pend \in Seq(Nat)
    BY <1>1, ConcatProperties
  <2>2. QED
    BY <1>1, <2>1
<1>5. Flush(e, h) = [e EXCEPT !.files = F, !.data = D]
  <2>1. CASE e.files[h].pend = <<>>
    <3>1. a = e.files[h]
      BY <1>1, <2>1 DEF File, Emptied
    <3>2. F = e.files
      BY <1>1, <3>1
    <3>3. e.data[i] \o e.files[h].pend = e.data[i]
      BY <1>1, <2>1, ConcatEmptySeq
    <3>4. D = e.data
      BY <1>1, <3>3
    <3> HIDE DEF F, D
    <3>5. QED
      BY <2>1, <3>2, <3>4 DEF Flush, Emulator
  <2>2. CASE e.files[h].pend # <<>>
    <3>1. Flush(e, h) = [e EXCEPT !.data[i] = e.data[i] \o e.files[h].pend,
                                  !.files[h].pend = <<>>]
      BY <2>2 DEF Flush
    <3>2. [e EXCEPT !.data[i] = e.data[i] \o e.files[h].pend,
                    !.files[h].pend = <<>>] = [e EXCEPT !.data = D, !.files = F]
      BY DEF Emulator, Emptied
    <3> HIDE DEF F, D
    <3>3. QED
      BY <3>1, <3>2 DEF Emulator
  <2>3. QED
    BY <2>1, <2>2
<1> HIDE DEF F, D
<1>6. QED
  BY <1>3, <1>4, <1>5 DEF Emulator, F, D, Put

-----------------------------------------------------------------------------
(* Soundness after a call on one handle.                                   *)

\* What is being read has no writer, so that the disk holds all of it.
LEMMA ReadersSeeAll ==
  ASSUME NEW n \in Nat, NEW e \in Emulator(n), Sound(e), NEW h \in 0..(n - 1),
         e.files[h].mode = "r"
  PROVE  /\ e.files[h].ino \in Inode
         /\ e.data[e.files[h].ino] = e.log[e.files[h].ino]
<1>1. e.files[h].ino \in Inode
  BY UsedSlot
<1>2. DOMAIN e.files = 0..(n - 1)
  BY Fields
<1>3. Unwritten(e, e.files[h].ino)
  BY <1>2 DEF Sound, Alone, Unwritten
<1>4. QED
  BY <1>1, <1>3 DEF Sound

\* Slot h and file j change; no other handle of j writes.
LEMMA SlotChange ==
  ASSUME NEW n \in Nat, NEW e \in Emulator(n), NEW f \in Emulator(n), Sound(e),
         NEW h \in 0..(n - 1), NEW j \in Inode,
         f.status = "running", f.next \in 1..(MAXINODE + 1), e.next <= f.next,
         \A g \in Names : f.dir[g] \in 0..(f.next - 1),
         \A k \in 0..(n - 1) : k # h => f.files[k] = e.files[k],
         \A i \in Inode : i # j => f.data[i] = e.data[i] /\ f.log[i] = e.log[i],
         \A k \in 0..(n - 1) : k # h /\ e.files[k].ino = j =>
                                 e.files[k].mode # "w" /\ f.files[h].mode # "w",
         f.files[h].mode = "w" => f.files[h].ino = j,
         f.files[h].mode # "w" => f.files[h].ino = 0 \/ f.files[h].ino = j,
         e.files[h].mode = "w" => e.files[h].ino = j,
         SlotOK(f, h), Kept(f, h),
         f.files[h].mode # "w" => f.data[j] = f.log[j]
  PROVE  Sound(f)
<1>1. DOMAIN e.files = 0..(n - 1) /\ DOMAIN f.files = 0..(n - 1)
  BY Fields
<1>2. e.next \in Nat /\ f.next \in Nat /\ j # 0
  BY Fields DEF Inode
<1>3. ASSUME NEW k \in 0..(n - 1), k # h
      PROVE  SlotOK(f, k) /\ Kept(f, k)
  <2>1. f.files[k] = e.files[k] /\ SlotOK(e, k) /\ Kept(e, k)
    BY <1>1, <1>3 DEF Sound
  <2>2. SlotOK(f, k)
    <3>1. \A i \in 1..(e.next - 1) : i \in 1..(f.next - 1)
      BY <1>2
    <3>2. QED
      BY <2>1, <3>1 DEF SlotOK
  <2>3. Kept(f, k)
    <3>1. SUFFICES ASSUME e.files[k].mode = "w"
                   PROVE  f.log[e.files[k].ino] = f.data[e.files[k].ino] \o e.files[k].pend
      BY <2>1 DEF Kept
    <3>2. e.files[k].ino # j /\ e.files[k].ino \in Inode
      BY <1>3, <3>1, UsedSlot
    <3>3. QED
      BY <2>1, <3>1, <3>2 DEF Kept
  <2>4. QED
    BY <2>2, <2>3
<1>4. Alone(f)
  <2> SUFFICES ASSUME NEW a \in 0..(n - 1), NEW k \in 0..(n - 1), a # k,
                      f.files[a].mode = "w"
               PROVE  f.files[k].ino # f.files[a].ino
    BY <1>1 DEF Alone
  <2>1. CASE a # h /\ k # h
    <3>1. f.files[a] = e.files[a] /\ f.files[k] = e.files[k]
      BY <2>1
    <3>2. Alone(e)
      BY DEF Sound
    <3>3. e.files[k].ino # e.files[a].ino
      BY <1>1, <3>1, <3>2 DEF Alone
    <3>4. QED
      BY <3>1, <3>3
  <2>2. CASE a = h
    <3>1. f.files[a].ino = j /\ f.files[k] = e.files[k] /\ k # h
      BY <2>2
    <3>2. e.files[k].ino # j
      BY <2>2, <3>1
    <3>3. QED
      BY <3>1, <3>2
  <2>3. CASE k = h
    <3>1. e.files[a].mode = "w" /\ f.files[a] = e.files[a] /\ a # h
      BY <2>3
    <3>2. e.files[a].ino # j /\ e.files[a].ino \in Inode
      BY <3>1, UsedSlot
    <3>3. f.files[h].ino = 0 \/ f.files[h].ino = j
      OBVIOUS
    <3>4. e.files[a].ino # 0
      BY <3>2 DEF Inode
    <3>5. QED
      BY <2>3, <3>1, <3>2, <3>3, <3>4
  <2>4. QED
    BY <2>1, <2>2, <2>3
<1>5. ASSUME NEW i \in Inode, Unwritten(f, i)
      PROVE  f.data[i] = f.log[i]
  <2>1. CASE i = j
    BY <1>1, <1>5, <2>1 DEF Unwritten
  <2>2. CASE i # j
    <3>1. Unwritten(e, i)
      BY <1>1, <1>5, <2>2 DEF Unwritten
    <3>2. QED
      BY <2>2, <3>1 DEF Sound
  <2>3. QED
    BY <2>1, <2>2
<1>6. \A k \in DOMAIN f.files : SlotOK(f, k) /\ Kept(f, k)
  BY <1>1, <1>3
<1>7. QED
  BY <1>4, <1>5, <1>6 DEF Sound

-----------------------------------------------------------------------------
(* The calls on an open handle.                                            *)

\* fseek and fread move the position.
Moved(a, p) == [a EXCEPT !.pos = p]
Seek(e, h, p) == [e EXCEPT !.files[h].pos = p]

LEMMA PosEffect ==
  ASSUME NEW n \in Nat, NEW e \in Emulator(n), Sound(e), e.status = "running",
         NEW h \in 0..(n - 1), e.files[h] # NULL, NEW p \in Nat
  PROVE  LET f == Seek(e, h, p) IN
         /\ f \in Emulator(n) /\ Sound(f)
         /\ f.files = Put(e.files, h, Moved(e.files[h], p))
         /\ f.dir = e.dir /\ f.data = e.data /\ f.log = e.log
         /\ f.next = e.next /\ f.status = e.status /\ f.ret = e.ret
<1> DEFINE f == Seek(e, h, p)
           a == Moved(e.files[h], p)
           F == [e.files EXCEPT ![h] = a]
           j == e.files[h].ino
<1>1. e.files[h] \in File /\ e.files \in [0..(n - 1) -> File]
  BY Fields
<1>2. /\ a \in File /\ a.ino = j /\ a.mode = e.files[h].mode
      /\ a.pend = e.files[h].pend
  BY <1>1 DEF File, Moved
<1>3. F \in [0..(n - 1) -> File]
  BY <1>1, <1>2
<1>4. f = [e EXCEPT !.files = F]
  BY DEF Emulator, Seek, Moved
<1>5. F[h] = a /\ \A k \in 0..(n - 1) : k # h => F[k] = e.files[k]
  BY <1>1
<1> HIDE DEF F, f
<1>6. /\ f \in Emulator(n) /\ f.files = F /\ f.dir = e.dir /\ f.data = e.data
      /\ f.log = e.log /\ f.next = e.next /\ f.status = e.status /\ f.ret = e.ret
  BY <1>3, <1>4 DEF Emulator
<1> HIDE DEF a
<1>7. /\ j \in Inode /\ j \in 1..(e.next - 1) /\ e.files[h].mode \in {"r", "w"}
      /\ (e.files[h].mode = "r" => e.files[h].pend = <<>>)
  BY UsedSlot
<1>8. Sound(f)
  <2>1. SlotOK(f, h)
    BY <1>2, <1>5, <1>6, <1>7 DEF SlotOK
  <2>2. Kept(f, h)
    <3>1. Kept(e, h)
      BY Fields DEF Sound
    <3>2. QED
      BY <1>2, <1>5, <1>6, <3>1 DEF Kept
  <2>3. e.files[h].mode # "w" => f.data[j] = f.log[j]
    BY <1>6, <1>7, ReadersSeeAll
  <2>4. \A k \in 0..(n - 1) : k # h /\ e.files[k].ino = j =>
                                e.files[k].mode # "w" /\ e.files[h].mode # "w"
    <3>1. DOMAIN e.files = 0..(n - 1) /\ Alone(e)
      BY Fields DEF Sound
    <3>2. QED
      BY <3>1 DEF Alone
  <2>5. /\ e.next \in 1..(MAXINODE + 1) /\ e.next <= e.next
        /\ \A g \in Names : e.dir[g] \in 0..(e.next - 1)
    BY DEF Sound
  <2> HIDE DEF j
  <2>6. /\ f.files[h].ino = j /\ f.files[h].mode = e.files[h].mode
        /\ e.files[h].ino = j /\ f.status = "running"
        /\ \A k \in 0..(n - 1) : k # h => f.files[k] = e.files[k]
        /\ \A i \in Inode : i # j => f.data[i] = e.data[i] /\ f.log[i] = e.log[i]
    BY <1>2, <1>5, <1>6 DEF j
  <2>7. /\ f.next \in 1..(MAXINODE + 1) /\ e.next <= f.next
        /\ \A g \in Names : f.dir[g] \in 0..(f.next - 1)
    BY <1>6, <2>5
  <2>8. QED
    BY <1>6, <1>7, <2>1, <2>2, <2>3, <2>4, <2>6, <2>7, SlotChange
<1>9. QED
  BY <1>6, <1>8 DEF F, a, f, Put

\* fclose writes the buffer back and frees the slot.
LEMMA ClosedEffect ==
  ASSUME NEW n \in Nat, NEW e \in Emulator(n), Sound(e), e.status = "running",
         NEW h \in 0..(n - 1), e.files[h] # NULL
  PROVE  LET f == Closed(e, h) IN
         /\ f \in Emulator(n) /\ Sound(f)
         /\ f.files = Put(e.files, h, NULL)
         /\ f.dir = e.dir /\ f.log = e.log
         /\ f.next = e.next /\ f.status = e.status /\ f.ret = 0
<1> DEFINE g == Flush(e, h)
           F == [e.files EXCEPT ![h] = NULL]
           j == e.files[h].ino
           f == [g EXCEPT !.files[h] = NULL]
<1>1. /\ j \in Inode /\ j \in 1..(e.next - 1) /\ e.files[h].mode \in {"r", "w"}
      /\ (e.files[h].mode = "r" => e.files[h].pend = <<>>)
  BY UsedSlot
<1>2. /\ g \in Emulator(n)
      /\ g.files = [e.files EXCEPT ![h] = Emptied(e.files[h])]
      /\ g.data = [e.data EXCEPT ![j] = e.data[j] \o e.files[h].pend]
      /\ g.dir = e.dir /\ g.log = e.log
      /\ g.next = e.next /\ g.status = e.status /\ g.ret = e.ret
  BY <1>1, FlushEffect DEF Put
<1> HIDE DEF g
<1>3. e.files \in [0..(n - 1) -> File] /\ e.data \in [Inode -> Seq(Nat)]
      /\ e.files[h].pend \in Seq(Nat)
  BY Fields, FileFields
<1>4. F \in [0..(n - 1) -> File] /\ F[h] = NULL
      /\ \A k \in 0..(n - 1) : k # h => F[k] = e.files[k]
  BY <1>3, NullFile
<1>5. f = [g EXCEPT !.files = F]
  <2>1. [g.files EXCEPT ![h] = NULL] = F
    BY <1>2, <1>3
  <2> HIDE DEF F
  <2>2. QED
    BY <1>2, <2>1 DEF Emulator
<1> HIDE DEF F, f
<1>6. /\ f \in Emulator(n) /\ f.files = F /\ f.dir = e.dir /\ f.data = g.data
      /\ f.log = e.log /\ f.next = e.next /\ f.status = e.status
  BY <1>2, <1>4, <1>5 DEF Emulator
<1>7. Sound(f)
  <2>1. SlotOK(f, h) /\ Kept(f, h) /\ f.files[h].ino = 0 /\ f.files[h].mode = ""
    BY <1>4, <1>6, NullFile DEF SlotOK, Kept
  <2>2. f.data[j] = f.log[j]
    <3>1. f.data[j] = e.data[j] \o e.files[h].pend /\ f.log[j] = e.log[j]
      BY <1>1, <1>2, <1>3, <1>6
    <3>2. CASE e.files[h].mode = "w"
      <4>1. Kept(e, h)
        BY Fields DEF Sound
      <4>2. QED
        BY <3>1, <3>2, <4>1 DEF Kept
    <3>3. CASE e.files[h].mode = "r"
      <4>1. e.data[j] = e.log[j]
        BY <3>3, ReadersSeeAll
      <4>2. e.data[j] \o e.files[h].pend = e.data[j]
        BY <1>1, <1>3, <3>3, ConcatEmptySeq
      <4>3. QED
        BY <3>1, <4>1, <4>2
    <3>4. QED
      BY <1>1, <3>2, <3>3
  <2>3. \A k \in 0..(n - 1) : k # h /\ e.files[k].ino = j => e.files[k].mode # "w"
    <3>1. DOMAIN e.files = 0..(n - 1) /\ Alone(e)
      BY Fields DEF Sound
    <3>2. QED
      BY <3>1 DEF Alone
  <2>4. /\ e.next \in 1..(MAXINODE + 1) /\ e.next <= e.next
        /\ \A a \in Names : e.dir[a] \in 0..(e.next - 1)
    BY DEF Sound
  <2>5. \A i \in Inode : i # j => f.data[i] = e.data[i] /\ f.log[i] = e.log[i]
    BY <1>2, <1>3, <1>6
  <2> HIDE DEF j
  <2>6. /\ e.files[h].ino = j /\ f.status = "running"
        /\ \A k \in 0..(n - 1) : k # h => f.files[k] = e.files[k]
    BY <1>4, <1>6 DEF j
  <2>7. /\ f.next \in 1..(MAXINODE + 1) /\ e.next <= f.next
        /\ \A a \in Names : f.dir[a] \in 0..(f.next - 1)
    BY <1>6, <2>4
  <2>8. \A k \in 0..(n - 1) : k # h /\ e.files[k].ino = j =>
                                e.files[k].mode # "w" /\ f.files[h].mode # "w"
    BY <2>1, <2>3
  <2>9. /\ f.files[h].mode # "w" /\ f.files[h].ino = 0
        /\ SlotOK(f, h) /\ Kept(f, h)
    BY <2>1
  <2>10. f \in Emulator(n) /\ j \in Inode
    BY <1>1, <1>6
  <2>11. QED
    BY <2>2, <2>5, <2>6, <2>7, <2>8, <2>9, <2>10, SlotChange
<1>8. Closed(e, h) = Answer(f, 0)
  BY DEF Closed, f, g
<1>9. QED
  BY SMTT(30), <1>6, <1>7, <1>8, AnswerEffect, AnswerSound DEF F, Put

LEMMA AppendToConcat ==
  ASSUME NEW s \in Seq(Nat), NEW t \in Seq(Nat), NEW r \in Nat
  PROVE  Append(s \o t, r) = s \o Append(t, r)
<1>1. /\ s \o t \in Seq(Nat) /\ Len(s \o t) = Len(s) + Len(t)
      /\ \A i \in 1..(Len(s) + Len(t)) :
           (s \o t)[i] = IF i <= Len(s) THEN s[i] ELSE t[i - Len(s)]
  BY ConcatProperties
<1>2. /\ Append(t, r) \in Seq(Nat) /\ Len(Append(t, r)) = Len(t) + 1
      /\ Append(t, r)[Len(t) + 1] = r
      /\ \A i \in 1..Len(t) : Append(t, r)[i] = t[i]
  BY AppendProperties
<1>3. /\ s \o Append(t, r) \in Seq(Nat)
      /\ Len(s \o Append(t, r)) = Len(s) + Len(Append(t, r))
      /\ \A i \in 1..(Len(s) + Len(Append(t, r))) :
           (s \o Append(t, r))[i] = IF i <= Len(s) THEN s[i] ELSE Append(t, r)[i - Len(s)]
  BY <1>2, ConcatProperties
<1>4. /\ Append(s \o t, r) \in Seq(Nat)
      /\ Len(Append(s \o t, r)) = Len(s \o t) + 1
      /\ Append(s \o t, r)[Len(s \o t) + 1] = r
      /\ \A i \in 1..Len(s \o t) : Append(s \o t, r)[i] = (s \o t)[i]
  BY <1>1, AppendProperties
<1> DEFINE a == Append(s \o t, r)
           b == s \o Append(t, r)
<1>5. Len(a) = Len(b) /\ Len(a) = Len(s) + Len(t) + 1
      /\ Len(s) \in Nat /\ Len(t) \in Nat
  BY <1>1, <1>2, <1>3, <1>4
<1>6. ASSUME NEW i \in 1..Len(a)
      PROVE  a[i] = b[i]
  <2>1. CASE i <= Len(s)
    BY <1>1, <1>2, <1>3, <1>4, <1>5, <2>1
  <2>2. CASE i > Len(s) /\ i <= Len(s) + Len(t)
    <3>1. i - Len(s) \in 1..Len(t)
      BY <1>5, <2>2
    <3>2. QED
      BY <1>1, <1>2, <1>3, <1>4, <1>5, <2>2, <3>1
  <2>3. CASE i = Len(s) + Len(t) + 1
    <3>1. i - Len(s) = Len(t) + 1 /\ ~(i <= Len(s))
      BY <1>5, <2>3
    <3>2. QED
      BY <1>1, <1>2, <1>3, <1>4, <1>5, <2>3, <3>1
  <2>4. QED
    BY <1>5, <2>1, <2>2, <2>3
<1>7. QED
  <2> HIDE DEF a, b
  <2>1. a \in Seq(Nat) /\ b \in Seq(Nat)
    BY <1>3, <1>4 DEF a, b
  <2>2. a = b
    BY <1>5, <1>6, <2>1, SeqEqual
  <2>3. QED
    BY <2>2 DEF a, b

\* The other handles of a file that is being written.
LEMMA WriterAlone ==
  ASSUME NEW n \in Nat, NEW e \in Emulator(n), Sound(e), NEW h \in 0..(n - 1),
         e.files[h].mode = "w"
  PROVE  \A k \in 0..(n - 1) : k # h => e.files[k].ino # e.files[h].ino
<1>1. DOMAIN e.files = 0..(n - 1) /\ Alone(e)
  BY Fields DEF Sound
<1>2. QED
  BY <1>1 DEF Alone

\* A buffer is written back; the file stays open.
LEMMA FlushSound ==
  ASSUME NEW n \in Nat, NEW e \in Emulator(n), Sound(e), e.status = "running",
         NEW h \in 0..(n - 1), e.files[h].mode = "w"
  PROVE  Sound(Flush(e, h))
<1> DEFINE f == Flush(e, h)
           a == Emptied(e.files[h])
           j == e.files[h].ino
<1>1. j \in Inode /\ j \in 1..(e.next - 1)
  BY UsedSlot
<1>2. /\ f \in Emulator(n) /\ f.files = [e.files EXCEPT ![h] = a]
      /\ f.data = [e.data EXCEPT ![j] = e.data[j] \o e.files[h].pend]
      /\ f.dir = e.dir /\ f.log = e.log /\ f.next = e.next /\ f.status = e.status
  BY ZenonT(30), <1>1, FlushEffect DEF Put
<1> HIDE DEF f
<1>3. e.files \in [0..(n - 1) -> File] /\ e.data \in [Inode -> Seq(Nat)]
      /\ e.files[h] \in File /\ e.files[h].pend \in Seq(Nat)
      /\ e.log \in [Inode -> Seq(Nat)]
  BY Fields, FileFields
<1>4. a.ino = j /\ a.mode = "w" /\ a.pend = <<>>
  BY <1>3 DEF File, Emptied
<1> HIDE DEF a
<1>5. f.files[h] = a /\ \A k \in 0..(n - 1) : k # h => f.files[k] = e.files[k]
  BY <1>2, <1>3
<1>6. SlotOK(f, h)
  BY <1>1, <1>2, <1>4, <1>5 DEF SlotOK
<1>7. Kept(f, h)
  <2>1. Kept(e, h)
    BY Fields DEF Sound
  <2>2. e.log[j] = e.data[j] \o e.files[h].pend /\ e.log[j] \in Seq(Nat)
    BY <1>1, <1>3, <2>1 DEF Kept
  <2>3. e.log[j] \o <<>> = e.log[j]
    BY <2>2, ConcatEmptySeq
  <2>4. f.data[j] = e.log[j] /\ f.log[j] = e.log[j]
    BY <1>1, <1>2, <1>3, <2>2
  <2> HIDE DEF j
  <2>5. QED
    BY <1>4, <1>5, <2>3, <2>4 DEF Kept
<1>8. \A i \in Inode : i # j => f.data[i] = e.data[i] /\ f.log[i] = e.log[i]
  BY <1>2, <1>3
<1>9. \A k \in 0..(n - 1) : k # h /\ e.files[k].ino = j =>
                              e.files[k].mode # "w" /\ f.files[h].mode # "w"
  BY WriterAlone
<1>10. /\ e.next \in 1..(MAXINODE + 1) /\ e.next <= e.next
       /\ \A g \in Names : e.dir[g] \in 0..(e.next - 1)
  BY DEF Sound
<1> HIDE DEF j
<1>11. /\ f.next \in 1..(MAXINODE + 1) /\ e.next <= f.next
       /\ \A g \in Names : f.dir[g] \in 0..(f.next - 1) /\ f.status = "running"
  BY <1>2, <1>10
<1>12. f.files[h].mode = "w" /\ f.files[h].ino = j /\ e.files[h].ino = j
       /\ f.status = "running"
  BY <1>2, <1>4, <1>5 DEF j
<1>13. QED
  BY ZenonT(30), <1>1, <1>2, <1>5, <1>6, <1>7, <1>8, <1>9, <1>11, <1>12, SlotChange DEF f

\* fwrite puts a record into the buffer.
Buffer(e, h, rec) ==
  [e EXCEPT !.files[h].pend = Append(@, rec), !.log[e.files[h].ino] = Append(@, rec)]

LEMMA BufferEffect ==
  ASSUME NEW n \in Nat, NEW e \in Emulator(n), Sound(e), e.status = "running",
         NEW h \in 0..(n - 1), e.files[h].mode = "w", NEW rec \in Nat
  PROVE  LET j == e.files[h].ino
             f == Buffer(e, h, rec)
         IN
         /\ f \in Emulator(n) /\ Sound(f) /\ j \in Inode
         /\ f.files = Put(e.files, h, Longer(e.files[h], rec))
         /\ f.log = Put(e.log, j, Append(e.log[j], rec))
         /\ f.dir = e.dir /\ f.next = e.next /\ f.status = e.status
<1> DEFINE j == e.files[h].ino
           p == Append(e.files[h].pend, rec)
           a == Longer(e.files[h], rec)
           F == [e.files EXCEPT ![h] = a]
           L == [e.log EXCEPT ![j] = Append(e.log[j], rec)]
           f == Buffer(e, h, rec)
<1>1. j \in Inode /\ j \in 1..(e.next - 1)
  BY UsedSlot
<1>2. e.files \in [0..(n - 1) -> File] /\ e.data \in [Inode -> Seq(Nat)]
      /\ e.files[h] \in File /\ e.files[h].pend \in Seq(Nat)
      /\ e.log \in [Inode -> Seq(Nat)]
  BY Fields, FileFields
<1>3. p \in Seq(Nat) /\ L \in [Inode -> Seq(Nat)]
  BY <1>1, <1>2
<1>4. f = [e EXCEPT !.files = F, !.log = L]
  BY DEF Emulator, Buffer, Longer
<1> HIDE DEF f, p
<1>5. a \in File /\ a.ino = j /\ a.mode = "w" /\ a.pend = p
  <2>1. a = [e.files[h] EXCEPT !.pend = p]
    BY DEF p, Longer
  <2>2. QED
    BY <1>2, <1>3, <2>1 DEF File
<1>6. F \in [0..(n - 1) -> File] /\ F[h] = a
      /\ \A k \in 0..(n - 1) : k # h => F[k] = e.files[k]
  BY <1>2, <1>5
<1>7. L[j] = Append(e.log[j], rec) /\ \A i \in Inode : i # j => L[i] = e.log[i]
  BY <1>1, <1>2
<1> HIDE DEF F, L, a
<1>8. /\ f \in Emulator(n) /\ f.files = F /\ f.log = L /\ f.data = e.data
      /\ f.dir = e.dir /\ f.next = e.next /\ f.status = e.status
  BY <1>3, <1>4, <1>6 DEF Emulator
<1>9. SlotOK(f, h)
  BY <1>1, <1>5, <1>6, <1>8 DEF SlotOK
<1>10. Kept(f, h)
  <2>1. Kept(e, h)
    BY Fields DEF Sound
  <2>2. e.log[j] = e.data[j] \o e.files[h].pend /\ e.data[j] \in Seq(Nat)
    BY <1>1, <1>2, <2>1 DEF Kept
  <2>3. Append(e.log[j], rec) = e.data[j] \o p
    BY ZenonT(30), <1>2, <2>2, AppendToConcat DEF p
  <2> HIDE DEF j
  <2>4. QED
    BY <1>5, <1>6, <1>7, <1>8, <2>3 DEF Kept
<1>11. \A k \in 0..(n - 1) : k # h /\ e.files[k].ino = j =>
                               e.files[k].mode # "w" /\ f.files[h].mode # "w"
  BY WriterAlone
<1>12. /\ e.next \in 1..(MAXINODE + 1) /\ e.next <= e.next
       /\ \A g \in Names : e.dir[g] \in 0..(e.next - 1)
  BY DEF Sound
<1>13. e.files[h].ino = j
  OBVIOUS
<1> HIDE DEF j
<1>14. /\ f.next \in 1..(MAXINODE + 1) /\ e.next <= f.next
       /\ \A g \in Names : f.dir[g] \in 0..(f.next - 1)
  BY <1>8, <1>12
<1>15. /\ f.files[h].mode = "w" /\ f.files[h].ino = j /\ f.status = "running"
       /\ \A k \in 0..(n - 1) : k # h => f.files[k] = e.files[k]
       /\ \A i \in Inode : i # j => f.data[i] = e.data[i] /\ f.log[i] = e.log[i]
  BY <1>5, <1>6, <1>7, <1>8
<1>16. Sound(f)
  BY <1>1, <1>8, <1>9, <1>10, <1>11, <1>13, <1>14, <1>15, SlotChange
<1>17. QED
  BY <1>1, <1>8, <1>16 DEF F, L, a, p, f, j, Put

LEMMA WroteEffect ==
  ASSUME NEW n \in Nat, NEW e \in Emulator(n), Sound(e), e.status = "running",
         NEW h \in 0..(n - 1), e.files[h].mode = "w", NEW rec \in Nat,
         NEW early \in BOOLEAN
  PROVE  LET f == Wrote(e, h, rec, early)
             j == e.files[h].ino
         IN
         /\ f \in Emulator(n) /\ Sound(f) /\ f.ret = 1 /\ j \in Inode
         /\ f.files[h].ino = j /\ f.files[h].mode = "w"
         /\ f.files[h].pos = e.files[h].pos
         /\ \A k \in 0..(n - 1) : k # h => f.files[k] = e.files[k]
         /\ f.log = Put(e.log, j, Append(e.log[j], rec))
         /\ f.dir = e.dir /\ f.next = e.next /\ f.status = e.status
<1> DEFINE j == e.files[h].ino
           w == Buffer(e, h, rec)
           a == Longer(e.files[h], rec)
           L == Put(e.log, j, Append(e.log[j], rec))
           b == Emptied(w.files[h])
           f == IF early THEN Flush(w, h) ELSE w
<1>1. /\ w \in Emulator(n) /\ Sound(w) /\ j \in Inode
      /\ w.files = Put(e.files, h, a) /\ w.log = L
      /\ w.dir = e.dir /\ w.next = e.next /\ w.status = e.status
  BY BufferEffect
<1>2. Wrote(e, h, rec, early) = Answer(f, 1)
  BY DEF Wrote, Buffer
<1>3. e.files \in [0..(n - 1) -> File] /\ e.files[h] \in File
  BY Fields
<1>4. a.ino = j /\ a.mode = "w" /\ a.pos = e.files[h].pos
  BY <1>3 DEF File, Longer
<1> HIDE DEF w, a, L
<1>5. w.files[h] = a /\ \A k \in 0..(n - 1) : k # h => w.files[k] = e.files[k]
  BY <1>1, <1>3 DEF Put
<1>6. w.files[h].ino = j /\ w.files[h].mode = "w" /\ w.status = "running"
      /\ w.files[h].pos = e.files[h].pos
  BY <1>1, <1>4, <1>5
<1>7. w.files[h].ino \in Inode
  BY <1>1, <1>6
<1>8. /\ Flush(w, h) \in Emulator(n)
      /\ Flush(w, h).files = Put(w.files, h, b)
      /\ Flush(w, h).log = w.log /\ Flush(w, h).dir = w.dir
      /\ Flush(w, h).next = w.next /\ Flush(w, h).status = w.status
  BY <1>1, <1>7, FlushEffect
<1>9. Sound(Flush(w, h))
  BY <1>1, <1>6, FlushSound
<1>10. w.files \in [0..(n - 1) -> File] /\ w.files[h] \in File
  BY <1>1, Fields
<1>11. b.ino = j /\ b.mode = "w" /\ b.pos = e.files[h].pos
  BY <1>6, <1>10 DEF File, Emptied
<1> HIDE DEF b
<1>12. /\ Flush(w, h).files[h] = b
       /\ \A k \in 0..(n - 1) : k # h => Flush(w, h).files[k] = w.files[k]
  BY <1>8, <1>10 DEF Put
<1>13. f = Flush(w, h) \/ f = w
  OBVIOUS
<1> HIDE DEF f
<1>14. /\ f \in Emulator(n) /\ Sound(f) /\ f.log = L
       /\ f.dir = e.dir /\ f.next = e.next /\ f.status = e.status
  BY <1>1, <1>8, <1>9, <1>13
<1>15. /\ f.files[h].ino = j /\ f.files[h].mode = "w" /\ f.files[h].pos = e.files[h].pos
       /\ \A k \in 0..(n - 1) : k # h => f.files[k] = e.files[k]
  BY <1>5, <1>6, <1>11, <1>12, <1>13
<1> DEFINE g == Answer(f, 1)
<1>16. /\ g \in Emulator(n) /\ g.ret = 1 /\ g.files = f.files /\ g.dir = f.dir
       /\ g.log = f.log /\ g.next = f.next /\ g.status = f.status
  BY SMTT(30), <1>14, AnswerEffect
<1>17. Sound(g)
  BY <1>14, AnswerSound
<1> HIDE DEF g
<1>18. g = Wrote(e, h, rec, early)
  BY <1>2 DEF g
<1>19. QED
  BY <1>1, <1>14, <1>15, <1>16, <1>17, <1>18 DEF L

\* fread delivers the next record of what was written to the file.
LEMMA ReadEffect ==
  ASSUME NEW n \in Nat, NEW e \in Emulator(n), Sound(e), e.status = "running",
         NEW h \in 0..(n - 1), e.files[h].mode = "r"
  PROVE  LET f == Read(e, h)
             p == e.files[h].pos
             l == e.log[e.files[h].ino]
         IN
         /\ f \in Emulator(n) /\ Sound(f)
         /\ f.files = (IF p >= Len(l) THEN e.files
                       ELSE Put(e.files, h, Moved(e.files[h], p + 1)))
         /\ f.ret = (IF p >= Len(l) THEN 0 ELSE l[p + 1])
         /\ f.dir = e.dir /\ f.log = e.log /\ f.next = e.next /\ f.status = e.status
<1> DEFINE p == e.files[h].pos
           l == e.log[e.files[h].ino]
           g == Seek(e, h, p + 1)
<1>1. e.files[h].ino \in Inode /\ e.data[e.files[h].ino] = l
  BY ReadersSeeAll
<1>2. l \in Seq(Nat) /\ p \in Nat /\ e.files[h] # NULL
  BY <1>1, Fields, FileFields, NullFile
<1>3. Read(e, h) = IF p >= Len(l) THEN Answer(e, 0) ELSE Answer(g, l[p + 1])
  BY <1>1 DEF Read, Seek
<1>4. /\ g \in Emulator(n) /\ Sound(g)
      /\ g.files = Put(e.files, h, Moved(e.files[h], p + 1))
      /\ g.dir = e.dir /\ g.data = e.data /\ g.log = e.log
      /\ g.next = e.next /\ g.status = e.status
  BY <1>2, PosEffect
<1> HIDE DEF g, l, p
<1>5. CASE p >= Len(l)
  <2>1. Read(e, h) = Answer(e, 0)
    BY <1>3, <1>5
  <2>2. Sound(Answer(e, 0))
    BY AnswerSound
  <2> DEFINE f == Answer(e, 0)
  <2>3. /\ f \in Emulator(n) /\ f.ret = 0 /\ f.files = e.files /\ f.dir = e.dir
        /\ f.log = e.log /\ f.next = e.next /\ f.status = e.status
    BY AnswerEffect
  <2> HIDE DEF f
  <2>4. f = Read(e, h) /\ Sound(f)
    BY <2>1, <2>2 DEF f
  <2>5. QED
    BY <1>5, <2>3, <2>4 DEF l, p
<1>6. CASE ~(p >= Len(l))
  <2>1. Read(e, h) = Answer(g, l[p + 1])
    BY <1>3, <1>6
  <2>2. l[p + 1] \in Int
    <3>1. p + 1 \in 1..Len(l)
      BY <1>2, <1>6
    <3>2. l[p + 1] \in Nat
      BY <1>2, <3>1
    <3>3. QED
      BY <3>2
  <2>3. Sound(Answer(g, l[p + 1]))
    BY <1>4, <2>2, AnswerSound
  <2> DEFINE f == Answer(g, l[p + 1])
  <2>4. /\ f \in Emulator(n) /\ f.ret = l[p + 1] /\ f.files = g.files /\ f.dir = g.dir
        /\ f.log = g.log /\ f.next = g.next /\ f.status = g.status
    BY <1>4, <2>2, AnswerEffect
  <2> HIDE DEF f
  <2>5. f = Read(e, h) /\ Sound(f)
    BY <2>1, <2>3 DEF f
  <2>6. QED
    BY <1>4, <1>6, <2>4, <2>5 DEF l, p
<1>7. QED
  BY <1>5, <1>6

-----------------------------------------------------------------------------
(* fopen                                                                   *)

\* What the host does to its disk.
LEMMA HostFileEffect ==
  ASSUME NEW n \in Nat, NEW e \in Emulator(n), Sound(e), NEW x \in Names,
         NEW mode \in {"r", "w"}
  PROVE  LET d == HostFile(e, x, mode)
             makes == mode = "w" /\ e.dir[x] = 0
             empties == mode = "w" /\ e.dir[x] # 0
         IN
         /\ d \in Emulator(n) /\ d.files = e.files /\ d.status = e.status
         /\ d.dir = (IF makes THEN Put(e.dir, x, e.next) ELSE e.dir)
         /\ d.next = (IF makes THEN e.next + 1 ELSE e.next)
         /\ d.data = (IF empties THEN Put(e.data, e.dir[x], <<>>) ELSE e.data)
         /\ d.log = (IF empties THEN Put(e.log, e.dir[x], <<>>) ELSE e.log)
<1> DEFINE d == HostFile(e, x, mode)
           none == <<>>
<1>1. /\ e.dir \in [Names -> Nat] /\ e.data \in [Inode -> Seq(Nat)]
      /\ e.log \in [Inode -> Seq(Nat)] /\ e.next \in Nat
  BY Fields
<1>2. CASE mode = "r"
  <2>1. d = e
    BY <1>2 DEF HostFile
  <2> HIDE DEF d
  <2>2. QED
    BY <1>2, <2>1 DEF d
<1>3. CASE mode = "w" /\ e.dir[x] = 0
  <2> DEFINE D == Put(e.dir, x, e.next)
             q == e.next + 1
  <2>1. d = [e EXCEPT !.dir = D, !.next = q]
    BY <1>3 DEF HostFile, Emulator, Put
  <2>2. D \in [Names -> Nat] /\ q \in Nat
    BY <1>1 DEF Put
  <2> HIDE DEF D, d, q
  <2>3. /\ d \in Emulator(n) /\ d.files = e.files /\ d.status = e.status
        /\ d.dir = D /\ d.next = q /\ d.data = e.data /\ d.log = e.log
    BY <2>1, <2>2 DEF Emulator
  <2>4. QED
    BY <1>3, <2>3 DEF D, d, q
<1>4. CASE mode = "w" /\ e.dir[x] # 0
  <2> DEFINE D == Put(e.data, e.dir[x], none)
             L == Put(e.log, e.dir[x], none)
  <2>1. d = [e EXCEPT !.data = D, !.log = L]
    BY <1>4 DEF HostFile, Emulator, Put
  <2>2. none \in Seq(Nat)
    OBVIOUS
  <2> HIDE DEF none
  <2>3. D \in [Inode -> Seq(Nat)] /\ L \in [Inode -> Seq(Nat)]
    BY <1>1, <2>2 DEF Put
  <2> HIDE DEF D, d, L
  <2>4. /\ d \in Emulator(n) /\ d.files = e.files /\ d.status = e.status
        /\ d.dir = e.dir /\ d.next = e.next /\ d.data = D /\ d.log = L
    BY <2>1, <2>3 DEF Emulator
  <2>5. QED
    BY <1>4, <2>4 DEF D, d, L, none
<1>5. QED
  BY <1>2, <1>3, <1>4

\* A slot is free when it has no inode.
LEMMA FreeIno ==
  ASSUME NEW n \in Nat, NEW e \in Emulator(n), Sound(e), NEW h \in 0..(n - 1)
  PROVE  e.files[h] = NULL <=> e.files[h].ino = 0
<1>1. ASSUME e.files[h] # NULL
      PROVE  e.files[h].ino # 0
  <2>1. e.files[h].ino \in Inode
    BY <1>1, UsedSlot
  <2>2. QED
    BY <2>1 DEF Inode
<1>2. QED
  BY <1>1, NullFile

\* Inodes from next on have no handle, and their data is what was written.
LEMMA NewInode ==
  ASSUME NEW n \in Nat, NEW e \in Emulator(n), Sound(e), e.next <= MAXINODE
  PROVE  /\ e.next \in Inode /\ e.data[e.next] = e.log[e.next]
         /\ \A k \in 0..(n - 1) : e.files[k].ino # e.next
<1>1. e.next \in Nat /\ e.next \in 1..(MAXINODE + 1)
  BY Fields DEF Sound
<1>2. e.next \in Inode
  BY <1>1, BoundsAssumption DEF Inode
<1>3. ASSUME NEW k \in 0..(n - 1)
      PROVE  e.files[k].ino # e.next
  <2>1. CASE e.files[k].ino = 0
    BY <1>1, <2>1
  <2>2. CASE e.files[k].ino # 0
    <3>1. e.files[k].ino \in 1..(e.next - 1)
      BY <2>2, UsedSlot
    <3>2. QED
      BY <1>1, <3>1
  <2>3. QED
    BY <2>1, <2>2
<1>4. Unwritten(e, e.next)
  BY <1>3, Fields DEF Unwritten
<1>5. QED
  BY <1>2, <1>3, <1>4 DEF Sound

LEMMA OpenFile ==
  ASSUME NEW i \in Nat, NEW mode \in {"r", "w"}
  PROVE  /\ Open(i, mode) \in File /\ Open(i, mode).ino = i
         /\ Open(i, mode).mode = mode /\ Open(i, mode).pos = 0
         /\ Open(i, mode).pend = <<>>
<1>1. NULL \in File
  BY NullFile
<1>2. /\ Open(i, mode) \in File /\ Open(i, mode).ino = i
      /\ Open(i, mode).mode = mode /\ Open(i, mode).pos = NULL.pos
      /\ Open(i, mode).pend = NULL.pend
  BY <1>1 DEF Open, File
<1>3. QED
  BY <1>2, NullFile

\* A program opens the file that has the name, at its beginning.
LEMMA OpenedEffect ==
  ASSUME NEW n \in Nat, NEW e \in Emulator(n), Sound(e), e.status = "running",
         NEW x \in Names, NEW mode \in {"r", "w"},
         FreeSlot(e) \in 0..(n - 1), e.files[FreeSlot(e)] = NULL,
         HostOpens(e, x, mode), Unshared(e, x, mode),
         mode = "w" /\ e.dir[x] = 0 => e.next <= MAXINODE
  PROVE  LET f == Opened(e, x, mode)
             makes == mode = "w" /\ e.dir[x] = 0
             empties == mode = "w" /\ e.dir[x] # 0
             j == IF makes THEN e.next ELSE e.dir[x]
         IN
         /\ f \in Emulator(n) /\ Sound(f) /\ f.status = e.status /\ f.ret = FreeSlot(e)
         /\ f.files = Put(e.files, FreeSlot(e), Open(j, mode))
         /\ f.dir = (IF makes THEN Put(e.dir, x, e.next) ELSE e.dir)
         /\ f.next = (IF makes THEN e.next + 1 ELSE e.next)
         /\ f.log = (IF empties THEN Put(e.log, e.dir[x], <<>>) ELSE e.log)
<1> DEFINE h == FreeSlot(e)
           d == HostFile(e, x, mode)
           makes == mode = "w" /\ e.dir[x] = 0
           empties == mode = "w" /\ e.dir[x] # 0
           j == IF makes THEN e.next ELSE e.dir[x]
           a == Open(j, mode)
           F == Put(e.files, h, a)
           f == [d EXCEPT !.files[h] = Open(d.dir[x], mode)]
<1>1. /\ d \in Emulator(n) /\ d.files = e.files /\ d.status = e.status
      /\ d.dir = (IF makes THEN Put(e.dir, x, e.next) ELSE e.dir)
      /\ d.next = (IF makes THEN e.next + 1 ELSE e.next)
      /\ d.data = (IF empties THEN Put(e.data, e.dir[x], <<>>) ELSE e.data)
      /\ d.log = (IF empties THEN Put(e.log, e.dir[x], <<>>) ELSE e.log)
  BY HostFileEffect
<1> HIDE DEF d, h
<1>2. /\ e.files \in [0..(n - 1) -> File] /\ e.data \in [Inode -> Seq(Nat)]
      /\ e.log \in [Inode -> Seq(Nat)] /\ e.dir \in [Names -> Nat] /\ e.next \in Nat
      /\ DOMAIN e.files = 0..(n - 1)
  BY Fields
<1>3. /\ e.next \in 1..(MAXINODE + 1)
      /\ \A g \in Names : e.dir[g] \in 0..(e.next - 1)
  BY DEF Sound
<1>4. d.dir[x] = j
  BY <1>1, <1>2 DEF Put
<1>5. j \in Inode /\ j \in 1..(d.next - 1) /\ j \in Nat
  <2>1. CASE makes
    <3>1. e.next \in Inode
      BY <2>1, NewInode
    <3>2. QED
      BY <1>1, <1>2, <1>3, <2>1, <3>1
  <2>2. CASE ~ makes
    <3>1. e.dir[x] # 0
      BY <2>2 DEF HostOpens
    <3>2. e.dir[x] \in 1..(e.next - 1)
      BY <1>2, <1>3, <3>1
    <3>3. e.dir[x] \in Inode
      BY <1>3, <3>2, InodeRange
    <3>4. QED
      BY <1>1, <1>2, <2>2, <3>2, <3>3
  <2>3. QED
    BY <2>1, <2>2
<1>6. d.next \in 1..(MAXINODE + 1) /\ e.next <= d.next
      /\ \A g \in Names : d.dir[g] \in 0..(d.next - 1)
  <2>1. CASE makes
    <3>1. d.next = e.next + 1 /\ d.dir = Put(e.dir, x, e.next) /\ e.next <= MAXINODE
      BY <1>1, <2>1
    <3>2. \A g \in Names : d.dir[g] = e.dir[g] \/ d.dir[g] = e.next
      BY <1>2, <3>1 DEF Put
    <3>3. d.next \in 1..(MAXINODE + 1) /\ e.next <= d.next
      BY <1>2, <1>3, <3>1, BoundsAssumption
    <3>4. ASSUME NEW g \in Names
          PROVE  d.dir[g] \in 0..(d.next - 1)
      <4>1. e.dir[g] \in 0..(e.next - 1)
        BY <1>3
      <4>2. d.dir[g] = e.dir[g] \/ d.dir[g] = e.next
        BY <3>2
      <4>3. QED
        BY <1>2, <3>1, <4>1, <4>2
    <3>5. QED
      BY <3>3, <3>4
  <2>2. CASE ~ makes
    BY <1>1, <1>2, <1>3, <2>2
  <2>3. QED
    BY <2>1, <2>2
<1> HIDE DEF j
<1>7. a \in File /\ a.ino = j /\ a.mode = mode /\ a.pos = 0 /\ a.pend = <<>>
  BY <1>5, OpenFile
<1>8. h \in 0..(n - 1) /\ e.files[h] = NULL
  BY DEF h
<1> HIDE DEF a
<1>9. F \in [0..(n - 1) -> File] /\ F[h] = a
      /\ \A k \in 0..(n - 1) : k # h => F[k] = e.files[k]
  BY <1>2, <1>7, <1>8 DEF Put
<1>10. f = [d EXCEPT !.files = F]
  BY <1>1, <1>4 DEF Emulator, Put, a
<1> HIDE DEF f, F
<1>11. /\ f \in Emulator(n) /\ f.files = F /\ f.dir = d.dir /\ f.data = d.data
       /\ f.log = d.log /\ f.next = d.next /\ f.status = d.status
  BY <1>1, <1>9, <1>10 DEF Emulator
<1>12. SlotOK(f, h)
  BY <1>5, <1>7, <1>9, <1>11 DEF SlotOK
<1>13. ASSUME NEW k \in 0..(n - 1), k # h, e.files[k].ino = j
       PROVE  e.files[k].mode # "w" /\ mode # "w"
  <2>1. CASE makes
    BY <1>13, <2>1, NewInode DEF j
  <2>2. CASE ~ makes
    <3>1. e.files[k].ino = e.dir[x] /\ e.dir[x] # 0 /\ e.files[k] # NULL
      <4>1. j # 0 /\ j = e.dir[x]
        BY <1>5, <2>2 DEF j, Inode
      <4>2. QED
        BY <1>13, <4>1, NullFile
    <3>2. k \in Users(e, x)
      BY <1>2, <3>1 DEF Users
    <3>3. QED
      BY <3>2 DEF Unshared
  <2>3. QED
    BY <2>1, <2>2
<1>14. \A i \in Inode : i # j => f.data[i] = e.data[i] /\ f.log[i] = e.log[i]
  <2>1. CASE empties
    <3>1. j = e.dir[x] /\ f.data = Put(e.data, j, <<>>) /\ f.log = Put(e.log, j, <<>>)
      BY <1>1, <1>11, <2>1 DEF j
    <3>2. QED
      BY <1>2, <3>1 DEF Put
  <2>2. CASE ~ empties
    BY <1>1, <1>11, <2>2
  <2>3. QED
    BY <2>1, <2>2
<1>15. f.data[j] = f.log[j]
  <2>1. CASE makes
    <3>1. j = e.next /\ f.data = e.data /\ f.log = e.log
      BY <1>1, <1>11, <2>1 DEF j
    <3>2. QED
      BY <2>1, <3>1, NewInode
  <2>2. CASE empties
    <3>1. j = e.dir[x] /\ f.data = Put(e.data, j, <<>>) /\ f.log = Put(e.log, j, <<>>)
      BY <1>1, <1>11, <2>2 DEF j
    <3>2. QED
      BY <1>2, <1>5, <3>1 DEF Put
  <2>3. CASE mode = "r"
    <3>1. f.data = e.data /\ f.log = e.log
      BY <1>1, <1>11, <2>3
    <3>2. \A k \in 0..(n - 1) : e.files[k].mode = "w" => e.files[k].ino # j
      BY <1>8, <1>13, NullFile
    <3>3. Unwritten(e, j)
      BY <1>2, <3>2 DEF Unwritten
    <3>4. QED
      BY <1>5, <3>1, <3>3 DEF Sound
  <2>4. QED
    BY <2>1, <2>2, <2>3
<1>16. Kept(f, h)
  <2>1. f.data[j] \in Seq(Nat)
    BY <1>5, <1>11, Fields
  <2>2. f.data[j] \o <<>> = f.data[j]
    BY <2>1, ConcatEmptySeq
  <2>3. QED
    BY <1>7, <1>9, <1>11, <1>15, <2>2 DEF Kept
<1>17. Sound(f)
  <2>1. /\ f.status = "running" /\ f.next \in 1..(MAXINODE + 1) /\ e.next <= f.next
        /\ \A g \in Names : f.dir[g] \in 0..(f.next - 1)
    BY <1>1, <1>6, <1>11
  <2>2. /\ f.files[h].mode = mode /\ f.files[h].ino = j /\ e.files[h].mode # "w"
        /\ \A k \in 0..(n - 1) : k # h => f.files[k] = e.files[k]
    BY <1>7, <1>8, <1>9, <1>11, NullFile
  <2>3. \A k \in 0..(n - 1) : k # h /\ e.files[k].ino = j =>
                                e.files[k].mode # "w" /\ f.files[h].mode # "w"
    BY <1>13, <2>2
  <2>4. QED
    BY <1>5, <1>8, <1>11, <1>12, <1>14, <1>15, <1>16, <2>1, <2>2, <2>3, SlotChange
<1>18. Opened(e, x, mode) = Answer(f, h)
  BY DEF Opened, f, h, d
<1> DEFINE g == Answer(f, h)
<1>19. /\ g \in Emulator(n) /\ g.ret = h /\ g.files = f.files /\ g.dir = f.dir
       /\ g.log = f.log /\ g.next = f.next /\ g.status = f.status
  <2>1. h \in Int
    BY <1>8
  <2>2. QED
    BY <1>11, <2>1, AnswerEffect
<1>20. Sound(g)
  <2>1. h \in Int
    BY <1>8
  <2>2. QED
    BY <1>11, <1>17, <2>1, AnswerSound
<1> HIDE DEF g
<1>21. g = Opened(e, x, mode)
  BY <1>18 DEF g
<1>22. QED
  BY <1>1, <1>11, <1>19, <1>20, <1>21 DEF F, a, j, h

\* Every nonempty set of naturals has a least element.
LEMMA LeastNat ==
  ASSUME NEW T \in SUBSET Nat, T # {}
  PROVE  \E n \in T : \A m \in T : n <= m
<1> DEFINE R == OpToRel(<, Nat)
<1>1. IsWellFoundedOn(R, Nat)
  BY NatLessThanWellFounded
<1>2. \A a, b \in Nat : a < b => <<a, b>> \in R
  BY DEF OpToRel
<1> HIDE DEF R
<1>3. PICK n \in T : \A m \in T : ~ (<<m, n>> \in R)
  BY <1>1, WFMin
<1>4. \A m \in T : n <= m
  <2> SUFFICES ASSUME NEW m \in T PROVE n <= m
    OBVIOUS
  <2>1. m \in Nat /\ n \in Nat
    OBVIOUS
  <2>2. ~ (m < n)
    BY <1>2, <1>3, <2>1
  <2>3. QED
    BY <2>1, <2>2
<1>5. QED
  BY <1>4

\* fopen takes the first free slot; without one the answer is their number.
LEMMA FirstFree ==
  ASSUME NEW n \in Nat, FIRST < n, NEW e \in Emulator(n)
  PROVE  /\ FreeSlot(e) \in FIRST..n
         /\ FreeSlot(e) < n => e.files[FreeSlot(e)] = NULL
         /\ \A h \in FIRST..(n - 1) : h < FreeSlot(e) => e.files[h] # NULL
<1> DEFINE D == DOMAIN e.files
           T == {h \in FIRST..(n - 1) : e.files[h] = NULL} \cup {n}
<1>1. D = 0..(n - 1) /\ FIRST \in Nat
  BY Fields, SlotsAssumption
<1>2. Max(D) = n - 1
  <2>1. n - 1 \in D /\ \A k \in D : n - 1 >= k
    BY <1>1
  <2>2. \A k \in D : (\A m \in D : k >= m) => k = n - 1
    BY <1>1, <2>1
  <2> HIDE DEF D
  <2>3. QED
    BY <2>1, <2>2 DEF Max
<1>3. FreeSlot(e) = Min(T)
  <2>1. (n - 1) + 1 = n
    OBVIOUS
  <2>2. QED
    BY <1>2, <2>1 DEF FreeSlot
<1>4. PICK m \in T : \A k \in T : m <= k
  <2>1. T \in SUBSET Nat /\ T # {}
    BY <1>1
  <2> HIDE DEF T
  <2>2. QED
    BY <2>1, LeastNat
<1>5. Min(T) \in T /\ \A k \in T : Min(T) <= k
  <2> HIDE DEF T
  <2>1. QED
    BY <1>4 DEF Min
<1>6. QED
  <2> DEFINE s == FreeSlot(e)
  <2>1. s \in T /\ \A k \in T : s <= k
    BY <1>3, <1>5
  <2> HIDE DEF s
  <2>2. s \in FIRST..n
    BY <1>1, <2>1
  <2>3. s < n => e.files[s] = NULL
    BY <2>1
  <2>4. ASSUME NEW h \in FIRST..(n - 1), h < s
        PROVE  e.files[h] # NULL
    <3>1. h \notin T
      BY <1>1, <2>1, <2>2, <2>4
    <3>2. QED
      BY <2>4, <3>1
  <2>5. QED
    BY <2>2, <2>3, <2>4 DEF s

-----------------------------------------------------------------------------
(* The end of a program                                                    *)

LEMMA EmptiedFile ==
  ASSUME NEW a \in File
  PROVE  /\ Emptied(a) \in File /\ Emptied(a).ino = a.ino /\ Emptied(a).mode = a.mode
         /\ Emptied(a).pend = <<>> /\ (a = NULL => Emptied(a) = NULL)
<1> DEFINE p == <<>>
<1>1. p \in Seq(Nat)
  OBVIOUS
<1>2. Emptied(a) = [a EXCEPT !.pend = p]
  BY DEF Emptied
<1>3. a.pend = p => Emptied(a) = a
  BY <1>2 DEF File
<1>4. NULL.pend = p
  BY NullFile
<1> HIDE DEF p
<1>5. /\ Emptied(a) \in File /\ Emptied(a).ino = a.ino /\ Emptied(a).mode = a.mode
      /\ Emptied(a).pend = p
  BY <1>1, <1>2 DEF File
<1>6. QED
  BY <1>3, <1>4, <1>5 DEF p

\* The disk and what waits for a file are what was written to it.
LEMMA AllWritten ==
  ASSUME NEW n \in Nat, NEW e \in Emulator(n), Sound(e), NEW i \in Inode
  PROVE  e.data[i] \o Pending(e, i) = e.log[i] /\ Contents(e, i) = e.log[i]
<1> SUFFICES e.data[i] \o Pending(e, i) = e.log[i]
  BY DEF Contents
<1>1. e.data[i] \in Seq(Nat) /\ DOMAIN e.files = 0..(n - 1)
  BY Fields
<1>2. CASE Writers(e, i) = {}
  <2>1. Unwritten(e, i)
    BY <1>2 DEF Writers, Unwritten
  <2>2. e.data[i] = e.log[i]
    BY <2>1 DEF Sound
  <2>3. Pending(e, i) = <<>>
    BY <1>2 DEF Pending
  <2>4. QED
    BY <1>1, <2>2, <2>3, ConcatEmptySeq
<1>3. CASE Writers(e, i) # {}
  <2> DEFINE k == CHOOSE h \in Writers(e, i) : TRUE
  <2>1. k \in Writers(e, i)
    BY <1>3
  <2>2. Pending(e, i) = e.files[k].pend
    BY <1>3 DEF Pending
  <2> HIDE DEF k
  <2>3. k \in 0..(n - 1) /\ e.files[k].ino = i /\ e.files[k].mode = "w"
    BY <1>1, <2>1 DEF Writers
  <2>4. Kept(e, k)
    BY <1>1, <2>3 DEF Sound
  <2>5. QED
    BY <2>2, <2>3, <2>4 DEF Kept
<1>4. QED
  BY <1>2, <1>3

LEMMA FlushAllEffect ==
  ASSUME NEW n \in Nat, NEW e \in Emulator(n), Sound(e)
  PROVE  LET f == FlushAll(e) IN
         /\ f \in Emulator(n) /\ f.data = e.log /\ f.log = e.log
         /\ f.dir = e.dir /\ f.next = e.next /\ f.status = e.status /\ f.ret = e.ret
         /\ \A h \in 0..(n - 1) : f.files[h] = Emptied(e.files[h])
<1> DEFINE F == [h \in 0..(n - 1) |-> Emptied(e.files[h])]
           D == [i \in Inode |-> e.data[i] \o Pending(e, i)]
           f == FlushAll(e)
<1>1. /\ e.files \in [0..(n - 1) -> File] /\ e.data \in [Inode -> Seq(Nat)]
      /\ e.log \in [Inode -> Seq(Nat)]
  BY Fields
<1>2. F \in [0..(n - 1) -> File]
  BY <1>1, EmptiedFile
<1>3. D = e.log
  BY <1>1, AllWritten
<1>4. f = [e EXCEPT !.data = D, !.files = F]
  <2>1. DOMAIN e.data = Inode /\ DOMAIN e.files = 0..(n - 1)
    BY <1>1
  <2>2. f = [e EXCEPT !.data = [i \in DOMAIN e.data |-> e.data[i] \o Pending(e, i)],
                      !.files = [h \in DOMAIN e.files |-> Emptied(e.files[h])]]
    BY DEF FlushAll, Contents, Emptied
  <2>3. QED
    BY <2>1, <2>2
<1>5. \A h \in 0..(n - 1) : F[h] = Emptied(e.files[h])
  OBVIOUS
<1> HIDE DEF F, D, f
<1>6. /\ f \in Emulator(n) /\ f.data = D /\ f.files = F /\ f.log = e.log
      /\ f.dir = e.dir /\ f.next = e.next /\ f.status = e.status /\ f.ret = e.ret
  BY <1>1, <1>2, <1>3, <1>4 DEF Emulator
<1>7. QED
  BY <1>3, <1>5, <1>6 DEF f

\* Whatever is left open then, the disk has what was written.
LEMMA StoppedSound ==
  ASSUME NEW n \in Nat, NEW e \in Emulator(n), Sound(e), NEW f \in Emulator(n),
         f.data = e.log, f.log = e.log, f.dir = e.dir, f.next = e.next,
         \A h \in 0..(n - 1) : f.files[h] = NULL \/ f.files[h] = Emptied(e.files[h])
  PROVE  Sound(f)
<1>1. /\ DOMAIN e.files = 0..(n - 1) /\ DOMAIN f.files = 0..(n - 1)
      /\ \A h \in 0..(n - 1) : e.files[h] \in File
      /\ e.log \in [Inode -> Seq(Nat)]
  BY Fields
<1>2. ASSUME NEW h \in 0..(n - 1), f.files[h] # NULL
      PROVE  /\ e.files[h] # NULL /\ f.files[h].ino = e.files[h].ino
             /\ f.files[h].mode = e.files[h].mode /\ f.files[h].pend = <<>>
  BY <1>1, <1>2, EmptiedFile
<1>3. ASSUME NEW h \in 0..(n - 1), f.files[h] # NULL
      PROVE  /\ f.files[h].ino \in 1..(f.next - 1) /\ f.files[h].ino \in Inode
             /\ f.files[h].mode \in {"r", "w"} /\ f.files[h].pend = <<>>
  <2>1. /\ e.files[h].ino \in 1..(e.next - 1) /\ e.files[h].ino \in Inode
        /\ e.files[h].mode \in {"r", "w"}
    BY <1>2, <1>3, UsedSlot
  <2>2. QED
    BY <1>2, <1>3, <2>1
<1>4. ASSUME NEW h \in 0..(n - 1)
      PROVE  SlotOK(f, h) /\ Kept(f, h)
  <2>1. CASE f.files[h] = NULL
    BY <2>1, NullFile DEF SlotOK, Kept
  <2>2. CASE f.files[h] # NULL
    <3>1. SlotOK(f, h)
      BY <1>3, <2>2 DEF SlotOK
    <3>2. f.files[h].ino \in Inode /\ f.files[h].pend = <<>>
      BY <1>3, <2>2
    <3>3. f.log[f.files[h].ino] \in Seq(Nat)
      BY <1>1, <3>2
    <3>4. f.log[f.files[h].ino] \o <<>> = f.log[f.files[h].ino]
      BY <3>3, ConcatEmptySeq
    <3>5. QED
      BY <3>1, <3>2, <3>4 DEF Kept
  <2>3. QED
    BY <2>1, <2>2
<1>5. Alone(f)
  <2> SUFFICES ASSUME NEW h \in 0..(n - 1), NEW k \in 0..(n - 1), h # k,
                      f.files[h].mode = "w"
               PROVE  f.files[k].ino # f.files[h].ino
    BY <1>1 DEF Alone
  <2>1. f.files[h] # NULL
    BY NullFile
  <2>2. f.files[h].ino \in Inode /\ e.files[h].mode = "w"
        /\ f.files[h].ino = e.files[h].ino
    BY <1>2, <1>3, <2>1
  <2>3. CASE f.files[k] = NULL
    <3>1. f.files[k].ino = 0
      BY <2>3, NullFile
    <3>2. f.files[h].ino # 0
      BY <2>2 DEF Inode
    <3>3. QED
      BY <3>1, <3>2
  <2>4. CASE f.files[k] # NULL
    <3>1. f.files[k].ino = e.files[k].ino
      BY <1>2, <2>4
    <3>2. e.files[k].ino # e.files[h].ino
      BY <2>2, WriterAlone
    <3>3. QED
      BY <2>2, <3>1, <3>2
  <2>5. QED
    BY <2>3, <2>4
<1>6. QED
  BY <1>1, <1>4, <1>5 DEF Sound

LEMMA ShutdownEffect ==
  ASSUME NEW n \in Nat, NEW e \in Emulator(n), Sound(e),
         NEW s \in {"exit", "shutdown"}
  PROVE  LET f == [FlushAll(e) EXCEPT !.status = s] IN
         f \in Emulator(n) /\ Sound(f) /\ f.status = s
<1> DEFINE g == FlushAll(e)
           f == [g EXCEPT !.status = s]
<1>1. /\ g \in Emulator(n) /\ g.data = e.log /\ g.log = e.log
      /\ g.dir = e.dir /\ g.next = e.next
      /\ \A h \in 0..(n - 1) : g.files[h] = Emptied(e.files[h])
  BY FlushAllEffect
<1>2. s \in Status
  BY DEF Status
<1> HIDE DEF g
<1>3. /\ f \in Emulator(n) /\ f.data = g.data /\ f.log = g.log /\ f.dir = g.dir
      /\ f.next = g.next /\ f.status = s /\ f.files = g.files
  BY <1>1, <1>2 DEF Emulator
<1> HIDE DEF f
<1>4. /\ f.data = e.log /\ f.log = e.log /\ f.dir = e.dir /\ f.next = e.next
      /\ \A h \in 0..(n - 1) : f.files[h] = NULL \/ f.files[h] = Emptied(e.files[h])
  BY <1>1, <1>3
<1>5. Sound(f)
  BY <1>3, <1>4, StoppedSound
<1>6. QED
  BY <1>3, <1>5 DEF f, g

LEMMA PcbExitEffect ==
  ASSUME NEW n \in Nat, NEW e \in Emulator(n), Sound(e)
  PROVE  PcbExit(e) \in Emulator(n) /\ Sound(PcbExit(e)) /\ PcbExit(e).status = "exit"
<1> DEFINE g == FlushAll(e)
           F == [h \in 0..(n - 1) |-> NULL]
           f == PcbExit(e)
<1>1. /\ g \in Emulator(n) /\ g.data = e.log /\ g.log = e.log
      /\ g.dir = e.dir /\ g.next = e.next
  BY FlushAllEffect
<1>2. "exit" \in Status /\ DOMAIN g.files = 0..(n - 1)
  BY <1>1, Fields DEF Status
<1>3. f = [g EXCEPT !.files = F, !.status = "exit"]
  <2>1. f = [g EXCEPT !.files = [h \in DOMAIN g.files |-> NULL], !.status = "exit"]
    BY DEF PcbExit
  <2>2. QED
    BY <1>2, <2>1
<1>4. F \in [0..(n - 1) -> File] /\ \A h \in 0..(n - 1) : F[h] = NULL
  BY NullFile
<1> HIDE DEF g, F, f
<1>5. /\ f \in Emulator(n) /\ f.data = g.data /\ f.log = g.log /\ f.dir = g.dir
      /\ f.next = g.next /\ f.status = "exit" /\ f.files = F
  BY <1>1, <1>2, <1>3, <1>4 DEF Emulator
<1>6. /\ f.data = e.log /\ f.log = e.log /\ f.dir = e.dir /\ f.next = e.next
      /\ \A h \in 0..(n - 1) : f.files[h] = NULL \/ f.files[h] = Emptied(e.files[h])
  BY <1>1, <1>4, <1>5
<1>7. Sound(f)
  BY <1>5, <1>6, StoppedSound
<1>8. QED
  BY <1>5, <1>7 DEF f

\* An emulator that ends at once.
LEMMA AbortEffect ==
  ASSUME NEW n \in Nat, NEW e \in Emulator(n), Sound(e), NEW s \in {"aborted", "event"}
  PROVE  LET f == [e EXCEPT !.status = s] IN
         f \in Emulator(n) /\ Sound(f) /\ f.status = s
<1> DEFINE f == [e EXCEPT !.status = s]
<1>1. s \in Status
  BY DEF Status
<1>2. /\ f \in Emulator(n) /\ f.files = e.files /\ f.data = e.data /\ f.log = e.log
      /\ f.dir = e.dir /\ f.next = e.next /\ f.status = s
  BY <1>1 DEF Emulator
<1> HIDE DEF f
<1>3. \A h : (SlotOK(e, h) => SlotOK(f, h)) /\ (Kept(e, h) => Kept(f, h))
  BY <1>2 DEF SlotOK, Kept
<1>4. Alone(f) /\ \A i : Unwritten(f, i) => Unwritten(e, i)
  BY <1>2 DEF Sound, Alone, Unwritten
<1>5. Sound(f)
  BY <1>2, <1>3, <1>4 DEF Sound
<1>6. QED
  BY <1>2, <1>5 DEF f

\* unlink and rename change names only.
LEMMA DirEffect ==
  ASSUME NEW n \in Nat, NEW e \in Emulator(n), Sound(e), NEW D \in [Names -> Nat],
         \A x \in Names : D[x] \in 0..(e.next - 1), NEW r \in Int
  PROVE  LET f == Answer([e EXCEPT !.dir = D], r) IN
         /\ f \in Emulator(n) /\ Sound(f) /\ f.dir = D /\ f.ret = r
         /\ f.files = e.files /\ f.log = e.log /\ f.next = e.next /\ f.status = e.status
<1> DEFINE g == [e EXCEPT !.dir = D]
           f == Answer(g, r)
<1>1. /\ g \in Emulator(n) /\ g.files = e.files /\ g.data = e.data /\ g.log = e.log
      /\ g.dir = D /\ g.next = e.next /\ g.status = e.status
  BY DEF Emulator
<1> HIDE DEF g
<1>2. \A h : (SlotOK(e, h) => SlotOK(g, h)) /\ (Kept(e, h) => Kept(g, h))
  BY <1>1 DEF SlotOK, Kept
<1>3. Alone(g) /\ \A i : Unwritten(g, i) => Unwritten(e, i)
  BY <1>1 DEF Sound, Alone, Unwritten
<1>4. Sound(g)
  BY <1>1, <1>2, <1>3 DEF Sound
<1>5. Sound(f)
  BY <1>1, <1>4, AnswerSound
<1>6. /\ f \in Emulator(n) /\ f.ret = r /\ f.files = g.files /\ f.dir = g.dir
      /\ f.log = g.log /\ f.next = g.next /\ f.status = g.status
  BY <1>1, AnswerEffect
<1> HIDE DEF f
<1>7. QED
  BY <1>1, <1>5, <1>6 DEF f, g

-----------------------------------------------------------------------------
(* Two emulators, one with the slots of pso, one with those of xemu.       *)

LikeFile(u, v) == u.ino = v.ino /\ u.mode = v.mode /\ u.pos = v.pos

Alike(a, b) ==
  /\ a.dir = b.dir /\ a.next = b.next /\ a.log = b.log
  /\ \A h \in 0..(FILEMAX - 1) : LikeFile(a.files[h], b.files[h])
  /\ \A h \in FILEMAX..(MAXFILE - 1) : b.files[h] = NULL

Both(a, b) ==
  /\ a \in Emulator(FILEMAX) /\ b \in Emulator(MAXFILE)
  /\ Sound(a) /\ Sound(b)

\* While both run they stay alike, and they answer the same.
Alikes(a, b, c, d) ==
  Alike(a, b) /\ c.status = "running" /\ d.status = "running" => Alike(c, d)
Agree(a, b, c, d) ==
  Alike(a, b) /\ c.status = "running" /\ d.status = "running" => c.ret = d.ret

LEMMA Slots ==
  /\ FILEMAX \in Nat /\ MAXFILE \in Nat /\ FIRST \in Nat
  /\ FIRST < FILEMAX /\ FIRST < MAXFILE
  /\ \A h \in 0..(FILEMAX - 1) : h \in 0..(MAXFILE - 1)
  /\ \A h \in FILEMAX..(MAXFILE - 1) : h \notin 0..(FILEMAX - 1)
  /\ \A h \in 0..(MAXFILE - 1) : h \in 0..(FILEMAX - 1) \/ h \in FILEMAX..(MAXFILE - 1)
  BY SlotsAssumption

LEMMA ValidSlot ==
  ASSUME NEW n \in Nat, NEW e \in Emulator(n), NEW h \in Int
  PROVE  Valid(e, h) <=> h \in 0..(n - 1) /\ e.files[h] # NULL
  BY Fields DEF Valid

\* Emulators that are alike know the same handles.
LEMMA AlikeValid ==
  ASSUME NEW a, NEW b, Both(a, b), Alike(a, b), NEW h \in Int
  PROVE  /\ Valid(a, h) <=> Valid(b, h)
         /\ Valid(a, h) => h \in 0..(FILEMAX - 1) /\ h \in 0..(MAXFILE - 1)
                           /\ LikeFile(a.files[h], b.files[h])
<1>1. /\ Valid(a, h) <=> h \in 0..(FILEMAX - 1) /\ a.files[h] # NULL
      /\ Valid(b, h) <=> h \in 0..(MAXFILE - 1) /\ b.files[h] # NULL
  BY Slots, ValidSlot DEF Both
<1>2. CASE h \in 0..(FILEMAX - 1)
  <2>1. h \in 0..(MAXFILE - 1)
    BY <1>2, Slots
  <2>2. LikeFile(a.files[h], b.files[h])
    BY <1>2 DEF Alike
  <2>3. a.files[h] = NULL <=> a.files[h].ino = 0
    BY <1>2, Slots, FreeIno DEF Both
  <2>4. b.files[h] = NULL <=> b.files[h].ino = 0
    BY <2>1, Slots, FreeIno DEF Both
  <2>5. a.files[h] = NULL <=> b.files[h] = NULL
    BY <2>2, <2>3, <2>4 DEF LikeFile
  <2>6. QED
    BY <1>1, <1>2, <2>1, <2>2, <2>5
<1>3. CASE h \notin 0..(FILEMAX - 1)
  <2>1. h \in 0..(MAXFILE - 1) => b.files[h] = NULL
    BY <1>3, Slots DEF Alike
  <2>2. QED
    BY <1>1, <1>3, <2>1
<1>4. QED
  BY <1>2, <1>3

LEMMA AnswerPair ==
  ASSUME NEW a, NEW b, Both(a, b), NEW r \in Int, NEW s \in Int
  PROVE  /\ Both(Answer(a, r), Answer(b, s))
         /\ Alike(a, b) => Alike(Answer(a, r), Answer(b, s))
         /\ Answer(a, r).ret = r /\ Answer(b, s).ret = s
<1> DEFINE c == Answer(a, r)
           d == Answer(b, s)
<1>1. /\ c \in Emulator(FILEMAX) /\ c.ret = r /\ c.files = a.files /\ c.dir = a.dir
      /\ c.log = a.log /\ c.next = a.next
  BY Slots, AnswerEffect DEF Both
<1>2. /\ d \in Emulator(MAXFILE) /\ d.ret = s /\ d.files = b.files /\ d.dir = b.dir
      /\ d.log = b.log /\ d.next = b.next
  BY Slots, AnswerEffect DEF Both
<1>3. Sound(c) /\ Sound(d)
  BY Slots, AnswerSound DEF Both
<1> HIDE DEF c, d
<1>4. Both(c, d)
  BY <1>1, <1>2, <1>3 DEF Both
<1>5. Alike(a, b) => Alike(c, d)
  BY <1>1, <1>2 DEF Alike
<1>6. QED
  BY <1>1, <1>2, <1>4, <1>5 DEF c, d

\* One slot changes alike.
LEMMA SlotAlike ==
  ASSUME NEW a, NEW b, NEW c, NEW d, Alike(a, b), NEW h \in 0..(FILEMAX - 1),
         LikeFile(c.files[h], d.files[h]),
         \A k \in 0..(FILEMAX - 1) : k # h => c.files[k] = a.files[k],
         \A k \in 0..(MAXFILE - 1) : k # h => d.files[k] = b.files[k],
         c.dir = d.dir, c.next = d.next, c.log = d.log
  PROVE  Alike(c, d)
<1>1. ASSUME NEW k \in 0..(FILEMAX - 1)
      PROVE  LikeFile(c.files[k], d.files[k])
  <2>1. CASE k = h
    BY <2>1
  <2>2. CASE k # h
    <3>1. c.files[k] = a.files[k] /\ d.files[k] = b.files[k]
      BY <2>2, Slots
    <3>2. QED
      BY <3>1 DEF Alike
  <2>3. QED
    BY <2>1, <2>2
<1>2. ASSUME NEW k \in FILEMAX..(MAXFILE - 1)
      PROVE  d.files[k] = NULL
  <2>1. k # h /\ k \in 0..(MAXFILE - 1)
    BY SlotsAssumption
  <2>2. QED
    BY <2>1 DEF Alike
<1>3. QED
  BY <1>1, <1>2 DEF Alike

LEMMA PutSlot ==
  ASSUME NEW n \in Nat, NEW e \in Emulator(n), NEW h \in 0..(n - 1), NEW v
  PROVE  /\ Put(e.files, h, v)[h] = v
         /\ \A k \in 0..(n - 1) : k # h => Put(e.files, h, v)[k] = e.files[k]
  BY Fields DEF Put

LEMMA PutAlike ==
  ASSUME NEW a, NEW b, NEW c, NEW d, Both(a, b), Alike(a, b),
         NEW h \in 0..(FILEMAX - 1), NEW u, NEW v, LikeFile(u, v),
         c.files = Put(a.files, h, u), d.files = Put(b.files, h, v),
         c.dir = d.dir, c.next = d.next, c.log = d.log
  PROVE  Alike(c, d)
<1>1. /\ Put(a.files, h, u)[h] = u
      /\ \A k \in 0..(FILEMAX - 1) : k # h => Put(a.files, h, u)[k] = a.files[k]
  <2>1. a \in Emulator(FILEMAX) /\ FILEMAX \in Nat
    BY Slots DEF Both
  <2>2. QED
    BY <2>1, PutSlot
<1>2. /\ Put(b.files, h, v)[h] = v
      /\ \A k \in 0..(MAXFILE - 1) : k # h => Put(b.files, h, v)[k] = b.files[k]
  <2>1. b \in Emulator(MAXFILE) /\ MAXFILE \in Nat /\ h \in 0..(MAXFILE - 1)
    BY Slots DEF Both
  <2>2. DOMAIN b.files = 0..(MAXFILE - 1) /\ b.files \in [0..(MAXFILE - 1) -> File]
    BY <2>1, Fields
  <2>3. QED
    BY <2>1, <2>2 DEF Put
<1>3. QED
  BY <1>1, <1>2, SlotAlike

-----------------------------------------------------------------------------
(* The calls, in both.                                                     *)

LEMMA CloseSide ==
  ASSUME NEW n \in Nat, NEW e \in Emulator(n), Sound(e), e.status = "running",
         NEW h \in Int
  PROVE  LET f == IF ~ Valid(e, h) THEN Answer(e, -1) ELSE Closed(e, h) IN
         f \in Emulator(n) /\ Sound(f)
<1>1. CASE ~ Valid(e, h)
  BY <1>1, AnswerEffect, AnswerSound
<1>2. CASE Valid(e, h)
  <2>1. h \in 0..(n - 1) /\ e.files[h] # NULL
    BY <1>2, ValidSlot
  <2>2. QED
    BY <1>2, <2>1, ClosedEffect
<1>3. QED
  BY <1>1, <1>2

LEMMA ClosePair ==
  ASSUME NEW a, NEW b, Both(a, b), a.status = "running", b.status = "running",
         NEW h \in Int
  PROVE  LET c == PcbFclose(a, h)
             d == XemuFclose(b, h)
         IN  Both(c, d) /\ Alikes(a, b, c, d) /\ Agree(a, b, c, d)
<1> DEFINE c == PcbFclose(a, h)
           d == XemuFclose(b, h)
<1>1. c \in Emulator(FILEMAX) /\ Sound(c)
  BY Slots, CloseSide DEF Both, PcbFclose
<1>2. d \in Emulator(MAXFILE) /\ Sound(d)
  BY Slots, CloseSide DEF Both, XemuFclose
<1>3. ASSUME Alike(a, b)
      PROVE  Alike(c, d) /\ c.ret = d.ret
  <2>1. CASE ~ Valid(a, h)
    <3>1. c = Answer(a, -1) /\ d = Answer(b, -1)
      BY <1>3, <2>1, AlikeValid DEF PcbFclose, XemuFclose
    <3> HIDE DEF c, d
    <3>2. QED
      BY <1>3, <3>1, AnswerPair
  <2>2. CASE Valid(a, h)
    <3>1. c = Closed(a, h) /\ d = Closed(b, h)
      BY <1>3, <2>2, AlikeValid DEF PcbFclose, XemuFclose
    <3>2. /\ h \in 0..(FILEMAX - 1) /\ h \in 0..(MAXFILE - 1)
          /\ a.files[h] # NULL /\ b.files[h] # NULL
      BY <1>3, <2>2, AlikeValid DEF Valid
    <3> HIDE DEF c, d
    <3>3. /\ c.files = Put(a.files, h, NULL) /\ c.dir = a.dir /\ c.log = a.log
          /\ c.next = a.next /\ c.ret = 0
      BY <3>1, <3>2, Slots, ClosedEffect DEF Both
    <3>4. /\ d.files = Put(b.files, h, NULL) /\ d.dir = b.dir /\ d.log = b.log
          /\ d.next = b.next /\ d.ret = 0
      BY <3>1, <3>2, Slots, ClosedEffect DEF Both
    <3>5. c.dir = d.dir /\ c.log = d.log /\ c.next = d.next
      BY <1>3, <3>3, <3>4 DEF Alike
    <3>6. LikeFile(NULL, NULL)
      BY DEF LikeFile
    <3>7. Alike(c, d)
      BY <1>3, <3>2, <3>3, <3>4, <3>5, <3>6, PutAlike
    <3>8. QED
      BY <3>3, <3>4, <3>7
  <2>3. QED
    BY <2>1, <2>2
<1> HIDE DEF c, d
<1>4. Both(c, d) /\ Alikes(a, b, c, d) /\ Agree(a, b, c, d)
  BY <1>1, <1>2, <1>3 DEF Both, Alikes, Agree
<1>5. QED
  BY <1>4 DEF c, d

\* Handles that writing or reading refuses end pso.
LEMMA WriteSides ==
  ASSUME NEW a, NEW b, Both(a, b), a.status = "running", b.status = "running",
         NEW h \in Int, NEW siz, siz # 0, NEW rec \in Nat, NEW early \in BOOLEAN
  PROVE  Both(PcbFwrite(a, h, siz, rec, early), XemuFwrite(b, h, siz, rec))
<1> DEFINE c == PcbFwrite(a, h, siz, rec, early)
           d == XemuFwrite(b, h, siz, rec)
<1>1. c \in Emulator(FILEMAX) /\ Sound(c)
  <2>1. CASE ~ Valid(a, h)
    <3>1. c = Answer(a, -1)
      BY <2>1 DEF PcbFwrite
    <3> HIDE DEF c
    <3>2. QED
      BY <3>1, Slots, AnswerEffect, AnswerSound DEF Both
  <2>2. CASE Valid(a, h)
    <3>1. h \in 0..(FILEMAX - 1) /\ a.files[h] # NULL
      BY <2>2, Slots, ValidSlot DEF Both
    <3>2. a.files[h].mode \in {"r", "w"}
      BY <3>1, Slots, UsedSlot DEF Both
    <3>3. CASE a.files[h].mode = "r"
      <4>1. c = [a EXCEPT !.status = "aborted"]
        BY <2>2, <3>3 DEF PcbFwrite
      <4> HIDE DEF c
      <4>2. QED
        BY <4>1, Slots, AbortEffect DEF Both
    <3>4. CASE a.files[h].mode = "w"
      <4>1. c = Wrote(a, h, rec, early)
        BY <2>2, <3>4 DEF PcbFwrite
      <4> HIDE DEF c
      <4>2. QED
        BY <3>1, <3>4, <4>1, Slots, WroteEffect DEF Both
    <3>5. QED
      BY <3>2, <3>3, <3>4
  <2>3. QED
    BY <2>1, <2>2
<1>2. d \in Emulator(MAXFILE) /\ Sound(d)
  <2>1. CASE ~ Valid(b, h)
    <3>1. d = Answer(b, -1)
      BY <2>1 DEF XemuFwrite
    <3> HIDE DEF d
    <3>2. QED
      BY <3>1, Slots, AnswerEffect, AnswerSound DEF Both
  <2>2. CASE Valid(b, h)
    <3>1. h \in 0..(MAXFILE - 1) /\ b.files[h] # NULL
      BY <2>2, Slots, ValidSlot DEF Both
    <3>2. b.files[h].mode \in {"r", "w"}
      BY <3>1, Slots, UsedSlot DEF Both
    <3>3. CASE b.files[h].mode = "r"
      <4>1. d = Answer(b, 0)
        BY <2>2, <3>3 DEF XemuFwrite
      <4> HIDE DEF d
      <4>2. QED
        BY <4>1, Slots, AnswerEffect, AnswerSound DEF Both
    <3>4. CASE b.files[h].mode = "w"
      <4>1. d = Wrote(b, h, rec, FALSE)
        BY <2>2, <3>4 DEF XemuFwrite
      <4> HIDE DEF d
      <4>2. QED
        BY <3>1, <3>4, <4>1, Slots, WroteEffect DEF Both
    <3>5. QED
      BY <3>2, <3>3, <3>4
  <2>3. QED
    BY <2>1, <2>2
<1>3. QED
  BY <1>1, <1>2 DEF Both

LEMMA WritePair ==
  ASSUME NEW a, NEW b, Both(a, b), a.status = "running", b.status = "running",
         NEW h \in Int, NEW siz, siz # 0, NEW rec \in Nat, NEW early \in BOOLEAN
  PROVE  LET c == PcbFwrite(a, h, siz, rec, early)
             d == XemuFwrite(b, h, siz, rec)
         IN  Both(c, d) /\ Alikes(a, b, c, d) /\ Agree(a, b, c, d)
<1> DEFINE c == PcbFwrite(a, h, siz, rec, early)
           d == XemuFwrite(b, h, siz, rec)
<1>1. Both(c, d)
  BY WriteSides
<1>2. ASSUME Alike(a, b), c.status = "running"
      PROVE  Alike(c, d) /\ c.ret = d.ret
  <2>1. CASE ~ Valid(a, h)
    <3>1. c = Answer(a, -1) /\ d = Answer(b, -1)
      BY <1>2, <2>1, AlikeValid DEF PcbFwrite, XemuFwrite
    <3> HIDE DEF c, d
    <3>2. QED
      BY <1>2, <3>1, AnswerPair
  <2>2. CASE Valid(a, h)
    <3>1. /\ h \in 0..(FILEMAX - 1) /\ h \in 0..(MAXFILE - 1) /\ Valid(b, h)
          /\ a.files[h] # NULL /\ LikeFile(a.files[h], b.files[h])
      BY <1>2, <2>2, AlikeValid DEF Valid
    <3>2. a.files[h].mode \in {"r", "w"}
      BY <3>1, Slots, UsedSlot DEF Both
    <3>3. a.files[h].mode # "r"
      <4> SUFFICES ASSUME a.files[h].mode = "r" PROVE FALSE
        OBVIOUS
      <4>1. c = [a EXCEPT !.status = "aborted"]
        BY <2>2 DEF PcbFwrite
      <4> HIDE DEF c
      <4>2. c.status = "aborted"
        BY <4>1, Slots, AbortEffect DEF Both
      <4>3. QED
        BY <1>2, <4>2
    <3>4. a.files[h].mode = "w" /\ b.files[h].mode = "w"
      BY <3>1, <3>2, <3>3 DEF LikeFile
    <3>5. c = Wrote(a, h, rec, early) /\ d = Wrote(b, h, rec, FALSE)
      BY <2>2, <3>1, <3>4 DEF PcbFwrite, XemuFwrite
    <3> HIDE DEF c, d
    <3>6. /\ c.ret = 1 /\ c.files[h].ino = a.files[h].ino /\ c.files[h].mode = "w"
          /\ c.files[h].pos = a.files[h].pos /\ c.dir = a.dir /\ c.next = a.next
          /\ c.log = Put(a.log, a.files[h].ino, Append(a.log[a.files[h].ino], rec))
          /\ \A k \in 0..(FILEMAX - 1) : k # h => c.files[k] = a.files[k]
      BY <3>1, <3>4, <3>5, Slots, WroteEffect DEF Both
    <3>7. /\ d.ret = 1 /\ d.files[h].ino = b.files[h].ino /\ d.files[h].mode = "w"
          /\ d.files[h].pos = b.files[h].pos /\ d.dir = b.dir /\ d.next = b.next
          /\ d.log = Put(b.log, b.files[h].ino, Append(b.log[b.files[h].ino], rec))
          /\ \A k \in 0..(MAXFILE - 1) : k # h => d.files[k] = b.files[k]
      <4>1. /\ b \in Emulator(MAXFILE) /\ MAXFILE \in Nat /\ Sound(b)
        BY Slots DEF Both
      <4> DEFINE no == FALSE
      <4>2. no \in BOOLEAN /\ d = Wrote(b, h, rec, no)
        BY <3>5
      <4> HIDE DEF no
      <4>3. QED
        BY <3>1, <3>4, <4>1, <4>2, WroteEffect
    <3>8. LikeFile(c.files[h], d.files[h])
      BY <3>1, <3>6, <3>7 DEF LikeFile
    <3>9. c.dir = d.dir /\ c.next = d.next /\ c.log = d.log
      BY <1>2, <3>1, <3>6, <3>7 DEF Alike, LikeFile
    <3>10. Alike(c, d)
      BY <1>2, <3>1, <3>6, <3>7, <3>8, <3>9, SlotAlike
    <3>11. QED
      BY <3>6, <3>7, <3>10
  <2>3. QED
    BY <2>1, <2>2
<1> HIDE DEF c, d
<1>3. Alikes(a, b, c, d) /\ Agree(a, b, c, d)
  BY <1>2 DEF Alikes, Agree
<1>4. QED
  BY <1>1, <1>3 DEF c, d

LEMMA ReadSides ==
  ASSUME NEW a, NEW b, Both(a, b), a.status = "running", b.status = "running",
         NEW h \in Int, NEW siz, siz # 0
  PROVE  Both(PcbFread(a, h, siz), XemuFread(b, h, siz))
<1> DEFINE c == PcbFread(a, h, siz)
           d == XemuFread(b, h, siz)
<1>1. c \in Emulator(FILEMAX) /\ Sound(c)
  <2>1. CASE ~ Valid(a, h)
    <3>1. c = Answer(a, -1)
      BY <2>1 DEF PcbFread
    <3> HIDE DEF c
    <3>2. QED
      BY <3>1, Slots, AnswerEffect, AnswerSound DEF Both
  <2>2. CASE Valid(a, h)
    <3>1. h \in 0..(FILEMAX - 1) /\ a.files[h] # NULL
      BY <2>2, Slots, ValidSlot DEF Both
    <3>2. a.files[h].mode \in {"r", "w"}
      BY <3>1, Slots, UsedSlot DEF Both
    <3>3. CASE a.files[h].mode = "w"
      <4>1. c = [a EXCEPT !.status = "aborted"]
        BY <2>2, <3>3 DEF PcbFread
      <4> HIDE DEF c
      <4>2. QED
        BY <4>1, Slots, AbortEffect DEF Both
    <3>4. CASE a.files[h].mode = "r"
      <4>1. c = Read(a, h)
        BY <2>2, <3>4 DEF PcbFread
      <4> HIDE DEF c
      <4>2. QED
        BY <3>1, <3>4, <4>1, Slots, ReadEffect DEF Both
    <3>5. QED
      BY <3>2, <3>3, <3>4
  <2>3. QED
    BY <2>1, <2>2
<1>2. d \in Emulator(MAXFILE) /\ Sound(d)
  <2>1. CASE ~ Valid(b, h)
    <3>1. d = Answer(b, -1)
      BY <2>1 DEF XemuFread
    <3> HIDE DEF d
    <3>2. QED
      BY <3>1, Slots, AnswerEffect, AnswerSound DEF Both
  <2>2. CASE Valid(b, h)
    <3>1. h \in 0..(MAXFILE - 1) /\ b.files[h] # NULL
      BY <2>2, Slots, ValidSlot DEF Both
    <3>2. b.files[h].mode \in {"r", "w"}
      BY <3>1, Slots, UsedSlot DEF Both
    <3>3. CASE b.files[h].mode = "w"
      <4>1. d = Answer(b, 0)
        BY <2>2, <3>3 DEF XemuFread
      <4> HIDE DEF d
      <4>2. QED
        BY <4>1, Slots, AnswerEffect, AnswerSound DEF Both
    <3>4. CASE b.files[h].mode = "r"
      <4>1. d = Read(b, h)
        BY <2>2, <3>4 DEF XemuFread
      <4> HIDE DEF d
      <4>2. QED
        BY <3>1, <3>4, <4>1, Slots, ReadEffect DEF Both
    <3>5. QED
      BY <3>2, <3>3, <3>4
  <2>3. QED
    BY <2>1, <2>2
<1>3. QED
  BY <1>1, <1>2 DEF Both

LEMMA MovedFile ==
  ASSUME NEW u \in File, NEW v \in File, LikeFile(u, v), NEW p
  PROVE  LikeFile(Moved(u, p), Moved(v, p))
  BY DEF LikeFile, Moved, File

LEMMA ReadPair ==
  ASSUME NEW a, NEW b, Both(a, b), a.status = "running", b.status = "running",
         NEW h \in Int, NEW siz, siz # 0
  PROVE  LET c == PcbFread(a, h, siz)
             d == XemuFread(b, h, siz)
         IN  Both(c, d) /\ Alikes(a, b, c, d) /\ Agree(a, b, c, d)
<1> DEFINE c == PcbFread(a, h, siz)
           d == XemuFread(b, h, siz)
<1>1. Both(c, d)
  BY ReadSides
<1>2. ASSUME Alike(a, b), c.status = "running"
      PROVE  Alike(c, d) /\ c.ret = d.ret
  <2>1. CASE ~ Valid(a, h)
    <3>1. c = Answer(a, -1) /\ d = Answer(b, -1)
      BY <1>2, <2>1, AlikeValid DEF PcbFread, XemuFread
    <3> HIDE DEF c, d
    <3>2. QED
      BY <1>2, <3>1, AnswerPair
  <2>2. CASE Valid(a, h)
    <3>1. /\ h \in 0..(FILEMAX - 1) /\ h \in 0..(MAXFILE - 1) /\ Valid(b, h)
          /\ a.files[h] # NULL /\ LikeFile(a.files[h], b.files[h])
      BY <1>2, <2>2, AlikeValid DEF Valid
    <3>2. a.files[h].mode \in {"r", "w"}
      BY <3>1, Slots, UsedSlot DEF Both
    <3>3. a.files[h].mode # "w"
      <4> SUFFICES ASSUME a.files[h].mode = "w" PROVE FALSE
        OBVIOUS
      <4>1. c = [a EXCEPT !.status = "aborted"]
        BY <2>2 DEF PcbFread
      <4> HIDE DEF c
      <4>2. c.status = "aborted"
        BY <4>1, Slots, AbortEffect DEF Both
      <4>3. QED
        BY <1>2, <4>2
    <3>4. a.files[h].mode = "r" /\ b.files[h].mode = "r"
      BY <3>1, <3>2, <3>3 DEF LikeFile
    <3>5. c = Read(a, h) /\ d = Read(b, h)
      BY <2>2, <3>1, <3>4 DEF PcbFread, XemuFread
    <3> DEFINE p == a.files[h].pos
               l == a.log[a.files[h].ino]
    <3>6. b.files[h].pos = p /\ b.log[b.files[h].ino] = l
      BY <1>2, <3>1 DEF Alike, LikeFile
    <3>7. /\ a \in Emulator(FILEMAX) /\ FILEMAX \in Nat /\ Sound(a)
          /\ b \in Emulator(MAXFILE) /\ MAXFILE \in Nat /\ Sound(b)
      BY Slots DEF Both
    <3> HIDE DEF c, d
    <3>8. /\ c.files = (IF p >= Len(l) THEN a.files
                        ELSE Put(a.files, h, Moved(a.files[h], p + 1)))
          /\ c.ret = (IF p >= Len(l) THEN 0 ELSE l[p + 1])
          /\ c.dir = a.dir /\ c.log = a.log /\ c.next = a.next
      BY <3>1, <3>4, <3>5, <3>7, ReadEffect
    <3>9. /\ d.files = (IF p >= Len(l) THEN b.files
                        ELSE Put(b.files, h, Moved(b.files[h], p + 1)))
          /\ d.ret = (IF p >= Len(l) THEN 0 ELSE l[p + 1])
          /\ d.dir = b.dir /\ d.log = b.log /\ d.next = b.next
      <4> DEFINE q == b.files[h].pos
                 m == b.log[b.files[h].ino]
      <4>1. /\ d.files = (IF q >= Len(m) THEN b.files
                          ELSE Put(b.files, h, Moved(b.files[h], q + 1)))
            /\ d.ret = (IF q >= Len(m) THEN 0 ELSE m[q + 1])
            /\ d.dir = b.dir /\ d.log = b.log /\ d.next = b.next
        BY <3>1, <3>4, <3>5, <3>7, ReadEffect
      <4>2. q = p /\ m = l
        BY <3>6
      <4> HIDE DEF p, q, l, m
      <4>3. QED
        BY <4>1, <4>2
    <3> HIDE DEF p, l
    <3>10. c.dir = d.dir /\ c.log = d.log /\ c.next = d.next /\ c.ret = d.ret
      BY <1>2, <3>8, <3>9 DEF Alike
    <3>11. CASE p >= Len(l)
      BY <1>2, <3>8, <3>9, <3>10, <3>11 DEF Alike
    <3>12. CASE ~ (p >= Len(l))
      <4>1. a.files[h] \in File /\ b.files[h] \in File
        BY <3>1, <3>7, Fields
      <4>2. LikeFile(Moved(a.files[h], p + 1), Moved(b.files[h], p + 1))
        BY <3>1, <4>1, MovedFile
      <4>3. /\ c.files = Put(a.files, h, Moved(a.files[h], p + 1))
            /\ d.files = Put(b.files, h, Moved(b.files[h], p + 1))
        BY <3>8, <3>9, <3>12
      <4>4. Alike(c, d)
        BY <1>2, <3>1, <3>10, <4>2, <4>3, PutAlike
      <4>5. QED
        BY <3>10, <4>4
    <3>13. QED
      BY <3>11, <3>12
  <2>3. QED
    BY <2>1, <2>2
<1> HIDE DEF c, d
<1>3. Alikes(a, b, c, d) /\ Agree(a, b, c, d)
  BY <1>2 DEF Alikes, Agree
<1>4. QED
  BY <1>1, <1>3 DEF c, d

\* Items of no size: pso refuses them, and xemu does if the handle is wrong.
LEMMA EmptyPair ==
  ASSUME NEW a, NEW b, Both(a, b), NEW h \in Int, NEW c, NEW d, c = Answer(a, -1),
         d = Answer(b, IF Valid(b, h) THEN 0 ELSE -1)
  PROVE  Both(c, d) /\ Alikes(a, b, c, d)
<1>1. PICK r \in Int, s \in Int : r = -1 /\ s = IF Valid(b, h) THEN 0 ELSE -1
  OBVIOUS
<1>2. c = Answer(a, r) /\ d = Answer(b, s)
  BY <1>1
<1>3. QED
  BY <1>2, AnswerPair DEF Alikes

LEMMA SeekPair ==
  ASSUME NEW a, NEW b, Both(a, b), a.status = "running", b.status = "running",
         NEW h \in Int, NEW p \in Nat
  PROVE  LET c == PcbFseek(a, h, p)
             d == XemuFseek(b, h, p)
         IN  Both(c, d) /\ Alikes(a, b, c, d)
<1> DEFINE c == PcbFseek(a, h, p)
           d == XemuFseek(b, h, p)
           ca == Seek(a, h, p)
           db == Seek(b, h, p)
<1>1. /\ a \in Emulator(FILEMAX) /\ FILEMAX \in Nat /\ Sound(a)
      /\ b \in Emulator(MAXFILE) /\ MAXFILE \in Nat /\ Sound(b)
  BY Slots DEF Both
<1>2. c = IF ~ Valid(a, h) THEN Answer(a, -1) ELSE Answer(ca, p)
  BY DEF PcbFseek, Seek
<1>3. d = IF ~ Valid(b, h) THEN Answer(b, -1) ELSE Answer(db, 0)
  BY DEF XemuFseek, Seek
<1> HIDE DEF c, d
<1>4. ASSUME Valid(a, h)
      PROVE  /\ h \in 0..(FILEMAX - 1) /\ ca \in Emulator(FILEMAX) /\ Sound(ca)
             /\ ca.files = Put(a.files, h, Moved(a.files[h], p))
             /\ ca.dir = a.dir /\ ca.log = a.log /\ ca.next = a.next
  <2>1. h \in 0..(FILEMAX - 1) /\ a.files[h] # NULL
    BY <1>1, <1>4, ValidSlot
  <2>2. QED
    BY <1>1, <2>1, PosEffect
<1>5. ASSUME Valid(b, h)
      PROVE  /\ h \in 0..(MAXFILE - 1) /\ db \in Emulator(MAXFILE) /\ Sound(db)
             /\ db.files = Put(b.files, h, Moved(b.files[h], p))
             /\ db.dir = b.dir /\ db.log = b.log /\ db.next = b.next
  <2>1. h \in 0..(MAXFILE - 1) /\ b.files[h] # NULL
    BY <1>1, <1>5, ValidSlot
  <2>2. QED
    BY <1>1, <2>1, PosEffect
<1> HIDE DEF ca, db
<1>6. c \in Emulator(FILEMAX) /\ Sound(c)
  <2>1. CASE ~ Valid(a, h)
    BY <1>1, <1>2, <2>1, AnswerEffect, AnswerSound
  <2>2. CASE Valid(a, h)
    BY <1>1, <1>2, <1>4, <2>2, AnswerEffect, AnswerSound
  <2>3. QED
    BY <2>1, <2>2
<1>7. d \in Emulator(MAXFILE) /\ Sound(d)
  <2>1. CASE ~ Valid(b, h)
    BY <1>1, <1>3, <2>1, AnswerEffect, AnswerSound
  <2>2. CASE Valid(b, h)
    BY <1>1, <1>3, <1>5, <2>2, AnswerEffect, AnswerSound
  <2>3. QED
    BY <2>1, <2>2
<1>8. ASSUME Alike(a, b)
      PROVE  Alike(c, d)
  <2>1. CASE ~ Valid(a, h)
    <3>1. c = Answer(a, -1) /\ d = Answer(b, -1)
      BY <1>2, <1>3, <1>8, <2>1, AlikeValid
    <3>2. QED
      BY <1>8, <3>1, AnswerPair
  <2>2. CASE Valid(a, h)
    <3>1. Valid(b, h) /\ LikeFile(a.files[h], b.files[h]) /\ h \in 0..(FILEMAX - 1)
      BY <1>8, <2>2, AlikeValid
    <3>2. a.files[h] \in File /\ b.files[h] \in File
      BY <1>1, <1>5, <3>1, Fields
    <3>3. LikeFile(Moved(a.files[h], p), Moved(b.files[h], p))
      BY <3>1, <3>2, MovedFile
    <3>4. ca.dir = db.dir /\ ca.log = db.log /\ ca.next = db.next
      BY <1>4, <1>5, <1>8, <2>2, <3>1 DEF Alike
    <3>5. /\ ca.files = Put(a.files, h, Moved(a.files[h], p))
          /\ db.files = Put(b.files, h, Moved(b.files[h], p))
      BY <1>4, <1>5, <2>2, <3>1
    <3>6. Alike(ca, db)
      BY <1>8, <3>1, <3>3, <3>4, <3>5, PutAlike
    <3>7. Both(ca, db)
      BY <1>4, <1>5, <2>2, <3>1 DEF Both
    <3>8. c = Answer(ca, p) /\ d = Answer(db, 0) /\ p \in Int /\ 0 \in Int
      BY <1>2, <1>3, <2>2, <3>1
    <3>9. QED
      BY <3>6, <3>7, <3>8, AnswerPair
  <2>3. QED
    BY <2>1, <2>2
<1>9. Both(c, d) /\ Alikes(a, b, c, d)
  BY <1>6, <1>7, <1>8 DEF Both, Alikes
<1>10. QED
  BY <1>9 DEF c, d

LEMMA TellSide ==
  ASSUME NEW n \in Nat, NEW e \in Emulator(n), Sound(e), NEW h \in Int
  PROVE  Ftell(e, h) \in Emulator(n) /\ Sound(Ftell(e, h))
<1>1. CASE ~ Valid(e, h)
  BY <1>1, AnswerEffect, AnswerSound DEF Ftell
<1>2. CASE Valid(e, h)
  <2> DEFINE r == e.files[h].pos + Len(e.log[e.files[h].ino])
                                   * (IF e.files[h].mode = "w" THEN 1 ELSE 0)
  <2>1. h \in 0..(n - 1) /\ e.files[h] # NULL
    BY <1>2, ValidSlot
  <2>2. e.files[h].ino \in Inode /\ e.files[h].pos \in Nat
    BY <2>1, UsedSlot, Fields, FileFields
  <2>3. e.log[e.files[h].ino] \in Seq(Nat)
    BY <2>2, Fields
  <2>4. r \in Int
    <3> DEFINE l == Len(e.log[e.files[h].ino])
               k == IF e.files[h].mode = "w" THEN 1 ELSE 0
    <3>1. l \in Nat /\ k \in Nat
      BY SMTT(30), <2>3
    <3> HIDE DEF l, k
    <3>2. e.files[h].pos + l * k \in Int
      BY <2>2, <3>1
    <3>3. QED
      BY <3>2 DEF l, k
  <2>5. Ftell(e, h) = Answer(e, r)
    BY <1>2 DEF Ftell
  <2> HIDE DEF r
  <2>6. QED
    BY <2>4, <2>5, AnswerEffect, AnswerSound
<1>3. QED
  BY <1>1, <1>2

LEMMA TellPair ==
  ASSUME NEW a, NEW b, Both(a, b), a.status = "running", b.status = "running",
         NEW h \in Int
  PROVE  LET c == Ftell(a, h)
             d == Ftell(b, h)
         IN  Both(c, d) /\ Alikes(a, b, c, d) /\ Agree(a, b, c, d)
<1> DEFINE c == Ftell(a, h)
           d == Ftell(b, h)
           At(e) == e.files[h].pos + Len(e.log[e.files[h].ino])
                                     * (IF e.files[h].mode = "w" THEN 1 ELSE 0)
<1>1. Both(c, d)
  BY Slots, TellSide DEF Both
<1>2. ASSUME Alike(a, b)
      PROVE  Alike(c, d) /\ c.ret = d.ret
  <2>1. PICK r : c = Answer(a, r) /\ d = Answer(b, r)
    <3>1. CASE ~ Valid(a, h)
      BY <1>2, <3>1, AlikeValid DEF Ftell
    <3>2. CASE Valid(a, h)
      <4>1. Valid(b, h) /\ LikeFile(a.files[h], b.files[h])
        BY <1>2, <3>2, AlikeValid
      <4>2. At(a) = At(b)
        BY <1>2, <4>1 DEF Alike, LikeFile
      <4>3. c = Answer(a, At(a)) /\ d = Answer(b, At(b))
        BY <3>2, <4>1 DEF Ftell
      <4>4. QED
        BY <4>2, <4>3
    <3>3. QED
      BY <3>1, <3>2
  <2> HIDE DEF c, d
  <2>2. /\ c.files = a.files /\ c.dir = a.dir /\ c.log = a.log /\ c.next = a.next
        /\ c.ret = r
    BY <2>1 DEF Answer, Both, Emulator
  <2>3. /\ d.files = b.files /\ d.dir = b.dir /\ d.log = b.log /\ d.next = b.next
        /\ d.ret = r
    BY <2>1 DEF Answer, Both, Emulator
  <2>4. QED
    BY <1>2, <2>2, <2>3 DEF Alike
<1> HIDE DEF c, d
<1>3. Alikes(a, b, c, d) /\ Agree(a, b, c, d)
  BY <1>2 DEF Alikes, Agree
<1>4. QED
  BY <1>1, <1>3 DEF c, d

LEMMA UnlinkSide ==
  ASSUME NEW n \in Nat, NEW e \in Emulator(n), Sound(e), NEW x \in Names
  PROVE  LET f == Unlink(e, x) IN
         /\ f \in Emulator(n) /\ Sound(f) /\ f.files = e.files /\ f.log = e.log
         /\ f.next = e.next /\ f.ret = (IF e.dir[x] = 0 THEN -1 ELSE 0)
         /\ f.dir = (IF e.dir[x] = 0 THEN e.dir ELSE Put(e.dir, x, 0))
<1> DEFINE f == Unlink(e, x)
<1>1. CASE e.dir[x] = 0
  <2>1. f = Answer(e, -1)
    BY <1>1 DEF Unlink
  <2> HIDE DEF f
  <2>2. /\ f \in Emulator(n) /\ Sound(f) /\ f.files = e.files /\ f.log = e.log
        /\ f.next = e.next /\ f.ret = -1 /\ f.dir = e.dir
    BY <2>1, AnswerEffect, AnswerSound
  <2>3. QED
    BY <1>1, <2>2 DEF f
<1>2. CASE e.dir[x] # 0
  <2> DEFINE D == Put(e.dir, x, 0)
  <2>1. f = Answer([e EXCEPT !.dir = D], 0)
    BY <1>2 DEF Unlink, Put
  <2>2. e.dir \in [Names -> Nat] /\ e.next \in Nat
    BY Fields
  <2>3. e.next \in 1..(MAXINODE + 1) /\ \A y \in Names : e.dir[y] \in 0..(e.next - 1)
    BY DEF Sound
  <2>4. D \in [Names -> Nat] /\ \A y \in Names : D[y] = e.dir[y] \/ D[y] = 0
    BY <2>2 DEF Put
  <2>5. \A y \in Names : D[y] \in 0..(e.next - 1)
    <3>1. 0 \in 0..(e.next - 1)
      BY <2>2, <2>3
    <3> HIDE DEF D
    <3>2. QED
      BY <2>3, <2>4, <3>1
  <2> HIDE DEF f, D
  <2>6. /\ f \in Emulator(n) /\ Sound(f) /\ f.files = e.files /\ f.log = e.log
        /\ f.next = e.next /\ f.ret = 0 /\ f.dir = D
    BY <2>1, <2>4, <2>5, DirEffect
  <2>7. QED
    BY <1>2, <2>6 DEF f, D
<1>3. QED
  BY <1>1, <1>2

LEMMA UnlinkPair ==
  ASSUME NEW a, NEW b, Both(a, b), NEW x \in Names
  PROVE  LET c == Unlink(a, x)
             d == Unlink(b, x)
         IN  Both(c, d) /\ Alikes(a, b, c, d) /\ Agree(a, b, c, d)
<1> DEFINE c == Unlink(a, x)
           d == Unlink(b, x)
<1>1. /\ c \in Emulator(FILEMAX) /\ Sound(c) /\ c.files = a.files /\ c.log = a.log
      /\ c.next = a.next /\ c.ret = (IF a.dir[x] = 0 THEN -1 ELSE 0)
      /\ c.dir = (IF a.dir[x] = 0 THEN a.dir ELSE Put(a.dir, x, 0))
  BY Slots, UnlinkSide DEF Both
<1>2. /\ d \in Emulator(MAXFILE) /\ Sound(d) /\ d.files = b.files /\ d.log = b.log
      /\ d.next = b.next /\ d.ret = (IF b.dir[x] = 0 THEN -1 ELSE 0)
      /\ d.dir = (IF b.dir[x] = 0 THEN b.dir ELSE Put(b.dir, x, 0))
  BY Slots, UnlinkSide DEF Both
<1> HIDE DEF c, d
<1>3. Both(c, d)
  BY <1>1, <1>2 DEF Both
<1>4. ASSUME Alike(a, b)
      PROVE  Alike(c, d) /\ c.ret = d.ret
  <2>1. a.dir = b.dir
    BY <1>4 DEF Alike
  <2>2. c.dir = d.dir /\ c.ret = d.ret
    BY <1>1, <1>2, <2>1
  <2>3. QED
    BY <1>1, <1>2, <1>4, <2>2 DEF Alike
<1>5. Alikes(a, b, c, d) /\ Agree(a, b, c, d)
  BY <1>4 DEF Alikes, Agree
<1>6. QED
  BY <1>3, <1>5 DEF c, d

\* A directory in which x has become y.
Renamed(D, x, y) == [D EXCEPT ![y] = D[x], ![x] = IF x = y THEN D[x] ELSE 0]

LEMMA RenameSide ==
  ASSUME NEW n \in Nat, NEW e \in Emulator(n), Sound(e), NEW x \in Names, NEW y \in Names
  PROVE  LET f == Rename(e, x, y) IN
         /\ f \in Emulator(n) /\ Sound(f) /\ f.files = e.files /\ f.log = e.log
         /\ f.next = e.next /\ f.ret = (IF e.dir[x] = 0 THEN -1 ELSE 0)
         /\ f.dir = (IF e.dir[x] = 0 THEN e.dir ELSE Renamed(e.dir, x, y))
<1> DEFINE f == Rename(e, x, y)
<1>1. CASE e.dir[x] = 0
  <2>1. f = Answer(e, -1)
    BY <1>1 DEF Rename
  <2> HIDE DEF f
  <2>2. /\ f \in Emulator(n) /\ Sound(f) /\ f.files = e.files /\ f.log = e.log
        /\ f.next = e.next /\ f.ret = -1 /\ f.dir = e.dir
    BY <2>1, AnswerEffect, AnswerSound
  <2>3. QED
    BY <1>1, <2>2 DEF f
<1>2. CASE e.dir[x] # 0
  <2> DEFINE D == Renamed(e.dir, x, y)
  <2>1. f = Answer([e EXCEPT !.dir = D], 0)
    BY <1>2 DEF Rename, Renamed
  <2>2. e.dir \in [Names -> Nat] /\ e.next \in Nat
    BY Fields
  <2>3. e.next \in 1..(MAXINODE + 1) /\ \A z \in Names : e.dir[z] \in 0..(e.next - 1)
    BY DEF Sound
  <2>4. D \in [Names -> Nat]
        /\ \A z \in Names : D[z] = e.dir[z] \/ D[z] = e.dir[x] \/ D[z] = 0
    BY <2>2 DEF Renamed
  <2>5. \A z \in Names : D[z] \in 0..(e.next - 1)
    <3>1. 0 \in 0..(e.next - 1) /\ e.dir[x] \in 0..(e.next - 1)
      BY <2>2, <2>3
    <3> HIDE DEF D
    <3>2. QED
      BY <2>3, <2>4, <3>1
  <2> HIDE DEF f, D
  <2>6. /\ f \in Emulator(n) /\ Sound(f) /\ f.files = e.files /\ f.log = e.log
        /\ f.next = e.next /\ f.ret = 0 /\ f.dir = D
    BY <2>1, <2>4, <2>5, DirEffect
  <2>7. QED
    BY <1>2, <2>6 DEF f, D
<1>3. QED
  BY <1>1, <1>2

LEMMA RenamePair ==
  ASSUME NEW a, NEW b, Both(a, b), NEW x \in Names, NEW y \in Names
  PROVE  LET c == Rename(a, x, y)
             d == Rename(b, x, y)
         IN  Both(c, d) /\ Alikes(a, b, c, d) /\ Agree(a, b, c, d)
<1> DEFINE c == Rename(a, x, y)
           d == Rename(b, x, y)
<1>1. /\ c \in Emulator(FILEMAX) /\ Sound(c) /\ c.files = a.files /\ c.log = a.log
      /\ c.next = a.next /\ c.ret = (IF a.dir[x] = 0 THEN -1 ELSE 0)
      /\ c.dir = (IF a.dir[x] = 0 THEN a.dir ELSE Renamed(a.dir, x, y))
  BY Slots, RenameSide DEF Both
<1>2. /\ d \in Emulator(MAXFILE) /\ Sound(d) /\ d.files = b.files /\ d.log = b.log
      /\ d.next = b.next /\ d.ret = (IF b.dir[x] = 0 THEN -1 ELSE 0)
      /\ d.dir = (IF b.dir[x] = 0 THEN b.dir ELSE Renamed(b.dir, x, y))
  BY Slots, RenameSide DEF Both
<1> HIDE DEF c, d
<1>3. Both(c, d)
  BY <1>1, <1>2 DEF Both
<1>4. ASSUME Alike(a, b)
      PROVE  Alike(c, d) /\ c.ret = d.ret
  <2>1. a.dir = b.dir
    BY <1>4 DEF Alike
  <2>2. c.dir = d.dir /\ c.ret = d.ret
    BY <1>1, <1>2, <2>1
  <2>3. QED
    BY <1>1, <1>2, <1>4, <2>2 DEF Alike
<1>5. Alikes(a, b, c, d) /\ Agree(a, b, c, d)
  BY <1>4 DEF Alikes, Agree
<1>6. QED
  BY <1>3, <1>5 DEF c, d

\* Emulators that are alike have the same first free slot.
LEMMA AlikeFree ==
  ASSUME NEW a, NEW b, Both(a, b), Alike(a, b), FreeSlot(a) < FILEMAX
  PROVE  FreeSlot(b) = FreeSlot(a)
<1> DEFINE h == FreeSlot(a)
           k == FreeSlot(b)
<1>1. /\ h \in FIRST..FILEMAX /\ a.files[h] = NULL
      /\ \A m \in FIRST..(FILEMAX - 1) : m < h => a.files[m] # NULL
  BY Slots, FirstFree DEF Both
<1>2. /\ k \in FIRST..MAXFILE /\ (k < MAXFILE => b.files[k] = NULL)
      /\ \A m \in FIRST..(MAXFILE - 1) : m < k => b.files[m] # NULL
  BY Slots, FirstFree DEF Both
<1>3. h < FILEMAX
  OBVIOUS
<1> HIDE DEF h, k
<1>4. \A m \in 0..(FILEMAX - 1) : a.files[m] = NULL <=> b.files[m] = NULL
  <2> SUFFICES ASSUME NEW m \in 0..(FILEMAX - 1)
               PROVE  a.files[m] = NULL <=> b.files[m] = NULL
    OBVIOUS
  <2>1. LikeFile(a.files[m], b.files[m]) /\ m \in 0..(MAXFILE - 1)
    BY Slots DEF Alike
  <2>2. a.files[m] = NULL <=> a.files[m].ino = 0
    BY Slots, FreeIno DEF Both
  <2>3. b.files[m] = NULL <=> b.files[m].ino = 0
    BY <2>1, Slots, FreeIno DEF Both
  <2>4. QED
    BY <2>1, <2>2, <2>3 DEF LikeFile
<1>5. ~ (h < k)
  <2> SUFFICES ASSUME h < k PROVE FALSE
    OBVIOUS
  <2>1. h \in 0..(FILEMAX - 1) /\ h \in FIRST..(MAXFILE - 1)
    BY <1>1, <1>3, SlotsAssumption
  <2>2. b.files[h] = NULL
    BY <1>1, <1>4, <2>1
  <2>3. QED
    BY <1>2, <2>1, <2>2
<1>6. ~ (k < h)
  <2> SUFFICES ASSUME k < h PROVE FALSE
    OBVIOUS
  <2>1. k \in 0..(FILEMAX - 1) /\ k \in FIRST..(FILEMAX - 1) /\ k < MAXFILE
    BY <1>1, <1>2, <1>3, SlotsAssumption
  <2>2. a.files[k] = NULL
    BY <1>2, <1>4, <2>1
  <2>3. QED
    BY <1>1, <2>1, <2>2
<1>7. h = k
  BY <1>1, <1>2, <1>5, <1>6, SlotsAssumption
<1>8. QED
  BY <1>7 DEF h, k

LEMMA OpenSide ==
  ASSUME NEW n \in Nat, NEW e \in Emulator(n), Sound(e), e.status = "running",
         FIRST < n, FreeSlot(e) < n, NEW x \in Names, NEW mode \in {"r", "w"},
         Unshared(e, x, mode), mode = "w" /\ e.dir[x] = 0 => e.next <= MAXINODE
  PROVE  LET f == IF ~ HostOpens(e, x, mode) THEN Answer(e, 0) ELSE Opened(e, x, mode)
         IN  /\ f \in Emulator(n) /\ Sound(f)
             /\ FreeSlot(e) \in 0..(n - 1) /\ e.files[FreeSlot(e)] = NULL
<1>1. FreeSlot(e) \in FIRST..n /\ e.files[FreeSlot(e)] = NULL
  BY FirstFree
<1>2. FreeSlot(e) \in 0..(n - 1)
  BY <1>1, SlotsAssumption
<1>3. CASE ~ HostOpens(e, x, mode)
  BY <1>1, <1>2, <1>3, AnswerEffect, AnswerSound
<1>4. CASE HostOpens(e, x, mode)
  <2>1. Opened(e, x, mode) \in Emulator(n) /\ Sound(Opened(e, x, mode))
    BY <1>1, <1>2, <1>4, OpenedEffect
  <2>2. QED
    BY <1>1, <1>2, <1>4, <2>1
<1>5. QED
  BY <1>3, <1>4

LEMMA OpenSides ==
  ASSUME NEW a, NEW b, Both(a, b), a.status = "running", b.status = "running",
         NEW x \in Names, NEW mode \in {"r", "w"},
         Unshared(a, x, mode), Unshared(b, x, mode),
         mode = "w" /\ a.dir[x] = 0 => a.next <= MAXINODE,
         mode = "w" /\ b.dir[x] = 0 => b.next <= MAXINODE
  PROVE  Both(PcbFopen(a, x, mode), XemuFopen(b, x, mode))
<1> DEFINE c == PcbFopen(a, x, mode)
           d == XemuFopen(b, x, mode)
<1>1. /\ a \in Emulator(FILEMAX) /\ FILEMAX \in Nat /\ Sound(a) /\ FIRST < FILEMAX
      /\ b \in Emulator(MAXFILE) /\ MAXFILE \in Nat /\ Sound(b) /\ FIRST < MAXFILE
  BY Slots DEF Both
<1>2. FreeSlot(a) \in FIRST..FILEMAX /\ FreeSlot(b) \in FIRST..MAXFILE
  BY <1>1, FirstFree
<1>3. FreeSlot(a) \in Int /\ FreeSlot(b) \in Int
  BY <1>2
<1>4. c \in Emulator(FILEMAX) /\ Sound(c)
  <2>1. CASE FreeSlot(a) >= FILEMAX
    <3>1. c = Answer(a, -1)
      BY <2>1 DEF PcbFopen
    <3> HIDE DEF c
    <3>2. QED
      BY <1>1, <3>1, AnswerEffect, AnswerSound
  <2>2. CASE ~ (FreeSlot(a) >= FILEMAX)
    <3>1. c = IF ~ HostOpens(a, x, mode) THEN Answer(a, 0) ELSE Opened(a, x, mode)
      BY <2>2 DEF PcbFopen
    <3>2. FreeSlot(a) < FILEMAX
      BY <1>1, <1>3, <2>2
    <3> HIDE DEF c
    <3>3. QED
      BY <1>1, <3>1, <3>2, OpenSide
  <2>3. QED
    BY <2>1, <2>2
<1>5. d \in Emulator(MAXFILE) /\ Sound(d)
  <2>1. CASE FreeSlot(b) >= MAXFILE
    <3> DEFINE s == "shutdown"
    <3>1. d = [FlushAll(b) EXCEPT !.status = s] /\ s \in {"exit", "shutdown"}
      BY <2>1 DEF XemuFopen
    <3> HIDE DEF d, s
    <3>2. QED
      BY <1>1, <3>1, ShutdownEffect
  <2>2. CASE ~ (FreeSlot(b) >= MAXFILE)
    <3>1. d = IF ~ HostOpens(b, x, mode) THEN Answer(b, 0) ELSE Opened(b, x, mode)
      BY <2>2 DEF XemuFopen
    <3>2. FreeSlot(b) < MAXFILE
      BY <1>1, <1>3, <2>2
    <3> HIDE DEF d
    <3>3. QED
      BY <1>1, <3>1, <3>2, OpenSide
  <2>3. QED
    BY <2>1, <2>2
<1>6. QED
  BY <1>4, <1>5 DEF Both

\* While pso has a slot, both open the same file in the same slot.
LEMMA OpenPair ==
  ASSUME NEW a, NEW b, Both(a, b), a.status = "running", b.status = "running",
         NEW x \in Names, NEW mode \in {"r", "w"},
         Unshared(a, x, mode), Unshared(b, x, mode),
         mode = "w" /\ a.dir[x] = 0 => a.next <= MAXINODE,
         mode = "w" /\ b.dir[x] = 0 => b.next <= MAXINODE,
         Alike(a, b), ~ (FreeSlot(a) >= FILEMAX)
  PROVE  LET c == PcbFopen(a, x, mode)
             d == XemuFopen(b, x, mode)
         IN  Alike(c, d) /\ c.ret = d.ret
<1> DEFINE c == PcbFopen(a, x, mode)
           d == XemuFopen(b, x, mode)
           h == FreeSlot(a)
<1>1. /\ a \in Emulator(FILEMAX) /\ FILEMAX \in Nat /\ Sound(a) /\ FIRST < FILEMAX
      /\ b \in Emulator(MAXFILE) /\ MAXFILE \in Nat /\ Sound(b) /\ FIRST < MAXFILE
  BY Slots DEF Both
<1>2. h \in FIRST..FILEMAX /\ h \in Int
  BY <1>1, FirstFree
<1>3. h < FILEMAX
  BY <1>1, <1>2
<1>4. FreeSlot(b) = h
  BY <1>3, AlikeFree
<1>5. a.files[h] = NULL /\ b.files[h] = NULL
  <2>1. h < MAXFILE
    BY <1>2, <1>3, SlotsAssumption
  <2>2. QED
    BY <1>1, <1>3, <1>4, <2>1, FirstFree
<1>6. h \in 0..(FILEMAX - 1) /\ h \in 0..(MAXFILE - 1) /\ ~ (h >= MAXFILE)
  BY <1>2, <1>3, SlotsAssumption
<1>7. a.dir = b.dir /\ a.next = b.next /\ a.log = b.log
  BY DEF Alike
<1>8. CASE ~ HostOpens(a, x, mode)
  <2>1. c = Answer(a, 0) /\ d = Answer(b, 0)
    BY <1>4, <1>6, <1>7, <1>8 DEF PcbFopen, XemuFopen, HostOpens
  <2> HIDE DEF c, d
  <2>2. Alike(c, d) /\ c.ret = d.ret
    BY <2>1, AnswerPair
  <2>3. QED
    BY <2>2 DEF c, d
<1>9. CASE HostOpens(a, x, mode)
  <2>1. HostOpens(b, x, mode)
    BY <1>7, <1>9 DEF HostOpens
  <2>2. c = Opened(a, x, mode)
    BY <1>9 DEF PcbFopen
  <2>3. d = Opened(b, x, mode)
    BY <1>4, <1>6, <2>1 DEF XemuFopen
  <2> DEFINE makes == mode = "w" /\ a.dir[x] = 0
             empties == mode = "w" /\ a.dir[x] # 0
             j == IF makes THEN a.next ELSE a.dir[x]
  <2>4. /\ c.ret = h /\ c.files = Put(a.files, h, Open(j, mode))
        /\ c.dir = (IF makes THEN Put(a.dir, x, a.next) ELSE a.dir)
        /\ c.next = (IF makes THEN a.next + 1 ELSE a.next)
        /\ c.log = (IF empties THEN Put(a.log, a.dir[x], <<>>) ELSE a.log)
    BY <1>1, <1>5, <1>6, <1>9, <2>2, OpenedEffect
  <2>5. /\ d.ret = h /\ d.files = Put(b.files, h, Open(j, mode))
        /\ d.dir = (IF makes THEN Put(a.dir, x, a.next) ELSE a.dir)
        /\ d.next = (IF makes THEN a.next + 1 ELSE a.next)
        /\ d.log = (IF empties THEN Put(a.log, a.dir[x], <<>>) ELSE a.log)
    <3> DEFINE m == mode = "w" /\ b.dir[x] = 0
               q == mode = "w" /\ b.dir[x] # 0
               i == IF m THEN b.next ELSE b.dir[x]
    <3> HIDE DEF c, d, h
    <3>1. FreeSlot(b) \in 0..(MAXFILE - 1) /\ b.files[FreeSlot(b)] = NULL
      BY <1>4, <1>5, <1>6
    <3>2. /\ d.ret = FreeSlot(b) /\ d.files = Put(b.files, FreeSlot(b), Open(i, mode))
          /\ d.dir = (IF m THEN Put(b.dir, x, b.next) ELSE b.dir)
          /\ d.next = (IF m THEN b.next + 1 ELSE b.next)
          /\ d.log = (IF q THEN Put(b.log, b.dir[x], <<>>) ELSE b.log)
      BY <1>1, <2>1, <2>3, <3>1, OpenedEffect
    <3>3. m = makes /\ q = empties /\ i = j
      BY <1>7
    <3> HIDE DEF m, q, i, makes, empties, j
    <3>4. QED
      BY <1>4, <1>7, <3>2, <3>3
  <2> HIDE DEF c, d, h, makes, empties, j
  <2>6. LikeFile(Open(j, mode), Open(j, mode))
    BY DEF LikeFile
  <2>7. c.dir = d.dir /\ c.next = d.next /\ c.log = d.log /\ c.ret = d.ret
    BY <2>4, <2>5
  <2>8. c.files = Put(a.files, h, Open(j, mode)) /\ d.files = Put(b.files, h, Open(j, mode))
    BY <2>4, <2>5
  <2>9. Alike(c, d)
    BY <1>6, <2>6, <2>7, <2>8, PutAlike
  <2>10. QED
    BY <2>7, <2>9 DEF c, d
<1>10. QED
  BY <1>8, <1>9

-----------------------------------------------------------------------------
(* The invariant                                                           *)

HInv ==
  /\ Both(pso, xemu) /\ written \in Nat /\ full \in BOOLEAN
  /\ ~ full /\ Running => Alike(pso, xemu)

\* What a call that both define alike does to both.
Together ==
  ~ full' /\ Running' => pso'.ret = xemu'.ret

LEMMA NewSound ==
  ASSUME NEW n \in Nat
  PROVE  /\ New(n) \in Emulator(n) /\ Sound(New(n))
         /\ New(n).dir = [f \in Names |-> 0] /\ New(n).next = 1
         /\ New(n).log = [i \in Inode |-> <<>>]
         /\ \A h \in 0..(n - 1) : New(n).files[h] = NULL
<1> DEFINE F == [h \in 0..(n - 1) |-> NULL]
           D == [f \in Names |-> 0]
           none == <<>>
           L == [i \in Inode |-> none]
           s == "running"
           e == New(n)
<1>1. e = [files |-> F, dir |-> D, data |-> L, next |-> 1, status |-> s, ret |-> 0, log |-> L]
  BY DEF New, Inode
<1>2. none \in Seq(Nat) /\ s \in Status /\ s \notin {"exit", "shutdown"}
  BY DEF Status
<1>3. F \in [0..(n - 1) -> File] /\ D \in [Names -> Nat]
      /\ (\A h \in 0..(n - 1) : F[h] = NULL) /\ (\A f \in Names : D[f] = 0)
  BY NullFile
<1> HIDE DEF none
<1>4. L \in [Inode -> Seq(Nat)]
  BY <1>2
<1> HIDE DEF F, D, L, s, e
<1>5. /\ e \in Emulator(n) /\ e.files = F /\ e.dir = D /\ e.data = L /\ e.log = L
      /\ e.next = 1 /\ e.status = s
  BY <1>1, <1>2, <1>3, <1>4 DEF Emulator
<1>6. DOMAIN e.files = 0..(n - 1)
  BY <1>5, Fields
<1>7. \A h \in 0..(n - 1) : e.files[h] = NULL /\ e.files[h].mode # "w"
  BY <1>3, <1>5, NullFile
<1>8. \A h \in DOMAIN e.files : SlotOK(e, h) /\ Kept(e, h)
  BY <1>6, <1>7 DEF SlotOK, Kept
<1>9. Alone(e)
  BY <1>6, <1>7 DEF Alone
<1>10. e.next \in 1..(MAXINODE + 1) /\ \A f \in Names : e.dir[f] \in 0..(e.next - 1)
  <2>1. e.next \in 1..(MAXINODE + 1) /\ 0 \in 0..(e.next - 1)
    BY <1>5, BoundsAssumption
  <2>2. QED
    BY <1>3, <1>5, <2>1
<1>11. e.data = e.log
  BY <1>5
<1>12. Sound(e)
  BY <1>8, <1>9, <1>10, <1>11 DEF Sound
<1>13. QED
  BY <1>5, <1>7, <1>12 DEF D, L, none, e

LEMMA InitHInv == Init => HInv
<1> SUFFICES ASSUME Init PROVE HInv
  OBVIOUS
<1>1. /\ pso \in Emulator(FILEMAX) /\ Sound(pso) /\ pso.dir = [f \in Names |-> 0]
      /\ pso.next = 1 /\ pso.log = [i \in Inode |-> <<>>]
      /\ \A h \in 0..(FILEMAX - 1) : pso.files[h] = NULL
  BY Slots, NewSound DEF Init
<1>2. /\ xemu \in Emulator(MAXFILE) /\ Sound(xemu) /\ xemu.dir = [f \in Names |-> 0]
      /\ xemu.next = 1 /\ xemu.log = [i \in Inode |-> <<>>]
      /\ \A h \in 0..(MAXFILE - 1) : xemu.files[h] = NULL
  BY Slots, NewSound DEF Init
<1>3. Alike(pso, xemu)
  <2>1. pso.dir = xemu.dir /\ pso.next = xemu.next /\ pso.log = xemu.log
    BY <1>1, <1>2
  <2>2. \A h \in 0..(FILEMAX - 1) : LikeFile(pso.files[h], xemu.files[h])
    BY <1>1, <1>2, Slots DEF LikeFile
  <2>3. \A h \in FILEMAX..(MAXFILE - 1) : xemu.files[h] = NULL
    <3>1. \A h \in FILEMAX..(MAXFILE - 1) : h \in 0..(MAXFILE - 1)
      BY SlotsAssumption
    <3>2. QED
      BY <1>2, <3>1
  <2>4. QED
    BY <2>1, <2>2, <2>3 DEF Alike
<1>4. Both(pso, xemu)
  BY <1>1, <1>2 DEF Both
<1>5. written \in Nat /\ full \in BOOLEAN
  BY DEF Init
<1>6. QED
  BY <1>3, <1>4, <1>5 DEF HInv

\* A step of the calls that leave written and full alone.
LEMMA CallStep ==
  ASSUME HInv, Running, Both(pso', xemu'), Alikes(pso, xemu, pso', xemu'),
         written' \in Nat, full' = full
  PROVE  HInv'
<1>1. ~ full' /\ Running' => Alike(pso', xemu')
  BY DEF HInv, Running, Alikes
<1>2. full' \in BOOLEAN
  BY DEF HInv
<1>3. QED
  BY <1>1, <1>2 DEF HInv, Both, Alike, Running, Sound, SlotOK, Kept, Alone, Unwritten, LikeFile

LEMMA CallAgree ==
  ASSUME HInv, Running, Agree(pso, xemu, pso', xemu'), full' = full
  PROVE  Together
  BY DEF HInv, Running, Agree, Together

LEMMA HandleInt == \A h \in HandleArgs : h \in Int
  BY SlotsAssumption DEF HandleArgs

LEMMA FopenStep ==
  ASSUME HInv, NEW x \in Names, NEW mode \in {"r", "w"}, fopen(x, mode)
  PROVE  HInv' /\ Together
<1>1. Both(pso, xemu) /\ pso.status = "running" /\ xemu.status = "running"
      /\ full = FALSE /\ Alike(pso, xemu) /\ Running /\ written \in Nat
  BY DEF HInv, fopen, Running
<1>2. /\ Unshared(pso, x, mode) /\ Unshared(xemu, x, mode)
      /\ mode = "w" /\ pso.dir[x] = 0 => pso.next <= MAXINODE
      /\ mode = "w" /\ xemu.dir[x] = 0 => xemu.next <= MAXINODE
  BY DEF fopen
<1>3. pso' = PcbFopen(pso, x, mode) /\ xemu' = XemuFopen(xemu, x, mode)
      /\ full' = (FreeSlot(pso) >= FILEMAX) /\ written' = written
  BY <1>1 DEF fopen
<1>4. Both(PcbFopen(pso, x, mode), XemuFopen(xemu, x, mode))
  BY <1>1, <1>2, OpenSides
<1>5. Both(pso', xemu')
  BY <1>3, <1>4
<1>6. ASSUME ~ full'
      PROVE  Alike(pso', xemu') /\ pso'.ret = xemu'.ret
  <2>1. ~ (FreeSlot(pso) >= FILEMAX)
    BY <1>3, <1>6
  <2>2. /\ Alike(PcbFopen(pso, x, mode), XemuFopen(xemu, x, mode))
        /\ PcbFopen(pso, x, mode).ret = XemuFopen(xemu, x, mode).ret
    BY <1>1, <1>2, <2>1, OpenPair
  <2>3. QED
    BY <1>3, <2>2
<1>7. full' \in BOOLEAN
  BY <1>3
<1>8. HInv'
  BY <1>1, <1>3, <1>5, <1>6, <1>7 DEF HInv, Both, Alike, Running, Sound, SlotOK,
     Kept, Alone, Unwritten, LikeFile
<1>9. QED
  BY <1>6, <1>8 DEF Together

LEMMA HandleStep ==
  ASSUME HInv, NEW h \in HandleArgs,
         fwrite(h, 1) \/ fread(h, 1) \/ ftell(h) \/ fclose(h)
  PROVE  HInv' /\ Together
<1>1. Both(pso, xemu) /\ pso.status = "running" /\ xemu.status = "running"
      /\ Running /\ written \in Nat /\ h \in Int
  BY HandleInt DEF HInv, Running, fwrite, fread, ftell, fclose
<1>2. ASSUME Both(pso', xemu') /\ Alikes(pso, xemu, pso', xemu')
             /\ Agree(pso, xemu, pso', xemu'), written' \in Nat, full' = full
      PROVE  HInv' /\ Together
  BY <1>1, <1>2, CallStep, CallAgree
<1>3. CASE fwrite(h, 1)
  <2>1. PICK early \in BOOLEAN : pso' = PcbFwrite(pso, h, 1, written + 1, early)
    BY <1>3 DEF fwrite
  <2>2. /\ xemu' = XemuFwrite(xemu, h, 1, written + 1) /\ written' \in Nat /\ full' = full
        /\ written + 1 \in Nat
    BY <1>1, <1>3 DEF fwrite
  <2>3. Both(pso', xemu') /\ Alikes(pso, xemu, pso', xemu')
        /\ Agree(pso, xemu, pso', xemu')
    BY <1>1, <2>1, <2>2, WritePair
  <2>4. QED
    BY <1>2, <2>2, <2>3
<1>4. CASE fread(h, 1)
  <2>1. pso' = PcbFread(pso, h, 1) /\ xemu' = XemuFread(xemu, h, 1)
        /\ written' \in Nat /\ full' = full
    BY <1>1, <1>4 DEF fread
  <2>2. Both(pso', xemu') /\ Alikes(pso, xemu, pso', xemu')
        /\ Agree(pso, xemu, pso', xemu')
    BY <1>1, <2>1, ReadPair
  <2>3. QED
    BY <1>2, <2>1, <2>2
<1>5. CASE ftell(h)
  <2>1. pso' = Ftell(pso, h) /\ xemu' = Ftell(xemu, h)
        /\ written' \in Nat /\ full' = full
    BY <1>1, <1>5 DEF ftell
  <2>2. Both(pso', xemu') /\ Alikes(pso, xemu, pso', xemu')
        /\ Agree(pso, xemu, pso', xemu')
    BY <1>1, <2>1, TellPair
  <2>3. QED
    BY <1>2, <2>1, <2>2
<1>6. CASE fclose(h)
  <2>1. pso' = PcbFclose(pso, h) /\ xemu' = XemuFclose(xemu, h)
        /\ written' \in Nat /\ full' = full
    BY <1>1, <1>6 DEF fclose
  <2>2. Both(pso', xemu') /\ Alikes(pso, xemu, pso', xemu')
        /\ Agree(pso, xemu, pso', xemu')
    BY <1>1, <2>1, ClosePair
  <2>3. QED
    BY <1>2, <2>1, <2>2
<1>7. QED
  BY <1>3, <1>4, <1>5, <1>6

LEMMA EmptyStep ==
  ASSUME HInv, NEW h \in HandleArgs, fwrite(h, 0) \/ fread(h, 0)
  PROVE  HInv'
<1>1. Both(pso, xemu) /\ Running /\ written \in Nat /\ h \in Int
  BY HandleInt DEF HInv, fwrite, fread
<1>2. /\ pso' = Answer(pso, -1) /\ xemu' = Answer(xemu, IF Valid(xemu, h) THEN 0 ELSE -1)
      /\ written' \in Nat /\ full' = full
  <2>1. CASE fwrite(h, 0)
    BY <1>1, <2>1 DEF fwrite, PcbFwrite, XemuFwrite
  <2>2. CASE fread(h, 0)
    BY <1>1, <2>2 DEF fread, PcbFread, XemuFread
  <2>3. QED
    BY <2>1, <2>2
<1>3. Both(pso', xemu') /\ Alikes(pso, xemu, pso', xemu')
  BY <1>1, <1>2, EmptyPair
<1>4. QED
  BY <1>1, <1>2, <1>3, CallStep

LEMMA SeekStep ==
  ASSUME HInv, NEW h \in HandleArgs, NEW p \in 0..(MAXWRITE - 1), fseek(h, p)
  PROVE  HInv'
<1>1. Both(pso, xemu) /\ pso.status = "running" /\ xemu.status = "running"
      /\ Running /\ written \in Nat /\ h \in Int /\ p \in Nat
  BY HandleInt DEF HInv, Running, fseek
<1>2. pso' = PcbFseek(pso, h, p) /\ xemu' = XemuFseek(xemu, h, p)
      /\ written' \in Nat /\ full' = full
  BY <1>1 DEF fseek
<1>3. Both(pso', xemu') /\ Alikes(pso, xemu, pso', xemu')
  BY <1>1, <1>2, SeekPair
<1>4. QED
  BY <1>1, <1>2, <1>3, CallStep

LEMMA NameStep ==
  ASSUME HInv, NEW x \in Names, NEW y \in Names, unlink(x) \/ rename(x, y)
  PROVE  HInv' /\ Together
<1>1. Both(pso, xemu) /\ Running /\ written \in Nat
  BY DEF HInv, unlink, rename
<1>2. /\ written' \in Nat /\ full' = full
      /\ Both(pso', xemu') /\ Alikes(pso, xemu, pso', xemu')
      /\ Agree(pso, xemu, pso', xemu')
  <2>1. CASE unlink(x)
    <3>1. pso' = Unlink(pso, x) /\ xemu' = Unlink(xemu, x)
          /\ written' = written /\ full' = full
      BY <2>1 DEF unlink
    <3>2. QED
      BY <1>1, <3>1, UnlinkPair
  <2>2. CASE rename(x, y)
    <3>1. pso' = Rename(pso, x, y) /\ xemu' = Rename(xemu, x, y)
          /\ written' = written /\ full' = full
      BY <2>2 DEF rename
    <3>2. QED
      BY <1>1, <3>1, RenamePair
  <2>3. QED
    BY <2>1, <2>2
<1>3. QED
  BY <1>1, <1>2, CallStep, CallAgree

LEMMA EndStep ==
  ASSUME HInv, exit \/ Trap
  PROVE  HInv' /\ Together
<1>1. /\ pso \in Emulator(FILEMAX) /\ FILEMAX \in Nat /\ Sound(pso)
      /\ xemu \in Emulator(MAXFILE) /\ MAXFILE \in Nat /\ Sound(xemu)
      /\ written \in Nat /\ Running
  BY Slots DEF HInv, Both, exit, Trap
<1>2. written' = written /\ full' = full
  BY DEF exit, Trap
<1>3. pso' \in Emulator(FILEMAX) /\ Sound(pso') /\ pso'.status # "running"
  <2>1. CASE exit
    <3>1. pso' = PcbExit(pso)
      BY <2>1 DEF exit
    <3>2. QED
      BY <1>1, <3>1, PcbExitEffect
  <2>2. CASE Trap
    <3> DEFINE s == "event"
    <3>1. pso' = [pso EXCEPT !.status = s] /\ s \in {"aborted", "event"} /\ s # "running"
      BY <2>2 DEF Trap
    <3> HIDE DEF s
    <3>2. QED
      BY <1>1, <3>1, AbortEffect
  <2>3. QED
    BY <2>1, <2>2
<1>4. xemu' \in Emulator(MAXFILE) /\ Sound(xemu')
  <2>1. PICK s \in {"exit", "shutdown"} : xemu' = [FlushAll(xemu) EXCEPT !.status = s]
    BY DEF exit, Trap, XemuExit
  <2>2. QED
    BY <1>1, <2>1, ShutdownEffect
<1>5. Both(pso', xemu')
  BY <1>3, <1>4 DEF Both
<1>6. ~ Running'
  BY <1>3 DEF Running
<1>7. Alikes(pso, xemu, pso', xemu')
  BY <1>3 DEF Alikes
<1>8. HInv'
  BY <1>1, <1>2, <1>5, <1>7, CallStep
<1>9. QED
  BY <1>6, <1>8 DEF Together

LEMMA NextHInv ==
  ASSUME HInv, [Next]_vars
  PROVE  HInv'
<1>1. CASE UNCHANGED vars
  BY <1>1 DEF vars, HInv, Running
<1>2. CASE Next
  BY <1>2, FopenStep, HandleStep, EmptyStep, SeekStep, NameStep, EndStep DEF Next, Call, OddCall
<1>3. QED
  BY <1>1, <1>2

\* What a program wrote to a file is on the disk once no handle has the file,
\* and all of it once the emulator has ended by exit() or, for xemu, by
\* shutdown(): fclose, PCB::exit and the host's exit() write every buffer back.
THEOREM Durable == Spec => []NothingLost
<1>1. ASSUME NEW n \in Nat, NEW e \in Emulator(n), Sound(e), NEW i \in 1..MAXINODE,
             e.status \in {"exit", "shutdown"}
             \/ ~ \E h \in DOMAIN e.files : e.files[h].ino = i
      PROVE  e.data[i] = e.log[i]
  <2>1. CASE e.status \in {"exit", "shutdown"}
    BY <1>1, <2>1 DEF Sound
  <2>2. CASE ~ \E h \in DOMAIN e.files : e.files[h].ino = i
    <3>1. Unwritten(e, i)
      BY <2>2 DEF Unwritten
    <3>2. i \in Inode
      BY DEF Inode
    <3>3. QED
      BY <1>1, <3>1, <3>2 DEF Sound
  <2>3. QED
    BY <1>1, <2>1, <2>2
<1>2. HInv => NothingLost
  <2> SUFFICES ASSUME HInv PROVE NothingLost
    OBVIOUS
  <2>1. /\ pso \in Emulator(FILEMAX) /\ FILEMAX \in Nat /\ Sound(pso)
        /\ xemu \in Emulator(MAXFILE) /\ MAXFILE \in Nat /\ Sound(xemu)
    BY Slots DEF HInv, Both
  <2>2. QED
    BY <1>1, <2>1 DEF NothingLost
<1>3. QED
  BY <1>2, InitHInv, NextHInv, PTL DEF Spec

\* Until pso has refused to open a file, both emulators show a program the
\* same files with the same contents, under the same handles and at the same
\* positions, and every slot of xemu beyond those of pso is free, whenever
\* XFILE and the host write their buffers back.
THEOREM FilesAgree == Spec => []SameFiles
<1>1. HInv => SameFiles
  <2> SUFFICES ASSUME HInv, ~ full, Running
               PROVE  /\ pso.dir = xemu.dir
                      /\ \A i \in 1..MAXINODE : Contents(pso, i) = Contents(xemu, i)
                      /\ \A h \in DOMAIN xemu.files :
                           LET a == IF h \in DOMAIN pso.files THEN pso.files[h] ELSE NULL
                               b == xemu.files[h]
                           IN  a.ino = b.ino /\ a.mode = b.mode /\ a.pos = b.pos
    BY DEF SameFiles
  <2>1. Alike(pso, xemu) /\ Both(pso, xemu)
    BY DEF HInv
  <2>2. DOMAIN pso.files = 0..(FILEMAX - 1) /\ DOMAIN xemu.files = 0..(MAXFILE - 1)
    BY <2>1, Slots, Fields DEF Both
  <2>3. ASSUME NEW h \in 0..(MAXFILE - 1)
        PROVE  LikeFile(IF h \in DOMAIN pso.files THEN pso.files[h] ELSE NULL, xemu.files[h])
    <3>1. CASE h \in 0..(FILEMAX - 1)
      BY <2>1, <2>2, <3>1 DEF Alike
    <3>2. CASE h \notin 0..(FILEMAX - 1)
      <4>1. xemu.files[h] = NULL
        BY <2>1, <3>2, Slots DEF Alike
      <4>2. QED
        BY <2>2, <3>2, <4>1 DEF LikeFile
    <3>3. QED
      BY <3>1, <3>2
  <2>4. pso.dir = xemu.dir /\ pso.log = xemu.log
    BY <2>1 DEF Alike
  <2>5. ASSUME NEW i \in 1..MAXINODE
        PROVE  Contents(pso, i) = Contents(xemu, i)
    <3>1. i \in Inode
      BY DEF Inode
    <3>2. Contents(pso, i) = pso.log[i]
      BY <2>1, <3>1, Slots, AllWritten DEF Both
    <3>3. Contents(xemu, i) = xemu.log[i]
      BY <2>1, <3>1, Slots, AllWritten DEF Both
    <3>4. QED
      BY <2>4, <3>2, <3>3
  <2>6. QED
    BY <2>2, <2>3, <2>4, <2>5 DEF LikeFile
<1>2. QED
  BY <1>1, InitHInv, NextHInv, PTL DEF Spec

\* Until then they also answer alike to every call but fseek and the reading
\* and writing of items of no size, where XFILE and the host's FILE differ.
THEOREM AnswersAgree == Spec => SameReturns
<1> DEFINE A == ~ full' /\ Running' /\ Call => pso'.ret = xemu'.ret
<1>1. HInv /\ [Next]_vars => [A]_vars
  <2> SUFFICES ASSUME HInv, Call PROVE Together
    BY DEF Together
  <2>1. QED
    BY FopenStep, HandleStep, NameStep DEF Call
<1>2. QED
  BY <1>1, InitHInv, NextHInv, PTL DEF Spec, SameReturns

=============================================================================
