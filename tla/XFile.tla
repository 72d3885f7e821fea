------------------------------- MODULE XFile -------------------------------
(***************************************************************************)
(* XFILE, the buffered files of the pso emulator: a window of BUFMAX bytes *)
(* on a file of the host.  fread and fwrite are loops that move one byte   *)
(* at a time; an action is one pass through the loop.  fseek takes the     *)
(* offset as supervisor() hands it over, a word with a sign.               *)
(*                                                                         *)
(* The host's file (open, read, write, lseek) is disk and ospos.           *)
(*                                                                         *)
(* Operators whose names start with Bug are slips the code could have had; *)
(* no specification uses them.  They show that a property notices.         *)
(***************************************************************************)
EXTENDS Words, Sequences

CONSTANTS
  BUFMAX,     \* size of the window
  Bytes,      \* the bytes that programs write
  ZERO,       \* the zero byte
  JUNK,       \* what uninitialised memory holds
  EOF, NONE,
  MAXLEN,     \* bound: programs write no position at or beyond it
  SeekOK(_, _, _, _)  \* which seeks programs do: mode, whence, length, to

ASSUME WindowAssumption == BUFMAX \in Nat \ {0} /\ MAXLEN \in Nat

\* Neither mark is a byte, and no position is NONE.
ASSUME MarksAssumption ==
  NONE \notin Int /\ EOF # NONE /\ {EOF, NONE} \cap (Bytes \cup {ZERO, JUNK}) = {}

VARIABLES
  x,          \* the object, with the host's file
  target,     \* the position an fseek is looking for, or NONE
  ret         \* the byte the last fread gave and where: [at, got]

vars == <<x, target, ret>>

Quiet == [at |-> 0, got |-> NONE]

\* The first BUFMAX bytes of a window hold whatever was there before.
Init ==
  /\ x = [mode |-> "closed", buf |-> [k \in 0..(BUFMAX - 1) |-> JUNK],
          bufpos |-> 0, filpos |-> 0, buflen |-> 0, bufofs |-> 0,
          dirty |-> FALSE, disk |-> <<>>, ospos |-> 0]
  /\ target = NONE
  /\ ret = Quiet

-----------------------------------------------------------------------------
(* The host                                                                *)

Larger(a, b) == IF a > b THEN a ELSE b
Smaller(a, b) == IF a < b THEN a ELSE b

\* write(): n bytes of buf at offset p of d; a hole reads as zeros.
OsWrite(d, p, buf, n) ==
  IF n = 0 THEN d ELSE
  [k \in 1..Larger(Len(d), p + n) |->
     IF k - 1 \in p..(p + n - 1) THEN buf[k - 1 - p]
     ELSE IF k <= Len(d) THEN d[k] ELSE ZERO]

\* lseek(): fails for a negative position, and then moves nothing.
OsSeek(y, p) == IF p < 0 THEN y.ospos ELSE p

-----------------------------------------------------------------------------
(* The window                                                              *)

fflush(y) ==
  LET p == IF y.bufpos # y.filpos THEN OsSeek(y, y.bufpos) ELSE y.ospos
  IN  [y EXCEPT !.disk = OsWrite(y.disk, p, y.buf, y.buflen),
                !.ospos = p + y.buflen,
                !.filpos = y.bufpos + y.buflen,
                !.dirty = FALSE]

BugLoadKeepsFilpos(y) ==
  LET p == IF y.bufpos # y.filpos THEN OsSeek(y, y.bufpos) ELSE y.ospos
      n == Smaller(BUFMAX, Larger(0, Len(y.disk) - p))
  IN  [y EXCEPT !.buf = [k \in DOMAIN @ |-> IF k < n THEN y.disk[p + k + 1]
                                            ELSE @[k]],
                !.buflen = n,
                !.ospos = p + n]

fload(y) ==
  LET p == IF y.bufpos # y.filpos THEN OsSeek(y, y.bufpos) ELSE y.ospos
      n == Smaller(BUFMAX, Larger(0, Len(y.disk) - p))
  IN  [y EXCEPT !.buf = [k \in DOMAIN @ |-> IF k < n THEN y.disk[p + k + 1]
                                            ELSE @[k]],
                !.buflen = n,
                !.ospos = p + n,
                !.filpos = y.bufpos + n]

Flushed(y) == IF y.dirty THEN fflush(y) ELSE y

-----------------------------------------------------------------------------
(* The calls                                                               *)

Idle == target = NONE
Tell == x.bufpos + x.bufofs

\* new XFILE: the buffer is not initialised.
fopen(mode) ==
  /\ Idle /\ x.mode = "closed"
  /\ LET y == [x EXCEPT !.mode = mode, !.buf = [k \in DOMAIN @ |-> JUNK],
                        !.bufpos = 0, !.filpos = 0, !.buflen = 0, !.bufofs = 0,
                        !.dirty = FALSE, !.ospos = 0]
     IN  x' = IF mode = "R" THEN fload(y) ELSE [y EXCEPT !.disk = <<>>]
  /\ ret' = Quiet
  /\ UNCHANGED target

BugSameWindow ==
  /\ Idle /\ x.mode = "R"
  /\ LET f == Flushed(x)
         y == IF x.bufofs >= x.buflen
                THEN fload([f EXCEPT !.bufofs = 0])
                ELSE x
     IN  IF y.buflen = 0
           THEN /\ x' = y
                /\ ret' = [at |-> Tell, got |-> EOF]
           ELSE /\ x' = [y EXCEPT !.bufofs = @ + 1]
                /\ ret' = [at |-> Tell, got |-> y.buf[y.bufofs]]
  /\ UNCHANGED target

fread ==
  /\ Idle /\ x.mode = "R"
  /\ LET f == Flushed(x)
         y == IF x.bufofs >= x.buflen
                THEN fload([f EXCEPT !.bufpos = @ + f.buflen, !.bufofs = 0])
                ELSE x
     IN  IF y.buflen = 0
           THEN /\ x' = y
                /\ ret' = [at |-> Tell, got |-> EOF]
           ELSE /\ x' = [y EXCEPT !.bufofs = @ + 1]
                /\ ret' = [at |-> Tell, got |-> y.buf[y.bufofs]]
  /\ UNCHANGED target

BugAdvanceUnflushed(b) ==
  /\ Idle /\ x.mode = "W" /\ Tell < MAXLEN
  /\ LET y == IF x.bufofs >= BUFMAX
                THEN [x EXCEPT !.bufpos = @ + BUFMAX, !.bufofs = 0, !.buflen = 0]
                ELSE x
     IN  x' = [y EXCEPT !.dirty = TRUE, !.buf[y.bufofs] = b, !.bufofs = @ + 1,
                        !.buflen = Larger(@, y.bufofs + 1)]
  /\ ret' = Quiet
  /\ UNCHANGED target

\* The window is not loaded when it advances: no file has mode 'U'.
fwrite(b) ==
  /\ Idle /\ x.mode = "W" /\ Tell < MAXLEN
  /\ LET f == Flushed([x EXCEPT !.buflen = BUFMAX])
         y == IF x.bufofs >= BUFMAX
                THEN [f EXCEPT !.bufpos = @ + BUFMAX, !.bufofs = 0, !.buflen = 0]
                ELSE x
     IN  x' = [y EXCEPT !.dirty = TRUE, !.buf[y.bufofs] = b, !.bufofs = @ + 1,
                        !.buflen = Larger(@, y.bufofs + 1)]
  /\ ret' = Quiet
  /\ UNCHANGED target

\* case 44 of supervisor(): "sign extend"
SeekPos(ofs, whence) ==
  IF whence = "SEEK_CUR" THEN Tell + Signed(ofs) ELSE Signed(ofs)

InWindow(pos) == pos - x.bufpos >= 0 /\ pos - x.bufpos < BUFMAX

\* "test if positioned within current block"
fseekInWindow(ofs, whence) ==
  /\ Idle /\ x.mode # "closed" /\ SeekOK(x.mode, whence, Len(x.disk), SeekPos(ofs, whence))
  /\ LET o == SeekPos(ofs, whence) - x.bufpos
     IN  /\ InWindow(SeekPos(ofs, whence))
         /\ x' = [x EXCEPT !.bufofs = o, !.buflen = Larger(@, o + 1)]
  /\ ret' = Quiet
  /\ UNCHANGED target

fseekOutside(ofs, whence) ==
  /\ Idle /\ x.mode # "closed" /\ SeekOK(x.mode, whence, Len(x.disk), SeekPos(ofs, whence))
  /\ ~ InWindow(SeekPos(ofs, whence))
  /\ x' = Flushed(x)
  /\ target' = SeekPos(ofs, whence)
  /\ ret' = Quiet

BugSeekResultLost ==
  /\ ~ Idle
  /\ IF x.filpos = target
       THEN /\ x' = fload([x EXCEPT !.bufpos = target, !.bufofs = 0,
                                    !.buflen = 0])
            /\ target' = NONE
       ELSE /\ x' = [x EXCEPT !.ospos = OsSeek(x, target), !.filpos = 0]
            /\ UNCHANGED target
  /\ UNCHANGED ret

\* while (filpos != pos): lseek() answers -1 for a negative position; then
\* the file is filled up to pos, which a negative position never needs, and
\* the loop is redone with filpos = 0.
SeekLoop ==
  /\ ~ Idle
  /\ LET pos == IF target < 0 THEN -1 ELSE target
         y == [x EXCEPT !.ospos = OsSeek(x, target), !.filpos = pos]
     IN  IF x.filpos = target \/ pos = target
           THEN /\ x' = fload([(IF x.filpos = target THEN x ELSE y)
                               EXCEPT !.bufpos = target, !.bufofs = 0,
                                      !.buflen = 0])
                /\ target' = NONE
           ELSE /\ x' = [x EXCEPT !.ospos = Len(x.disk), !.filpos = 0]
                /\ UNCHANGED target
  /\ UNCHANGED ret

fclose ==
  /\ Idle /\ x.mode # "closed"
  /\ x' = [Flushed(x) EXCEPT !.mode = "closed", !.bufpos = 0, !.bufofs = 0]
  /\ ret' = Quiet
  /\ UNCHANGED target

Call ==
  \/ \E m \in {"R", "W"} : fopen(m)
  \/ fread
  \/ \E b \in Bytes : fwrite(b)
  \/ \E ofs \in Word, whence \in {"SEEK_SET", "SEEK_CUR"} :
       fseekInWindow(ofs, whence) \/ fseekOutside(ofs, whence)
  \/ fclose

Next == Call \/ SeekLoop

Spec == Init /\ [][Next]_vars

\* A call that has begun runs on.
FairSpec == Spec /\ WF_vars(SeekLoop)

-----------------------------------------------------------------------------
(***************************************************************************)
(* Properties                                                              *)
(***************************************************************************)

\* What the file holds once the window is written back.
Contents ==
  IF x.dirty THEN OsWrite(x.disk, x.bufpos, x.buf, x.buflen) ELSE x.disk

F == INSTANCE File WITH
  contents <- Contents,
  pos <- IF x.mode = "closed" THEN 0 ELSE Tell,
  mode <- x.mode,
  ret <- ret.got

\* The buffered file is a file: through any sequence of calls the window, the
\* write-backs and the reloads are invisible.
IsFile == F!Spec

\* CHANGELOG.md:251, "Conform fopen/fread/fwrite/fseek": on a file open for
\* writing, no call changes a byte but an fwrite at that byte.
KeepsBytes ==
  [][x.mode = "W" /\ x'.mode = "W" =>
       \A k \in DOMAIN Contents :
         (k = Tell + 1 /\ Tell' = Tell + 1) \/ Contents'[k] = Contents[k]]_vars

\* XFILE skips the lseek when bufpos equals filpos; that is right only if
\* filpos is where the host's file really is.
FilposExact == x.mode # "closed" /\ Idle => x.filpos = x.ospos

\* A byte fread delivers is the byte of the file at the position; behind the
\* last byte it reports the end.
ReadsFile ==
  ret.got # NONE => ret.got = IF ret.at < Len(x.disk) THEN x.disk[ret.at + 1]
                              ELSE EOF

\* Every fseek returns.
SeekReturns == (target # NONE) ~> (target = NONE)

=============================================================================
