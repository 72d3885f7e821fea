------------------------------ MODULE Handles ------------------------------
(***************************************************************************)
(* The files of an emulated program: PCB and the file calls of supervisor()*)
(* in pso, handles[] and do_svc() in xemu.  Both emulators serve the same  *)
(* program, each with a disk of its own, one call at a time.               *)
(*                                                                         *)
(* A file is opened for reading or for writing.  What is written waits in  *)
(* a buffer (XFILE's window, the host's FILE) that reaches the disk when   *)
(* it is full, at a time of its own, or when the file is closed.  XFile is *)
(* the module about that window; here a record is the unit of data and the *)
(* n-th fwrite of a program writes the record n.  A call moves one item,   *)
(* whose size siz is that of a record, 1, or 0.                            *)
(*                                                                         *)
(* Operators whose names start with Bug are slips the code could have had; *)
(* no specification uses them.  They show that a property notices.         *)
(***************************************************************************)
EXTENDS Integers, Sequences, FiniteSetsExt

CONSTANTS
  FIRST,       \* the first slot that fopen looks at
  FILEMAX,     \* slots of pso
  MAXFILE,     \* slots of xemu
  Names,       \* names of files
  MAXINODE,    \* bound: files a program creates
  MAXWRITE     \* bound: records a program writes

ASSUME BoundsAssumption == MAXINODE \in Nat /\ MAXWRITE \in Nat
ASSUME SlotsAssumption ==
  FIRST \in Nat /\ FILEMAX \in Nat /\ MAXFILE \in Nat
  /\ FIRST < FILEMAX /\ FILEMAX < MAXFILE

VARIABLES
  pso, xemu,   \* [files, dir, data, next, status, ret, log]
  written,     \* records the program has written
  full         \* pso has refused to open a file

vars == <<pso, xemu, written, full>>

NULL == [ino |-> 0, mode |-> "", pos |-> 0, pend |-> <<>>]
Open(ino, mode) == [NULL EXCEPT !.ino = ino, !.mode = mode]

\* An emulator with n slots, of which 0..2 are the standard ones, and a disk:
\* names of inodes, inodes' data.  log is auxiliary, what was written to each.
New(n) ==
  [files |-> [h \in 0..(n - 1) |-> NULL],
   dir |-> [f \in Names |-> 0], data |-> [i \in 1..MAXINODE |-> <<>>],
   next |-> 1, status |-> "running", ret |-> 0,
   log |-> [i \in 1..MAXINODE |-> <<>>]]

Init ==
  /\ pso = New(FILEMAX) /\ xemu = New(MAXFILE)
  /\ written = 0 /\ full = FALSE

-----------------------------------------------------------------------------
(* The host                                                                *)

\* open() and fopen(): "r" needs the file, "w" makes it or makes it empty.
HostOpens(e, f, mode) == mode = "w" \/ e.dir[f] # 0

HostFile(e, f, mode) ==
  IF mode = "r" THEN e
  ELSE IF e.dir[f] = 0 THEN [e EXCEPT !.dir[f] = e.next, !.next = @ + 1]
  ELSE [e EXCEPT !.data[e.dir[f]] = <<>>, !.log[e.dir[f]] = <<>>]

\* What waits in a buffer gets to the disk.
Flush(e, h) ==
  IF e.files[h].pend = <<>> THEN e
  ELSE [e EXCEPT !.data[e.files[h].ino] = @ \o e.files[h].pend,
                 !.files[h].pend = <<>>]

\* What waits for a file; no more than one handle writes to it (Unshared).
Writers(e, i) == {h \in DOMAIN e.files : e.files[h].ino = i
                                         /\ e.files[h].mode = "w"}
Pending(e, i) ==
  IF Writers(e, i) = {} THEN <<>>
  ELSE e.files[CHOOSE h \in Writers(e, i) : TRUE].pend

\* What a file holds, on the disk and in the buffer.
Contents(e, i) == e.data[i] \o Pending(e, i)

\* Every file: the host at the end of a program that used FILEs.
FlushAll(e) ==
  [e EXCEPT !.data = [i \in DOMAIN @ |-> Contents(e, i)],
            !.files = [h \in DOMAIN @ |-> [@[h] EXCEPT !.pend = <<>>]]]

-----------------------------------------------------------------------------
(* The calls.  Answer(e, r): R1 becomes r.                                 *)

Answer(e, r) == [e EXCEPT !.ret = r]
Valid(e, h) == h \in DOMAIN e.files /\ e.files[h] # NULL

BugLastSlot(e) ==
  Max({h \in FIRST..Max(DOMAIN e.files) : e.files[h] = NULL} \cup {FIRST})

\* The first free slot, or the number of slots.
FreeSlot(e) ==
  Min({h \in FIRST..Max(DOMAIN e.files) : e.files[h] = NULL}
      \cup {Max(DOMAIN e.files) + 1})

Opened(e, f, mode) ==
  LET h == FreeSlot(e)
      d == HostFile(e, f, mode)
  IN  Answer([d EXCEPT !.files[h] = Open(d.dir[f], mode)], h)

PcbFopen(e, f, mode) ==
  IF FreeSlot(e) >= FILEMAX THEN Answer(e, -1)
  ELSE IF ~ HostOpens(e, f, mode) THEN Answer(e, 0)
  ELSE Opened(e, f, mode)

XemuFopen(e, f, mode) ==
  IF FreeSlot(e) >= MAXFILE THEN [FlushAll(e) EXCEPT !.status = "shutdown"]
  ELSE IF ~ HostOpens(e, f, mode) THEN Answer(e, 0)
  ELSE Opened(e, f, mode)

Closed(e, h) == Answer([Flush(e, h) EXCEPT !.files[h] = NULL], 0)

BugCloseAnything(e, h) ==
  Answer(IF Valid(e, h) THEN [Flush(e, h) EXCEPT !.files[h] = NULL] ELSE e, 0)

PcbFclose(e, h) == IF ~ Valid(e, h) THEN Answer(e, -1) ELSE Closed(e, h)

XemuFclose(e, h) == IF ~ Valid(e, h) THEN Answer(e, -1) ELSE Closed(e, h)

\* A record into the buffer; early says that the buffer is then flushed.  (The
\* host writes out xemu's buffers at any end of the emulator, so it makes no
\* difference when it did so before.)
Wrote(e, h, rec, early) ==
  LET w == [e EXCEPT !.files[h].pend = Append(@, rec),
                     !.log[e.files[h].ino] = Append(@, rec)]
  IN  Answer(IF early THEN Flush(w, h) ELSE w, 1)

\* XFILE refuses items of no size, and ends the emulator when the file is open
\* the other way; host FILEs just write nothing.
PcbFwrite(e, h, siz, rec, early) ==
  IF ~ Valid(e, h) \/ siz = 0 THEN Answer(e, -1)
  ELSE IF e.files[h].mode = "r" THEN [e EXCEPT !.status = "aborted"]
  ELSE Wrote(e, h, rec, early)

XemuFwrite(e, h, siz, rec) ==
  IF ~ Valid(e, h) THEN Answer(e, -1)
  ELSE IF siz = 0 \/ e.files[h].mode = "r" THEN Answer(e, 0)
  ELSE Wrote(e, h, rec, FALSE)

\* The next record, or 0 at the end of the file.
Read(e, h) ==
  LET p == e.files[h].pos
      d == e.data[e.files[h].ino]
  IN  IF p >= Len(d) THEN Answer(e, 0)
      ELSE Answer([e EXCEPT !.files[h].pos = @ + 1], d[p + 1])

PcbFread(e, h, siz) ==
  IF ~ Valid(e, h) \/ siz = 0 THEN Answer(e, -1)
  ELSE IF e.files[h].mode = "w" THEN [e EXCEPT !.status = "aborted"]
  ELSE Read(e, h)

XemuFread(e, h, siz) ==
  IF ~ Valid(e, h) THEN Answer(e, -1)
  ELSE IF siz = 0 \/ e.files[h].mode = "w" THEN Answer(e, 0)
  ELSE Read(e, h)

\* XFILE::fseek returns the position, the host's fseek zero.
PcbFseek(e, h, p) ==
  IF ~ Valid(e, h) THEN Answer(e, -1)
  ELSE Answer([e EXCEPT !.files[h].pos = p], p)

XemuFseek(e, h, p) ==
  IF ~ Valid(e, h) THEN Answer(e, -1)
  ELSE Answer([e EXCEPT !.files[h].pos = p], 0)

Ftell(e, h) == IF ~ Valid(e, h) THEN Answer(e, -1)
               ELSE Answer(e, e.files[h].pos + Len(e.log[e.files[h].ino])
                              * (IF e.files[h].mode = "w" THEN 1 ELSE 0))

\* An open file survives both.
Unlink(e, f) == IF e.dir[f] = 0 THEN Answer(e, -1)
                ELSE Answer([e EXCEPT !.dir[f] = 0], 0)
Rename(e, f, g) ==
  IF e.dir[f] = 0 THEN Answer(e, -1)
  ELSE Answer([e EXCEPT !.dir = [e.dir EXCEPT ![g] = e.dir[f],
                                              ![f] = IF f = g THEN e.dir[f] ELSE 0]], 0)

BugExitForgets(e) == [e EXCEPT !.status = "exit"]

\* PCB::exit closes every slot; xemu leaves that to the host's exit().
PcbExit(e) ==
  [FlushAll(e) EXCEPT !.files = [h \in DOMAIN @ |-> NULL], !.status = "exit"]

XemuExit(e) == [FlushAll(e) EXCEPT !.status = "exit"]

-----------------------------------------------------------------------------
(* What programs do                                                        *)

Running == pso.status = "running" /\ xemu.status = "running"

\* Handles a program may pass, right or wrong.
HandleArgs == {-1} \cup FIRST..FILEMAX

\* Programs do not open a file that they are writing, nor write one that is
\* open: what the buffers hold would show.
Users(e, f) == {h \in DOMAIN e.files : e.files[h] # NULL /\ e.dir[f] # 0
                                       /\ e.files[h].ino = e.dir[f]}
Unshared(e, f, mode) ==
  \A h \in Users(e, f) : mode = "r" /\ e.files[h].mode = "r"

\* Bound: no more files once pso has refused one.
fopen(f, mode) ==
  /\ Running /\ ~ full /\ Unshared(pso, f, mode) /\ Unshared(xemu, f, mode)
  /\ \A e \in {pso, xemu} : mode = "w" /\ e.dir[f] = 0 => e.next <= MAXINODE
  /\ pso' = PcbFopen(pso, f, mode)
  /\ xemu' = XemuFopen(xemu, f, mode)
  /\ full' = (full \/ FreeSlot(pso) >= FILEMAX)
  /\ UNCHANGED written

fwrite(h, siz) ==
  /\ Running /\ written < MAXWRITE
  /\ \E early \in BOOLEAN : pso' = PcbFwrite(pso, h, siz, written + 1, early)
  /\ xemu' = XemuFwrite(xemu, h, siz, written + 1)
  /\ written' = written + 1
  /\ UNCHANGED full

fread(h, siz) ==
  /\ Running
  /\ pso' = PcbFread(pso, h, siz) /\ xemu' = XemuFread(xemu, h, siz)
  /\ UNCHANGED <<written, full>>

\* Within what a file being read holds; XFile is about the rest.
fseek(h, p) ==
  /\ Running
  /\ Valid(pso, h) => pso.files[h].mode = "r" /\ p < Len(pso.data[pso.files[h].ino])
  /\ pso' = PcbFseek(pso, h, p) /\ xemu' = XemuFseek(xemu, h, p)
  /\ UNCHANGED <<written, full>>

ftell(h) ==
  /\ Running
  /\ pso' = Ftell(pso, h) /\ xemu' = Ftell(xemu, h)
  /\ UNCHANGED <<written, full>>

fclose(h) ==
  /\ Running
  /\ pso' = PcbFclose(pso, h) /\ xemu' = XemuFclose(xemu, h)
  /\ UNCHANGED <<written, full>>

unlink(f) ==
  /\ Running
  /\ pso' = Unlink(pso, f) /\ xemu' = Unlink(xemu, f)
  /\ UNCHANGED <<written, full>>

rename(f, g) ==
  /\ Running
  /\ pso' = Rename(pso, f, g) /\ xemu' = Rename(xemu, f, g)
  /\ UNCHANGED <<written, full>>

exit ==
  /\ Running
  /\ pso' = PcbExit(pso) /\ xemu' = XemuExit(xemu)
  /\ UNCHANGED <<written, full>>

\* An illegal instruction: event() calls the host's exit() at once; shutdown()
\* does too, but the host knows xemu's buffers.
Trap ==
  /\ Running
  /\ pso' = [pso EXCEPT !.status = "event"]
  /\ xemu' = [FlushAll(xemu) EXCEPT !.status = "shutdown"]
  /\ UNCHANGED <<written, full>>

\* The calls that both emulators define alike.
Call ==
  \/ \E f \in Names : unlink(f) \/ \E mode \in {"r", "w"} : fopen(f, mode)
  \/ \E f, g \in Names : rename(f, g)
  \/ \E h \in HandleArgs : fwrite(h, 1) \/ fread(h, 1) \/ ftell(h) \/ fclose(h)

\* Those to which they answer differently: a seek, and items of no size.
OddCall ==
  \E h \in HandleArgs :
    \/ fwrite(h, 0) \/ fread(h, 0)
    \/ \E p \in 0..(MAXWRITE - 1) : fseek(h, p)

Next == Call \/ OddCall \/ exit \/ Trap

Spec == Init /\ [][Next]_vars

-----------------------------------------------------------------------------
(***************************************************************************)
(* Properties                                                              *)
(***************************************************************************)

\* Until pso runs out of slots, the program sees the same files under the same
\* handles, at the same positions, in both emulators, and every file holds the
\* same, whatever of it still waits in one emulator and not in the other.
SameFiles ==
  ~ full /\ Running =>
    /\ pso.dir = xemu.dir
    /\ \A i \in 1..MAXINODE : Contents(pso, i) = Contents(xemu, i)
    /\ \A h \in DOMAIN xemu.files :
         LET a == IF h \in DOMAIN pso.files THEN pso.files[h] ELSE NULL
             b == xemu.files[h]
         IN  a.ino = b.ino /\ a.mode = b.mode /\ a.pos = b.pos

\* Until then every call but fseek, and fread and fwrite of items of no size
\* (file.cpp:106 and 142 answer -1, the host 0), also answers the same: which
\* handle an open gets, what a read delivers, that a closed or foreign handle
\* is refused.
SameReturns ==
  [][~ full' /\ Running' /\ Call => pso'.ret = xemu'.ret]_vars

\* What a program wrote to a file is on the disk once the file is closed, and
\* all of it is there after exit(), in the order written, whatever was renamed,
\* unlinked or left open; xemu keeps it even after an illegal instruction.
NothingLost ==
  \A e \in {pso, xemu} : \A i \in 1..MAXINODE :
    \/ e.status \in {"exit", "shutdown"}
    \/ ~ \E h \in DOMAIN e.files : e.files[h].ino = i
    => e.data[i] = e.log[i]

=============================================================================
