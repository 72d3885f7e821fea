------------------------------- MODULE Linker -------------------------------
(***************************************************************************)
(* xlnk, the linker.  Pass 1 reads every object on the command line and    *)
(* the library modules that define still undefined symbols, adding up      *)
(* segment sizes and collecting symbols; doreloc() places the segments;    *)
(* pass 2 reads the same modules again, evaluates their relocation code on *)
(* a stack and writes the image.                                           *)
(*                                                                         *)
(* An object file is a sequence of the commands that xasm emits (REL_xxx); *)
(* one action reads one command.  Symbols are looked up by name here: that *)
(* the hash table behind them is faithful is what NameTable shows.  What   *)
(* is left of that table is the order in which its slots are scanned.      *)
(*                                                                         *)
(* Operators whose names start with Bug are slips the code could have had; *)
(* no specification uses them.  They show that a property notices.         *)
(***************************************************************************)
EXTENDS Words, Sequences, FiniteSets

CONSTANTS
  FILEMAX,      \* size of the tables file1 and file2
  STACKMAX,     \* size of the relocation stack
  Symbols,      \* the names objects define and use
  Inputs,       \* what an invocation may be given, see InputOK
  Alu(_, _, _)  \* what REL_ADD .. REL_OR compute

ASSUME LimitsAssumption == FILEMAX \in Nat \ {0} /\ STACKMAX \in Nat \ {0}

SegOrder == <<"CODE", "DATA", "TEXT", "UDEF">>
Seg == {"CODE", "DATA", "TEXT", "UDEF"}
NONE == "none"
BPW == 2
PREFIX == 4           \* "Reserve space for JMP ___START"

\* Symbols that add_res() enters as ABS; their values are set by doreloc().
Absolute == {"___STACKLEN", "___CODEBASE", "___CODELEN", "___DATABASE",
             "___DATALEN", "___TEXTBASE", "___TEXTLEN", "___UDEFBASE",
             "___UDEFLEN"}
Named == Symbols \cup {"___START"} \cup Absolute

VARIABLES
  in,         \* the input: never changed
  pc,         \* where process() is
  file1,      \* objects and libraries of the command line
  i, j,       \* loop counters of process()
  found,
  file2,      \* the modules being linked
  name,       \* NTYPE, NMODULE and NVALUE of every symbol
  errflag,
  ip,         \* position in the object being read, a command number
  curseg,
  stack,
  out,        \* position in the image file
  image       \* the bytes written so far, by address

\* The locals of process() that a step of dopass1/dopass2 leaves alone.
loops == <<file1, i, j, found>>
pass2vars == <<stack, out, image>>
vars == <<in, pc, loops, file2, name, errflag, ip, curseg, pass2vars>>

-----------------------------------------------------------------------------
(* The inputs.                                                             *)

Defines(body, s) ==
  \E k \in DOMAIN body : body[k].op = "def" /\ body[k].sym = s

\* LBNLIB: the module the library's index gives for a symbol.
lbnlib(lib, s) ==
  IF \E m \in in.lib[lib] : Defines(in.obj[m], s)
    THEN CHOOSE m \in in.lib[lib] : Defines(in.obj[m], s)
    ELSE NONE

\* An object is what is read of its file, up to REL_END.
ObjectOK(b) ==
  /\ b \in Seq({b[k] : k \in DOMAIN b})
  /\ \A k \in DOMAIN b :
       /\ b[k].op \in {"def", "sym"} => b[k].sym \in Named
       /\ b[k].op = "def" => b[k].seg \in Seg /\ b[k].ofs \in Word
       /\ b[k].op = "org" => b[k].seg \in Seg /\ b[k].ofs \in Word
       /\ b[k].op = "dsb" => b[k].n \in Word
       /\ b[k].op = "data" => b[k].bytes \in Seq({b[k].bytes[n] : n \in DOMAIN b[k].bytes})
       /\ b[k].op = "end" => k = Len(b)

\* xar refuses a second definition of a symbol in one library; the scan
\* order lists every symbol that can be undefined.
InputOK(x) ==
  /\ \A o \in DOMAIN x.obj : ObjectOK(x.obj[o])
  /\ \A l \in DOMAIN x.lib : x.lib[l] \subseteq DOMAIN x.obj
  /\ x.order \in Seq(Named)
  /\ \A l \in DOMAIN x.lib, s \in Named :
       Cardinality({m \in x.lib[l] : Defines(x.obj[m], s)}) <= 1
  /\ {x.order[k] : k \in DOMAIN x.order} = Symbols \cup {"___START"}

ASSUME InputAssumption == \A x \in Inputs : InputOK(x)

-----------------------------------------------------------------------------
(* initialize(), startup(), open_file()                                    *)

Zero == [s \in Seg |-> 0]

initialize ==
  /\ pc = "startup"
  /\ file1 = <<>> /\ file2 = <<>>
  /\ i = 1 /\ j = 1 /\ found = FALSE
  /\ name = [s \in Named |->
       [type |-> IF s \in Absolute THEN "ABS"
                 ELSE IF s = "___START" THEN "UNDEF" ELSE NONE,
        module |-> 0, value |-> 0]]
  /\ errflag = FALSE
  /\ ip = 1 /\ curseg = "CODE" /\ stack = <<>>
  /\ out = 0 /\ image = <<>>

Init == in \in Inputs /\ initialize

\* One file argument; the other options are fields of the input.  An output
\* file is named, or there is an object: otherwise startup() ends in usage().
startup ==
  /\ pc = "startup" /\ i <= Len(in.args)
  /\ IF Len(file1) >= FILEMAX
       THEN pc' = "toomany" /\ UNCHANGED <<file1, i>>   \* "too many files"
       ELSE file1' = Append(file1, in.args[i]) /\ i' = i + 1 /\ UNCHANGED pc
  /\ UNCHANGED <<in, j, found, file2, name, errflag, ip, curseg, pass2vars>>

main ==
  /\ pc = "startup" /\ i > Len(in.args)
  /\ pc' = "file1" /\ i' = 1
  /\ UNCHANGED <<in, file1, j, found, file2, name, errflag, ip, curseg,
                 pass2vars>>

\* exit(1) in the middle of process()
Exit1 == pc' = "exit1"

-----------------------------------------------------------------------------
(* Pass 1                                                                  *)

\* Prologue of dopass1: the new entry of file2.
dopass1(file, lib) ==
  /\ file2' = Append(file2, [file |-> file, lib |-> lib,
                             base |-> Zero, pos |-> Zero, len |-> Zero])
  /\ pc' = IF Len(file2') >= FILEMAX THEN "toomany" ELSE "pass1"
  /\ ip' = 1
  /\ curseg' = "CODE"

LastObject == pc = "file1" /\ i > Len(file1)

File1Object ==
  /\ pc = "file1" /\ i <= Len(file1)
  /\ file1[i].lib = NONE
  /\ IF file1[i].file \in DOMAIN in.obj
       THEN dopass1(file1[i].file, NONE)
       ELSE Exit1 /\ UNCHANGED <<file2, ip, curseg>>
  /\ UNCHANGED <<in, loops, name, errflag, pass2vars>>

\* open_olb()
File1Library ==
  /\ pc = "file1" /\ i <= Len(file1)
  /\ file1[i].lib # NONE
  /\ IF \/ file1[i].lib \notin DOMAIN in.lib
        \/ Cardinality(in.lib[file1[i].lib]) > FILEMAX
       THEN Exit1 /\ UNCHANGED <<j, found>>
       ELSE pc' = "scan" /\ j' = 1 /\ found' = FALSE
  /\ UNCHANGED <<in, file1, i, file2, name, errflag, ip, curseg, pass2vars>>

\* The module the current library offers for the j-th symbol.
Wanted == name[in.order[j]].type = "UNDEF"
Offered == lbnlib(file1[i].lib, in.order[j])

ScanSkip ==
  /\ pc = "scan" /\ j <= Len(in.order)
  /\ ~ (Wanted /\ Offered # NONE)
  /\ j' = j + 1
  /\ UNCHANGED <<in, pc, file1, i, found, file2, name, errflag, ip, curseg,
                 pass2vars>>

BugLoadAlways ==
  /\ pc = "scan" /\ j <= Len(in.order)
  /\ Offered # NONE
  /\ dopass1(Offered, file1[i].lib)
  /\ found' = TRUE
  /\ j' = j + 1
  /\ UNCHANGED <<in, file1, i, name, errflag, pass2vars>>

ScanLoad ==
  /\ pc = "scan" /\ j <= Len(in.order)
  /\ Wanted /\ Offered # NONE
  /\ dopass1(Offered, file1[i].lib)
  /\ found' = TRUE
  /\ j' = j + 1
  /\ UNCHANGED <<in, file1, i, name, errflag, pass2vars>>

BugFoundNotReset ==
  /\ pc = "scan" /\ j > Len(in.order) /\ found
  /\ j' = 1
  /\ UNCHANGED <<in, pc, file1, i, found, file2, name, errflag, ip, curseg,
                 pass2vars>>

ScanAgain ==
  /\ pc = "scan" /\ j > Len(in.order) /\ found
  /\ found' = FALSE
  /\ j' = 1
  /\ UNCHANGED <<in, pc, file1, i, file2, name, errflag, ip, curseg,
                 pass2vars>>

BugOneScan ==
  /\ pc = "scan" /\ j > Len(in.order)
  /\ pc' = "file1" /\ i' = i + 1
  /\ UNCHANGED <<in, file1, j, found, file2, name, errflag, ip, curseg,
                 pass2vars>>

ScanDone ==
  /\ pc = "scan" /\ j > Len(in.order) /\ ~ found
  /\ pc' = "file1" /\ i' = i + 1
  /\ UNCHANGED <<in, file1, j, found, file2, name, errflag, ip, curseg,
                 pass2vars>>

\* The module being read, and its next command.
cur == IF pc = "pass2" THEN i ELSE Len(file2)
body == in.obj[file2[cur].file]
Reading(p) == pc = p /\ ip <= Len(body)
cmd == body[ip]

\* How far a command moves the position in its segment.
Size(c) ==
  CASE c.op = "data" -> Len(c.bytes)
    [] c.op = "dsb" -> c.n
    [] c.op = "popb" -> 1
    [] c.op = "popw" -> BPW
    [] OTHER -> 0

Moved(fp) == [fp EXCEPT !.pos[curseg] = Add(@, Size(cmd))]

save_seg_size(fp) ==
  [fp EXCEPT !.len = [s \in Seg |->
     IF unsigned_GT(fp.pos[s], fp.len[s]) THEN fp.pos[s] ELSE fp.len[s]]]

\* read_byte() at the end of the file: "missing .END"
P1MissingEnd ==
  /\ pc = "pass1" /\ ip > Len(body)
  /\ Exit1
  /\ UNCHANGED <<in, loops, file2, name, errflag, ip, curseg, pass2vars>>

P1Skip ==
  /\ Reading("pass1")
  /\ cmd.op \in {"alu", "not", "neg", "swap", "push"}
  /\ ip' = ip + 1
  /\ UNCHANGED <<in, pc, loops, file2, name, errflag, curseg, pass2vars>>

P1Advance ==
  /\ Reading("pass1")
  /\ cmd.op \in {"data", "popb", "popw", "dsb"}
  /\ file2' = [file2 EXCEPT ![cur] = Moved(@)]
  /\ ip' = ip + 1
  /\ UNCHANGED <<in, pc, loops, name, errflag, curseg, pass2vars>>

Mention(s) == IF name[s].type = NONE THEN "UNDEF" ELSE name[s].type

P1Symbol ==
  /\ Reading("pass1") /\ cmd.op = "sym"
  /\ name' = [name EXCEPT ![cmd.sym].type = Mention(cmd.sym)]
  /\ ip' = ip + 1
  /\ UNCHANGED <<in, pc, loops, file2, errflag, curseg, pass2vars>>

BugSilentRedefine ==
  /\ Reading("pass1") /\ cmd.op = "def"
  /\ name' = [name EXCEPT ![cmd.sym] =
       [type |-> cmd.seg, module |-> cur, value |-> cmd.ofs]]
  /\ ip' = ip + 1
  /\ UNCHANGED <<in, pc, loops, file2, errflag, curseg, pass2vars>>

P1Define ==
  /\ Reading("pass1") /\ cmd.op = "def"
  /\ IF Mention(cmd.sym) = "UNDEF"
       THEN /\ name' = [name EXCEPT ![cmd.sym] =
                 [type |-> cmd.seg, module |-> cur, value |-> cmd.ofs]]
            /\ UNCHANGED errflag
       ELSE errflag' = TRUE /\ UNCHANGED name           \* doubly defined
  /\ ip' = ip + 1
  /\ UNCHANGED <<in, pc, loops, file2, curseg, pass2vars>>

P1Org ==
  /\ Reading("pass1") /\ cmd.op = "org"
  /\ file2' = [file2 EXCEPT ![cur] =
                 [save_seg_size(@) EXCEPT !.pos[cmd.seg] = cmd.ofs]]
  /\ curseg' = cmd.seg
  /\ ip' = ip + 1
  /\ UNCHANGED <<in, pc, loops, name, errflag, pass2vars>>

P1Unknown ==
  /\ Reading("pass1") /\ cmd.op = "unknown"
  /\ errflag' = TRUE
  /\ Exit1
  /\ UNCHANGED <<in, loops, file2, name, ip, curseg, pass2vars>>

\* REL_END returns to the loop that called dopass1.
P1End ==
  /\ Reading("pass1") /\ cmd.op = "end"
  /\ file2' = [file2 EXCEPT ![cur] = save_seg_size(@)]
  /\ IF file1[i].lib = NONE
       THEN pc' = "file1" /\ i' = i + 1
       ELSE pc' = "scan" /\ UNCHANGED i
  /\ UNCHANGED <<in, file1, j, found, name, errflag, ip, curseg, pass2vars>>

-----------------------------------------------------------------------------
(* doreloc(), the undefined symbols and the prefix                         *)

\* The modules' segments in the order in which they are laid out: all CODE
\* segments, then all DATA segments, and so on.
Places == 0..(4 * Len(file2))
SegOf(n) == SegOrder[((n - 1) \div Len(file2)) + 1]
ModOf(n) == ((n - 1) % Len(file2)) + 1
PlaceOf(s, m) ==
  ((CHOOSE k \in 1..4 : SegOrder[k] = s) - 1) * Len(file2) + m

BugNoCarry ==
  LET pos[n \in Places] ==
        IF n = 0 \/ (n > 1 /\ ModOf(n) = 1) THEN PREFIX
        ELSE Add(pos[n - 1], file2[ModOf(n)].len[SegOf(n)])
  IN  pos

\* The running curpos after the n-th segment.
curpos ==
  LET pos[n \in Places] ==
        IF n = 0 THEN PREFIX
        ELSE Add(pos[n - 1], file2[ModOf(n)].len[SegOf(n)])
  IN  pos

\* Where segment s of the whole image starts, and its length.
SegBase(s) == curpos[PlaceOf(s, 1) - 1]
SegLen(s) == Sub(curpos[PlaceOf(s, Len(file2))], SegBase(s))

AbsoluteValue(s) ==
  CASE s = "___STACKLEN" -> in.stksiz
    [] s = "___CODEBASE" -> 0
    [] s = "___CODELEN"  -> SegLen("CODE")
    [] s = "___DATABASE" -> SegBase("DATA")
    [] s = "___DATALEN"  -> SegLen("DATA")
    [] s = "___TEXTBASE" -> SegBase("TEXT")
    [] s = "___TEXTLEN"  -> SegLen("TEXT")
    [] s = "___UDEFBASE" -> SegBase("UDEF")
    [] s = "___UDEFLEN"  -> SegLen("UDEF")

doreloc ==
  /\ LastObject
  /\ file2' = [m \in DOMAIN file2 |->
       [file2[m] EXCEPT !.base = [s \in Seg |-> curpos[PlaceOf(s, m) - 1]]]]
  /\ name' = [s \in Named |->
       IF s \in Absolute
         THEN [name[s] EXCEPT !.value = AbsoluteValue(s)]
         ELSE IF name[s].type \in Seg
         THEN [name[s] EXCEPT !.value =
                 Add(@, file2'[name[s].module].base[name[s].type])]
         ELSE name[s]]
  /\ pc' = "undef"
  /\ UNCHANGED <<in, loops, errflag, ip, curseg, pass2vars>>

\* "Undefined symbols :", unless -u
TestUndef ==
  /\ pc = "undef"
  /\ errflag' = (errflag \/ (~ in.undef /\ \E s \in Named : name[s].type = "UNDEF"))
  /\ pc' = "prefix"
  /\ UNCHANGED <<in, loops, file2, name, ip, curseg, pass2vars>>

\* The image is written through a file position.
Byte(v) == <<"num", v>>
Bytes(w) == <<Byte(Hi(w)), Byte(Lo(w))>>

Write(bytes) ==
  /\ image' = [a \in DOMAIN image \cup out..(out + Len(bytes) - 1) |->
                 IF a \in out..(out + Len(bytes) - 1) THEN bytes[a - out + 1]
                 ELSE image[a]]
  /\ out' = out + Len(bytes)

\* "JMP ___START"
Prefix ==
  /\ pc = "prefix"
  /\ Write(<<<<"JMP", 1>>>> \o Bytes(name["___START"].value) \o <<Byte(0)>>)
  /\ pc' = "file2" /\ i' = 1
  /\ UNCHANGED <<in, file1, j, found, file2, name, errflag, ip, curseg, stack>>

-----------------------------------------------------------------------------
(* Pass 2                                                                  *)

dopass2 ==
  /\ pc = "file2" /\ i <= Len(file2)
  /\ curseg' = "CODE"
  /\ stack' = <<>>
  /\ out' = file2[i].base["CODE"]
  /\ ip' = 1
  /\ pc' = "pass2"
  /\ UNCHANGED <<in, loops, file2, name, errflag, image>>

\* return errflag
Return ==
  /\ pc = "file2" /\ i > Len(file2)
  /\ pc' = "exit"
  /\ UNCHANGED <<in, loops, file2, name, errflag, ip, curseg, pass2vars>>

\* After writing n bytes: the position moves, but nothing belongs in UDEF.
Stored ==
  IF curseg = "UDEF"
    THEN Exit1 /\ UNCHANGED <<file2, ip>>
    ELSE /\ file2' = [file2 EXCEPT ![cur] = Moved(@)]
         /\ ip' = ip + 1 /\ UNCHANGED pc

P2Data ==
  /\ Reading("pass2") /\ cmd.op = "data"
  /\ Write(cmd.bytes)
  /\ Stored
  /\ errflag' = (errflag \/ curseg = "UDEF")
  /\ UNCHANGED <<in, loops, name, curseg, stack>>

Top == stack[Len(stack)]
Below == stack[Len(stack) - 1]
Popped(n) == SubSeq(stack, 1, Len(stack) - n)

\* objerr() only reports; the push has been done by then.
Push(w) ==
  /\ stack' = Append(stack, w)
  /\ errflag' = (errflag \/ Len(stack') >= STACKMAX)

\* Whether the stack holds the n operands of a command.
Operands(n) == Len(stack) >= n

P2Stack(result) ==
  /\ stack' = result
  /\ ip' = ip + 1
  /\ UNCHANGED <<in, pc, loops, file2, name, errflag, curseg, out, image>>

P2Alu == Reading("pass2") /\ cmd.op = "alu" /\ Operands(2)
         /\ P2Stack(Append(Popped(2), Alu(cmd.f, Below, Top)))

P2Not == Reading("pass2") /\ cmd.op = "not" /\ Operands(1)
         /\ P2Stack(Append(Popped(1), Sub(WORD - 1, Top)))

P2Neg == Reading("pass2") /\ cmd.op = "neg" /\ Operands(1)
         /\ P2Stack(Append(Popped(1), Sub(0, Top)))

P2Swap == Reading("pass2") /\ cmd.op = "swap" /\ Operands(2)
          /\ P2Stack(Popped(2) \o <<Top, Below>>)

\* "stack underflow" is reported when stack[-1] has been read; it is then also
\* written, and what happens to the program is not defined.
P2Underflow ==
  /\ Reading("pass2")
  /\ \/ cmd.op \in {"alu", "swap"} /\ ~ Operands(2)
     \/ cmd.op \in {"not", "neg", "popb", "popw"} /\ ~ Operands(1)
  /\ errflag' = TRUE
  /\ pc' = "undefined"
  /\ UNCHANGED <<in, loops, file2, name, ip, curseg, pass2vars>>

\* REL_PUSHx, REL_CODEx .. REL_UDEFx: a number, or one relative to a segment.
P2Push ==
  /\ Reading("pass2") /\ cmd.op = "push"
  /\ Push(IF cmd.seg = NONE THEN cmd.v
          ELSE Add(file2[cur].base[cmd.seg], cmd.v))
  /\ ip' = ip + 1
  /\ UNCHANGED <<in, pc, loops, file2, name, curseg, out, image>>

P2Symbol ==
  /\ Reading("pass2") /\ cmd.op = "sym"
  /\ Push(name[cmd.sym].value)
  /\ ip' = ip + 1
  /\ UNCHANGED <<in, pc, loops, file2, name, curseg, out, image>>

FitsByte(w) == Signed(w) \in -(BYTE \div 2)..((BYTE \div 2) - 1)

P2PopByte ==
  /\ Reading("pass2") /\ cmd.op = "popb" /\ Operands(1)
  /\ stack' = Popped(1)
  /\ errflag' = (errflag \/ ~ FitsByte(Top) \/ curseg = "UDEF")
  /\ Write(<<Byte(Lo(Top))>>)
  /\ Stored
  /\ UNCHANGED <<in, loops, name, curseg>>

P2PopWord ==
  /\ Reading("pass2") /\ cmd.op = "popw" /\ Operands(1)
  /\ stack' = Popped(1)
  /\ errflag' = (errflag \/ curseg = "UDEF")
  /\ Write(Bytes(Top))
  /\ Stored
  /\ UNCHANGED <<in, loops, name, curseg>>

BugSkipWithoutWriting ==
  /\ Reading("pass2") /\ cmd.op = "dsb"
  /\ file2' = [file2 EXCEPT ![cur] = Moved(@)]
  /\ ip' = ip + 1
  /\ UNCHANGED <<in, pc, loops, name, errflag, curseg, stack, out, image>>

\* Zeros are written while the count, as an int, is positive.
P2Skip ==
  /\ Reading("pass2") /\ cmd.op = "dsb"
  /\ file2' = [file2 EXCEPT ![cur] = Moved(@)]
  /\ IF curseg # "UDEF" /\ Signed(cmd.n) > 0
       THEN Write([b \in 1..cmd.n |-> Byte(0)])
       ELSE UNCHANGED <<out, image>>
  /\ ip' = ip + 1
  /\ UNCHANGED <<in, pc, loops, name, errflag, curseg, stack>>

P2Define ==
  /\ Reading("pass2") /\ cmd.op = "def"
  /\ ip' = ip + 1
  /\ UNCHANGED <<in, pc, loops, file2, name, errflag, curseg, pass2vars>>

P2Org ==
  /\ Reading("pass2") /\ cmd.op = "org"
  /\ file2' = [file2 EXCEPT ![cur].pos[cmd.seg] = cmd.ofs]
  /\ curseg' = cmd.seg
  /\ out' = IF cmd.seg = "UDEF" THEN 0
            ELSE Add(file2[cur].base[cmd.seg], cmd.ofs)
  /\ ip' = ip + 1
  /\ UNCHANGED <<in, pc, loops, name, errflag, stack, image>>

\* "stack not properly released" ends the program.
P2End ==
  /\ Reading("pass2") /\ cmd.op = "end"
  /\ IF stack # <<>> THEN Exit1 /\ UNCHANGED i
     ELSE pc' = "file2" /\ i' = i + 1
  /\ UNCHANGED <<in, file1, j, found, file2, name, errflag, ip, curseg,
                 pass2vars>>

-----------------------------------------------------------------------------
Pass1 ==
  \/ File1Object \/ File1Library \/ ScanSkip \/ ScanLoad \/ ScanAgain \/ ScanDone
  \/ P1MissingEnd \/ P1Skip \/ P1Advance \/ P1Symbol \/ P1Define \/ P1Org
  \/ P1Unknown \/ P1End

Pass2 ==
  \/ dopass2 \/ Return \/ P2Data \/ P2Alu \/ P2Not \/ P2Neg \/ P2Swap \/ P2Push
  \/ P2Symbol \/ P2PopByte \/ P2PopWord \/ P2Underflow \/ P2Skip \/ P2Define
  \/ P2Org \/ P2End

Next == startup \/ main \/ Pass1 \/ doreloc \/ TestUndef \/ Prefix \/ Pass2

Spec == Init /\ [][Next]_vars

\* The linker is one sequential program.
FairSpec == Spec /\ WF_vars(Next)

-----------------------------------------------------------------------------
(***************************************************************************)
(* Properties                                                              *)
(***************************************************************************)

Ended == pc \in {"exit", "exit1", "toomany", "undefined"}

\* When process() has finished with a library, no symbol that the library
\* defines is still undefined: the modules it loaded on the way need nothing
\* more from it, whatever the order of the symbol table's slots.
LibraryClosed ==
  pc = "file1" /\ i > 1 /\ file1[i - 1].lib # NONE =>
    \A s \in Symbols \cup {"___START"} :
      name[s].type = "UNDEF" => lbnlib(file1[i - 1].lib, s) = NONE

\* A module is taken from a library only for a symbol that nothing else had
\* defined; in particular no module is linked twice, also when a library is
\* named twice.  (The last module may not have been read to its end.)
PullsNeeded ==
  \A m \in DOMAIN file2 :
    /\ file2[m].lib # NONE
    /\ m < Len(file2) \/ pc \notin {"pass1", "exit1", "toomany"}
    => \E s \in Named : name[s].type \in Seg /\ name[s].module = m

\* Modules among those linked that define s.
Definers(s) == {m \in DOMAIN file2 : Defines(in.obj[file2[m].file], s)}

Uses(b, s) == \E k \in DOMAIN b : b[k].op = "sym" /\ b[k].sym = s

\* main() returns errflag: status 0 means that every symbol some linked
\* module uses has exactly one definition (none, under -u).
CleanExit ==
  pc = "exit" /\ ~ errflag =>
    \A s \in Named :
      /\ \A m \in DOMAIN file2 : Uses(in.obj[file2[m].file], s) =>
           s \in Absolute \/ Definers(s) # {} \/ in.undef
      /\ Cardinality(Definers(s)) <= IF s \in Absolute THEN 0 ELSE 1

\* The sizes pass 1 adds up are the sizes pass 2 fills: outside UDEF the
\* image position is inside the segment of the module being read, so no
\* module writes over another.
InOwnSegment ==
  pc = "pass2" /\ curseg # "UDEF" =>
    LET fp == file2[cur] IN
    out \in fp.base[curseg]..(fp.base[curseg] + fp.len[curseg])

\* The image position follows the position in the segment.  (FCODEPOS still
\* holds its pass 1 value until a REL_CODEORG, so CODE is left out.)
CursorFollows ==
  pc = "pass2" /\ curseg \in {"DATA", "TEXT"} =>
    out = Add(file2[cur].base[curseg], file2[cur].pos[curseg])

\* What an object file says by itself: segment and offset of its k-th command.
Walk(b) ==
  LET at[k \in 1..(Len(b) + 1)] ==
        IF k = 1 THEN [seg |-> "CODE", ofs |-> 0]
        ELSE IF b[k - 1].op = "org" THEN [seg |-> b[k - 1].seg, ofs |-> b[k - 1].ofs]
        ELSE [at[k - 1] EXCEPT !.ofs = @ + Size(b[k - 1])]
  IN  at
SegAt(b, k) == Walk(b)[k].seg
OfsAt(b, k) == Walk(b)[k].ofs

\* The address a symbol must get: where its definer's segment was placed.
AddressOf(s) ==
  IF Definers(s) = {} THEN name[s].value
  ELSE LET m == CHOOSE x \in Definers(s) : TRUE
           b == in.obj[file2[m].file]
           d == b[CHOOSE k \in DOMAIN b : b[k].op = "def" /\ b[k].sym = s]
       IN  Add(file2[m].base[d.seg], d.ofs)

\* End to end: after a link without errors, every byte of data of every
\* linked module is in the image at its segment's base plus its own offset,
\* every word or byte that refers to a symbol holds the address its definer
\* ended up at, and the image starts with a jump to ___START.
ImageFaithful ==
  pc = "exit" /\ ~ errflag =>
    /\ \A m \in DOMAIN file2 :
         LET b == in.obj[file2[m].file]
             At(k) == file2[m].base[SegAt(b, k)] + OfsAt(b, k)
         IN  \A k \in DOMAIN b :
               /\ b[k].op = "data" =>
                    \A n \in DOMAIN b[k].bytes :
                      image[At(k) + n - 1] = b[k].bytes[n]
               /\ k > 1 /\ b[k].op = "popw" /\ b[k - 1].op = "sym" =>
                    <<image[At(k)], image[At(k) + 1]>>
                      = Bytes(AddressOf(b[k - 1].sym))
               /\ k > 1 /\ b[k].op = "popb" /\ b[k - 1].op = "sym" =>
                    /\ FitsByte(AddressOf(b[k - 1].sym))
                    /\ image[At(k)] = Byte(Lo(AddressOf(b[k - 1].sym)))
    /\ <<image[1], image[2]>> = Bytes(AddressOf("___START"))

\* Every invocation ends, whatever the library's modules need of each other.
Terminates == <>Ended

=============================================================================
