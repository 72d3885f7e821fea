------------------------------ MODULE Archive ------------------------------
(***************************************************************************)
(* xar, the librarian.  An invocation loads the tables of the library,     *)
(* changes them in memory, writes a complete new library under a temporary *)
(* name and renames: library to backup, temporary to library.  The power   *)
(* may go at any step.                                                     *)
(*                                                                         *)
(* The bytes of an object are cells that say which object they are of;     *)
(* the header and the tables of a library are HDR bytes and FENT bytes per *)
(* module.  Offsets and lengths are words in the file and are read back    *)
(* with a sign.  Symbols are looked up by name (see NameTable).  Module    *)
(* numbers start at 1, and 0 stands for NLIB = -1.                         *)
(*                                                                         *)
(* Operators whose names start with Bug are slips the code could have had; *)
(* no specification uses them.  They show that a property notices.         *)
(***************************************************************************)
EXTENDS Words, Sequences, FiniteSets, FiniteSetsExt

CONSTANTS
  FILEMAX,    \* "Size of filetable"
  HDR, FENT,
  Symbols,
  Objects     \* the object files at hand, see Library

ASSUME ArchiveAssumption ==
  /\ FILEMAX \in Nat \ {0}
  /\ HDR \in Nat \ {0} /\ FENT \in Nat

\* An object file has at least its REL_END; module and version tell which one
\* it is.
ASSUME ObjectsAssumption ==
  /\ \A o \in Objects : o.defs \in Seq(Symbols) /\ o.len \in Nat \ {0}
  /\ \A o, p \in Objects : o.mod = p.mod /\ o.id = p.id => o = p

VARIABLES
  olb, bak, tmp,    \* the three files: <<>> or <<library>>
  pc,
  mem,              \* tables in memory: names, files, and the object to add
  pos,              \* position in the library being read
  ext               \* the object file a do_ext wrote: module and cells

vars == <<olb, bak, tmp, pc, mem, pos, ext>>

NOLIB == 0
Modules == {o.mod : o \in Objects}
NoExt == [mod |-> "", cells |-> <<>>]
NoMem == [names |-> [s \in Symbols |-> NOLIB], files |-> <<>>, obj |-> {},
          next |-> 1]

Init ==
  /\ olb = <<>> /\ bak = <<>> /\ tmp = <<>>
  /\ pc = "idle" /\ mem = NoMem /\ pos = 0 /\ ext = NoExt

-----------------------------------------------------------------------------
(* The library file                                                        *)

Body(o) == [k \in 1..o.len |-> <<o.mod, o.id, k>>]

\* Where the modules start in a library of n modules.
DataStart(n) == HDR + n * FENT

\* len bytes of library l at offset ofs; fewer at the end of the file.  What
\* lies before the modules is no part of any object.
ReadAt(l, ofs, len) ==
  LET data == DataStart(Len(l.files))
  IN  [k \in 1..Min({len, data + Len(l.cells) - ofs}) |->
         IF ofs + k > data THEN l.cells[ofs + k - data] ELSE <<"table", ofs + k>>]

\* open_olb(): the tables as they come back from the file.  A library that
\* is not there is an empty one.
Loaded ==
  IF olb = <<>> THEN NoMem
  ELSE [names |-> olb[1].names,
        files |-> [k \in DOMAIN olb[1].files |->
          LET e == olb[1].files[k]
          IN  [name |-> e.name, length |-> Signed(e.length),
               offset |-> Signed(e.offset), oldofs |-> Signed(e.offset)]],
        obj |-> {}, next |-> 1]

\* The position of olbhdl once the tables are read.
AfterTables == IF olb = <<>> THEN 0 ELSE DataStart(Len(olb[1].files))

\* "generate new offsets": olblen after each module; they lie one after the
\* other.
Olblen(files) ==
  LET olblen[k \in 0..Len(files)] ==
        IF k = 0 THEN DataStart(Len(files)) ELSE olblen[k - 1] + files[k].length
  IN  olblen

WithOffsets(files) ==
  [k \in DOMAIN files |-> [files[k] EXCEPT !.offset = Olblen(files)[k - 1]]]

\* write_word() of every table entry.
OnDisk(m) ==
  [names |-> m.names,
   files |-> [k \in DOMAIN m.files |->
      [name |-> m.files[k].name, length |-> m.files[k].length % WORD,
       offset |-> m.files[k].offset % WORD]],
   cells |-> <<>>]

-----------------------------------------------------------------------------
(* The commands, up to the point where the new library is written          *)

Index(files, m) ==
  IF \E k \in DOMAIN files : files[k].name = m
    THEN CHOOSE k \in DOMAIN files : files[k].name = m
    ELSE Len(files) + 1

Build(m) ==
  /\ mem' = m /\ pos' = AfterTables
  /\ pc' = "build"
  /\ ext' = NoExt
  /\ UNCHANGED <<olb, bak, tmp>>

do_cre ==
  /\ pc = "idle"
  /\ Build(NoMem)

\* Symbols of the module that is replaced leave the table first.
Without(names, inx) == [s \in Symbols |-> IF names[s] = inx THEN NOLIB ELSE names[s]]

\* "Symbol already defined": by another module, or twice by this one.
Clash(names, o) ==
  \E k \in DOMAIN o.defs :
    \/ names[o.defs[k]] # NOLIB
    \/ \E l \in 1..(k - 1) : o.defs[l] = o.defs[k]

BugKeepsOldSymbols(o) ==
  LET files == Loaded.files
      inx == Index(files, o.mod)
  IN  /\ pc = "idle"
      /\ inx <= FILEMAX /\ ~ Clash(Without(Loaded.names, inx), o)
      /\ Build([names |-> [s \in Symbols |->
                  IF \E k \in DOMAIN o.defs : o.defs[k] = s THEN inx
                  ELSE Loaded.names[s]],
                files |-> WithOffsets([k \in 1..Max({Len(files), inx}) |->
                  IF k = inx THEN [name |-> o.mod, length |-> o.len,
                                   offset |-> 0, oldofs |-> 0]
                  ELSE files[k]]),
                obj |-> {o}, next |-> 1])

do_add(o) ==
  LET files == Loaded.files
      inx == Index(files, o.mod)
      names == Without(Loaded.names, inx)
  IN  /\ pc = "idle"
      /\ inx <= FILEMAX /\ ~ Clash(names, o)
      /\ Build([names |-> [s \in Symbols |->
                  IF \E k \in DOMAIN o.defs : o.defs[k] = s THEN inx
                  ELSE names[s]],
                files |-> WithOffsets([k \in 1..Max({Len(files), inx}) |->
                  IF k = inx THEN [name |-> o.mod, length |-> o.len,
                                   offset |-> 0, oldofs |-> 0]
                  ELSE files[k]]),
                obj |-> {o}, next |-> 1])

\* "Too many modules in library", "module not inserted": exit(1)
do_addRefused(o) ==
  LET inx == Index(Loaded.files, o.mod)
  IN  /\ pc = "idle"
      /\ ~ (inx <= FILEMAX /\ ~ Clash(Without(Loaded.names, inx), o))
      /\ UNCHANGED vars

\* "module not found" changes nothing.
do_del(m) ==
  LET files == Loaded.files
      inx == Index(files, m)
  IN  /\ pc = "idle" /\ inx <= Len(files)
      /\ Build([names |-> [s \in Symbols |->
                  IF Loaded.names[s] = inx THEN NOLIB
                  ELSE IF Loaded.names[s] > inx THEN Loaded.names[s] - 1
                  ELSE Loaded.names[s]],
                files |-> WithOffsets([k \in 1..(Len(files) - 1) |->
                  IF k < inx THEN files[k] ELSE files[k + 1]]),
                obj |-> {}, next |-> 1])

\* fseek(hdl, ofs, 0) of the host, whose failure nobody looks at.
Seeked(p, ofs) == IF ofs < 0 THEN p ELSE ofs

\* copy_obj() and fclose(): a short read ends the program.
do_ext(m) ==
  LET e == Loaded.files[Index(Loaded.files, m)]
  IN  /\ pc = "idle" /\ Index(Loaded.files, m) <= Len(Loaded.files)
      /\ ext' = [mod |-> m, cells |->
                   ReadAt(olb[1], Seeked(AfterTables, e.offset), e.length)]
      /\ Len(ext'.cells) = Max({0, e.length})
      /\ UNCHANGED <<olb, bak, tmp, pc, mem, pos>>

-----------------------------------------------------------------------------
(* Writing the new library                                                 *)

\* unlink(outfn), fopen(outfn, "w") and the tables
Writeout ==
  /\ pc = "build"
  /\ tmp' = <<OnDisk(mem)>>
  /\ pc' = "copy"
  /\ UNCHANGED <<olb, bak, mem, pos, ext>>

BugCopyWithoutSeek ==
  LET e == mem.files[mem.next]
      from == pos
      cells == IF e.oldofs # 0 THEN ReadAt(olb[1], from, e.length)
               ELSE Body(CHOOSE o \in mem.obj : TRUE)
  IN  /\ pc = "copy" /\ mem.next <= Len(mem.files)
      /\ Len(cells) = Max({0, e.length})
      /\ tmp' = <<[tmp[1] EXCEPT !.cells = @ \o cells]>>
      /\ pos' = IF e.oldofs # 0 THEN from + Len(cells) ELSE pos
      /\ mem' = [mem EXCEPT !.next = @ + 1]
      /\ UNCHANGED <<olb, bak, pc, ext>>

\* copy_obj() of one module, from the old library or from the object file.
copy_obj ==
  LET e == mem.files[mem.next]
      from == Seeked(pos, e.oldofs)
      cells == IF e.oldofs # 0 THEN ReadAt(olb[1], from, e.length)
               ELSE Body(CHOOSE o \in mem.obj : TRUE)
  IN  /\ pc = "copy" /\ mem.next <= Len(mem.files)
      /\ Len(cells) = Max({0, e.length})
      /\ tmp' = <<[tmp[1] EXCEPT !.cells = @ \o cells]>>
      /\ pos' = IF e.oldofs # 0 THEN from + Len(cells) ELSE pos
      /\ mem' = [mem EXCEPT !.next = @ + 1]
      /\ UNCHANGED <<olb, bak, pc, ext>>

BugUnlinkLibrary ==
  /\ pc = "copy" /\ mem.next > Len(mem.files)
  /\ olb' = <<>> /\ bak' = <<>>
  /\ pc' = "keep"
  /\ UNCHANGED <<tmp, mem, pos, ext>>

\* fclose(outhdl); unlink(bakfn)
UnlinkBak ==
  /\ pc = "copy" /\ mem.next > Len(mem.files)
  /\ bak' = <<>>
  /\ pc' = "keep"
  /\ UNCHANGED <<olb, tmp, mem, pos, ext>>

\* rename(olbfn, bakfn), which fails when there is no library yet
RenameOlb ==
  /\ pc = "keep"
  /\ IF olb = <<>> THEN UNCHANGED <<olb, bak>> ELSE bak' = olb /\ olb' = <<>>
  /\ pc' = "install"
  /\ UNCHANGED <<tmp, mem, pos, ext>>

\* rename(outfn, olbfn)
RenameTmp ==
  /\ pc = "install"
  /\ olb' = tmp /\ tmp' = <<>>
  /\ pc' = "idle" /\ mem' = NoMem /\ pos' = 0
  /\ UNCHANGED <<bak, ext>>

\* The program is killed, or copy_obj reports a read error: what is on disk
\* stays.
Crash ==
  /\ pc # "idle"
  /\ pc' = "idle" /\ mem' = NoMem /\ pos' = 0
  /\ UNCHANGED <<olb, bak, tmp, ext>>

\* After a crash between the two renames the user puts the backup back.
Restore ==
  /\ pc = "idle" /\ olb = <<>> /\ bak # <<>>
  /\ olb' = bak /\ bak' = <<>>
  /\ UNCHANGED <<tmp, pc, mem, pos, ext>>

\* A command is not started on a library that a crash has left as a backup.
Usable == olb # <<>> \/ bak = <<>>

Command ==
  /\ Usable
  /\ \/ do_cre
     \/ \E o \in Objects : do_add(o) \/ do_addRefused(o)
     \/ \E m \in Modules : do_del(m) \/ do_ext(m)

Finish == Writeout \/ copy_obj \/ UnlinkBak \/ RenameOlb \/ RenameTmp

Next == Command \/ Finish \/ Crash \/ Restore

Spec == Init /\ [][Next]_vars

-----------------------------------------------------------------------------
(***************************************************************************)
(* Properties                                                              *)
(***************************************************************************)

DefinedBy(o) == {o.defs[k] : k \in DOMAIN o.defs}

\* Entry k of library l stands for object o, and its body is where it says.
Holds(l, k, o) ==
  /\ l.files[k].name = o.mod
  /\ ReadAt(l, l.files[k].offset, l.files[k].length) = Body(o)

\* The library as its users see it, in the backup while the names change.
Current == IF olb # <<>> THEN olb ELSE bak
Contents ==
  {o \in Objects : Current # <<>> /\
     \E k \in DOMAIN Current[1].files : Holds(Current[1], k, o)}

L == INSTANCE Library WITH contents <- Contents

\* Through additions, replacements, deletions and crashes at any step, the
\* library on disk goes from one state its users can see to the next; a crash
\* leaves it as it was before or after the command.
ImplementsLibrary == L!Spec

\* What the linker relies on when it searches a library: every entry's offset
\* and length enclose one whole object, and a symbol leads to exactly the
\* module that defines it.
IndexConsistent ==
  olb # <<>> =>
    LET l == olb[1] IN
    /\ \A s \in Symbols : l.names[s] \in 0..Len(l.files)
    /\ \A k \in DOMAIN l.files : \E o \in Objects :
         /\ Holds(l, k, o)
         /\ \A s \in Symbols : l.names[s] = k <=> s \in DefinedBy(o)

\* "x  Extract a module" (xar1.c:74): the object file that xar writes is the
\* module that the library holds under that name.
ExtractFaithful ==
  ext.mod # "" =>
    \E o \in Objects : o.mod = ext.mod /\ ext.cells = Body(o)

\* The array file[] is declared with FILEMAX*NLAST words and used with FLAST
\* words an entry.
NLAST == 3
FLAST == 4
FileWords == FILEMAX * NLAST

\* "FILEMAX = 50, // Size of filetable" (xar.h:38): the file table has room
\* for every module that do_add accepts.
TableFits == Len(mem.files) * FLAST <= FileWords

=============================================================================
