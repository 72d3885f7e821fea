---------------------------- MODULE Preprocessor ----------------------------
(***************************************************************************)
(* The preprocessor of xasm: includes, macros and conditional lines, read  *)
(* twice.  The compiler has the same functions (xcc1.c, xcc2.c) and reads  *)
(* its source once.                                                        *)
(*                                                                         *)
(* A source is a main file and the files it may include.  One action takes *)
(* one line.  Lines are directives, or statements; a statement is one word *)
(* here, enough to be a macro, an ordinary word or .END.  The layout of a  *)
(* line, quotes, comments and over-long lines are left out.                *)
(*                                                                         *)
(* Operators whose names start with Bug are slips the code could have had; *)
(* no specification uses them.  They show that a property notices.         *)
(***************************************************************************)
EXTENDS Naturals, Sequences

CONSTANTS
  MACMAX,    \* number of definable macros
  MACQMAX,   \* size of the table that holds their expansions
  Idents,    \* words that are identifiers
  Others,    \* words that are not: numbers, operators
  Files,     \* names of include files
  Sources    \* the sources xasm may be given: the main file and the
             \* include files there are

END == ".END"
NONE == "none"
Word == Idents \cup Others

\* An expansion has at most one word.
Body == {<<>>} \cup {<<w>> : w \in Word}

Line == [op : {"ifdef", "ifndef"}, id : Word] \cup [op : {"else", "endif"}]
          \cup [op : {"include"}, file : Files \cup {NONE}]
          \cup [op : {"define"}, id : Word, to : Body]
          \cup [op : {"text"}, id : Word]

ASSUME LimitsAssumption == MACMAX \in Nat /\ MACQMAX \in Nat \ {0}
ASSUME WordsAssumption == END \in Idents /\ NONE \notin Files
ASSUME SourcesAssumption ==
  \A s \in Sources : /\ s.main \in Seq(Line)
                     /\ DOMAIN s.inc \subseteq Files
                     /\ \A f \in DOMAIN s.inc : s.inc[f] \in Seq(Line)

VARIABLES
  src,        \* the source: never changed
  pc,         \* "run", "ended" (parse() has returned), "exit" or "done"
  pass,
  inppos,     \* lines read of the main file
  inchdl,     \* the include file being read, or NONE
  incpos,     \* lines read of it
  mac,        \* macros in the order of their definitions
  macqinx,
  iflevel,
  skiplevel,
  errflag,
  conds,      \* auxiliary: for every open #if, whether its branch is taken
  got         \* auxiliary: the statements handed to the assembler, by pass

input == <<inppos, inchdl, incpos>>
macros == <<mac, macqinx>>
levels == <<iflevel, skiplevel, conds>>
vars == <<src, pc, pass, input, macros, levels, errflag, got>>

-----------------------------------------------------------------------------
(* Macros.                                                                 *)

\* The positions at which w is defined.
Entries(w) == {k \in DOMAIN mac : mac[k].name = w}

BugFindLast(w) == CHOOSE k \in Entries(w) : \A n \in Entries(w) : n <= k

\* The first entry with that name.
findmac(w) == CHOOSE k \in Entries(w) : \A n \in Entries(w) : k <= n

IsMacro(w) == Entries(w) # {}

\* What preprocess() puts in the place of a word; it is not scanned again.
Expand(w) == IF IsMacro(w) THEN mac[findmac(w)].to ELSE <<w>>

-----------------------------------------------------------------------------
(* readline(): the next line comes from the include file when one is open. *)

Including == inchdl # NONE
Current == IF Including THEN src.inc[inchdl] ELSE src.main
Position == IF Including THEN incpos ELSE inppos
HasLine == pc = "run" /\ Position < Len(Current)
line == Current[Position + 1]

Advance == IF Including THEN incpos' = incpos + 1 /\ UNCHANGED inppos
                        ELSE inppos' = inppos + 1 /\ UNCHANGED incpos

\* Takes a line of kind op.
readline(op) ==
  /\ HasLine
  /\ line.op = op
  /\ Advance
  /\ UNCHANGED <<src, pass>>

\* The end of an include file: go on with the main file.
EndOfInclude ==
  /\ pc = "run" /\ Including /\ incpos = Len(src.inc[inchdl])
  /\ inchdl' = NONE
  /\ UNCHANGED <<src, pc, pass, inppos, incpos, macros, levels, errflag, got>>

\* The end of the main file: inphdl = 0, which ends parse() as well.
EndOfInput ==
  /\ pc = "run" /\ ~Including /\ inppos = Len(src.main)
  /\ pc' = "ended"
  /\ UNCHANGED <<src, pass, input, macros, levels, errflag, got>>

-----------------------------------------------------------------------------
(* ifline(): conditional lines.                                            *)

\* A condition without an identifier is reported and counts as true, unless
\* it is skipped.
Conditional(op, true) ==
  /\ readline(op)
  /\ iflevel' = iflevel + 1
  /\ LET named == line.id \in Idents
         holds == ~named \/ true
     IN  /\ conds' = Append(conds, holds)
         /\ skiplevel' = IF skiplevel = 0 /\ ~holds THEN iflevel + 1
                                                    ELSE skiplevel
         /\ errflag' = (errflag \/ (skiplevel = 0 /\ ~named))
  /\ UNCHANGED <<pc, inchdl, macros, got>>

Ifdef == Conditional("ifdef", IsMacro(line.id))
Ifndef == Conditional("ifndef", ~IsMacro(line.id))

\* An #else that ends every skipping.
BugElse ==
  /\ readline("else")
  /\ IF iflevel = 0
       THEN errflag' = TRUE /\ UNCHANGED levels
       ELSE /\ skiplevel' = IF skiplevel = 0 THEN iflevel ELSE 0
            /\ conds' = [conds EXCEPT ![Len(conds)] = ~@]
            /\ UNCHANGED <<iflevel, errflag>>
  /\ UNCHANGED <<pc, inchdl, macros, got>>

Else ==
  /\ readline("else")
  /\ IF iflevel = 0
       THEN errflag' = TRUE /\ UNCHANGED levels
       ELSE /\ skiplevel' = IF skiplevel = iflevel THEN 0
                            ELSE IF skiplevel = 0 THEN iflevel ELSE skiplevel
            /\ conds' = [conds EXCEPT ![Len(conds)] = ~@]
            /\ UNCHANGED <<iflevel, errflag>>
  /\ UNCHANGED <<pc, inchdl, macros, got>>

Endif ==
  /\ readline("endif")
  /\ IF iflevel = 0
       THEN errflag' = TRUE /\ UNCHANGED levels
       ELSE /\ skiplevel' = IF skiplevel = iflevel THEN 0 ELSE skiplevel
            /\ iflevel' = iflevel - 1
            /\ conds' = SubSeq(conds, 1, Len(conds) - 1)
            /\ UNCHANGED errflag
  /\ UNCHANGED <<pc, inchdl, macros, got>>

Skip ==
  /\ skiplevel # 0
  /\ \E op \in {"include", "define", "text"} : readline(op)
  /\ UNCHANGED <<pc, inchdl, macros, levels, errflag, got>>

-----------------------------------------------------------------------------
(* The lines parse() is given.                                             *)

exit ==
  /\ pc' = "exit"
  /\ errflag' = TRUE
  /\ UNCHANGED <<inchdl, macros>>

\* An include file may include: the handle of the first is lost.
BugNested ==
  /\ skiplevel = 0
  /\ HasLine /\ line.op = "include"
  /\ \/ /\ line.file = NONE
        /\ errflag' = TRUE
        /\ Advance
        /\ UNCHANGED <<pc, inchdl>>
     \/ /\ line.file \in DOMAIN src.inc
        /\ inchdl' = line.file
        /\ incpos' = 0
        /\ inppos' = IF Including THEN inppos ELSE inppos + 1
        /\ UNCHANGED <<pc, errflag>>
     \/ /\ line.file \notin DOMAIN src.inc \cup {NONE}
        /\ Advance
        /\ exit
  /\ UNCHANGED <<src, pass, macros, levels, got>>

\* One include at a time.  mustopen() ends the program.
doinclude ==
  /\ skiplevel = 0
  /\ HasLine /\ line.op = "include"
  /\ \/ /\ line.file = NONE \/ Including
        /\ errflag' = TRUE
        /\ Advance
        /\ UNCHANGED <<pc, inchdl>>
     \/ /\ line.file # NONE /\ ~Including
        /\ line.file \in DOMAIN src.inc
        /\ inchdl' = line.file
        /\ incpos' = 0
        /\ inppos' = inppos + 1
        /\ UNCHANGED <<pc, errflag>>
     \/ /\ line.file # NONE /\ ~Including
        /\ line.file \notin DOMAIN src.inc
        /\ Advance
        /\ exit
  /\ UNCHANGED <<src, pass, macros, levels, got>>

\* A #define as declmac() sees it: its name and body have been expanded too.
Expanded == Expand(line.id)
              \o (IF line.to = <<>> THEN <<>> ELSE Expand(line.to[1]))

\* Cells of macq[] in use after an expansion of n words and its terminator.
Stored(n) == IF macqinx + n + 1 < MACQMAX THEN macqinx + n + 1 ELSE MACQMAX

\* Tests for room after the entry has been made.
BugDeclLate ==
  /\ skiplevel = 0
  /\ readline("define")
  /\ LET def == Expanded
     IN  /\ def # <<>> /\ def[1] \in Idents
         /\ mac' = Append(mac, [name |-> def[1], to |-> Tail(def)])
         /\ macqinx' = Stored(Len(def) - 1)
         /\ IF macqinx' = MACQMAX \/ Len(mac) >= MACMAX
              THEN pc' = "exit" /\ errflag' = TRUE
              ELSE UNCHANGED <<pc, errflag>>
         /\ UNCHANGED inchdl
  /\ UNCHANGED <<levels, got>>

declmac ==
  /\ skiplevel = 0
  /\ readline("define")
  /\ LET def == Expanded
         named == def # <<>> /\ def[1] \in Idents
     IN  \/ /\ ~named
            /\ errflag' = TRUE
            /\ UNCHANGED <<pc, inchdl, macros>>
         \/ /\ named /\ Len(mac) >= MACMAX
            /\ exit
         \/ /\ named /\ Len(mac) < MACMAX
            /\ mac' = Append(mac, [name |-> def[1], to |-> Tail(def)])
            /\ macqinx' = Stored(Len(def) - 1)
            /\ IF macqinx' = MACQMAX
                 THEN pc' = "exit" /\ errflag' = TRUE
                 ELSE UNCHANGED <<pc, errflag>>
            /\ UNCHANGED inchdl
  /\ UNCHANGED <<levels, got>>

\* .END leaves parse() with the files open.
Statement ==
  /\ skiplevel = 0
  /\ readline("text")
  /\ LET words == Expand(line.id)
     IN  /\ got' = [got EXCEPT ![pass] = Append(@, words)]
         /\ pc' = IF words = <<END>> THEN "ended" ELSE pc
  /\ UNCHANGED <<inchdl, macros, levels, errflag>>

-----------------------------------------------------------------------------
(* main(): two passes.                                                     *)

Begin(n) ==
  /\ pass' = n
  /\ inppos' = 0
  /\ mac' = <<>> /\ macqinx' = 0
  /\ iflevel' = 0 /\ skiplevel' = 0 /\ conds' = <<>>

\* Keeps the macros of the first pass.
BugNextPass ==
  /\ pc = "ended" /\ pass = 1
  /\ errflag' = (errflag \/ iflevel # 0)
  /\ pass' = 2 /\ inppos' = 0
  /\ iflevel' = 0 /\ skiplevel' = 0 /\ conds' = <<>>
  /\ pc' = "run"
  /\ UNCHANGED <<src, inchdl, incpos, macros, got>>

\* The main file is opened again; inchdl is left as it is.
NextPass ==
  /\ pc = "ended" /\ pass = 1
  /\ errflag' = (errflag \/ iflevel # 0)
  /\ Begin(2)
  /\ pc' = "run"
  /\ UNCHANGED <<src, inchdl, incpos, got>>

Finish ==
  /\ pc = "ended" /\ pass = 2
  /\ errflag' = (errflag \/ iflevel # 0)
  /\ pc' = "done"
  /\ UNCHANGED <<src, pass, input, macros, levels, got>>

Init ==
  /\ src \in Sources
  /\ pc = "run" /\ pass = 1
  /\ inppos = 0 /\ inchdl = NONE /\ incpos = 0
  /\ mac = <<>> /\ macqinx = 0
  /\ iflevel = 0 /\ skiplevel = 0 /\ conds = <<>>
  /\ errflag = FALSE
  /\ got = [n \in {1, 2} |-> <<>>]

Next ==
  \/ EndOfInclude \/ EndOfInput
  \/ Ifdef \/ Ifndef \/ Else \/ Endif \/ Skip
  \/ doinclude \/ declmac \/ Statement
  \/ NextPass \/ Finish

Spec == Init /\ [][Next]_vars

\* A sequential program takes the step it can take.
FairSpec == Spec /\ WF_vars(Next)

-----------------------------------------------------------------------------
(* Properties.                                                             *)

\* The state has its types; in particular the tables of macros and of
\* expansions never hold more than they have room for (declmac).
TypeOK ==
  /\ src \in Sources
  /\ pc \in {"run", "ended", "exit", "done"}
  /\ pass \in {1, 2}
  /\ inppos \in Nat /\ incpos \in Nat
  /\ inchdl \in DOMAIN src.inc \cup {NONE}
  /\ mac \in Seq([name : Idents, to : Body]) /\ Len(mac) <= MACMAX
  /\ macqinx \in 0..MACQMAX
  /\ iflevel \in Nat /\ skiplevel \in Nat
  /\ errflag \in BOOLEAN
  /\ conds \in Seq(BOOLEAN)
  /\ got \in [{1, 2} -> Seq(Body)]

\* skiplevel is the outermost level whose branch is not taken, and 0 when all
\* are taken: a nested #else or #endif neither ends nor begins skipping that
\* belongs to a level outside it (ifline).
SkipExact ==
  /\ iflevel = Len(conds)
  /\ skiplevel = 0 => \A k \in 1..Len(conds) : conds[k]
  /\ skiplevel # 0 => /\ skiplevel \in 1..Len(conds)
                      /\ ~conds[skiplevel]
                      /\ \A k \in 1..(skiplevel - 1) : conds[k]

\* Pass 2 sees the statements that pass 1 saw, in the same order, all of them
\* by the end: addresses given in pass 1 are those of pass 2 (main).
SamePasses ==
  /\ Len(got[2]) <= Len(got[1])
  /\ \A k \in 1..Len(got[2]) : got[2][k] = got[1][k]
  /\ pc = "done" => got[2] = got[1]

\* Within a pass a macro keeps the meaning of its first definition, whatever
\* is defined after it (declmac, findmac).
KeepsMeaning ==
  \A w \in Word : IsMacro(w) /\ pass' = pass => IsMacro(w)' /\ Expand(w)' = Expand(w)
MacroStable == [][KeepsMeaning]_vars

\* Every source is read to its end, or refused: no include goes on for ever
\* (readline, doinclude).
Terminates == <>(pc \in {"exit", "done"})

=============================================================================
