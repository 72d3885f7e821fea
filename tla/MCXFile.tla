------------------------------ MODULE MCXFile ------------------------------
(* A window of two bytes on files of up to five; words of sixteen values,  *)
(* so that offsets 8..15 are negative.                                     *)
EXTENDS XFile

\* xar and the linker seek on the files they read, to the start of a module.
SeekInInput(mode, whence, len, to) == mode = "R" /\ to \in 0..(len - 1)

\* The linker also seeks on the image it writes, between segments of modules.
SeekInOutput(mode, whence, len, to) == mode = "W" /\ to \in 0..(MAXLEN - 1)

=============================================================================
