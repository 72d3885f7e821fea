-------------------------------- MODULE File --------------------------------
(***************************************************************************)
(* What the file calls of the emulated machine promise: a file is a        *)
(* sequence of bytes with a position.  fread takes the byte at the         *)
(* position or reports the end, fwrite replaces or appends it, fseek moves *)
(* the position; a gap left by a seek beyond the end reads as zeros.       *)
(***************************************************************************)
EXTENDS Integers, Sequences

CONSTANTS Bytes, ZERO, EOF, NONE

VARIABLES
  contents,
  pos,
  mode,       \* "closed", "R" or "W"
  ret         \* what the last fread gave

fvars == <<contents, pos, mode, ret>>

\* d with byte b at offset p.
Put(d, p, b) ==
  [k \in 1..(IF p >= Len(d) THEN p + 1 ELSE Len(d)) |->
     IF k = p + 1 THEN b ELSE IF k <= Len(d) THEN d[k] ELSE ZERO]

Get(d, p) == IF p < Len(d) THEN d[p + 1] ELSE EOF

Init == contents = <<>> /\ pos = 0 /\ mode = "closed" /\ ret = NONE

Open(m) ==
  /\ mode = "closed"
  /\ mode' = m /\ pos' = 0 /\ ret' = NONE
  /\ contents' = IF m = "W" THEN <<>> ELSE contents

Read ==
  /\ mode = "R"
  /\ ret' = Get(contents, pos)
  /\ pos' = IF ret' = EOF THEN pos ELSE pos + 1
  /\ UNCHANGED <<contents, mode>>

Write(b) ==
  /\ mode = "W"
  /\ contents' = Put(contents, pos, b)
  /\ pos' = pos + 1 /\ ret' = NONE
  /\ UNCHANGED mode

Seek ==
  /\ mode # "closed"
  /\ pos' \in Nat /\ ret' = NONE
  /\ UNCHANGED <<contents, mode>>

Close ==
  /\ mode # "closed"
  /\ mode' = "closed" /\ pos' = 0 /\ ret' = NONE
  /\ UNCHANGED contents

Next ==
  \/ \E m \in {"R", "W"} : Open(m)
  \/ Read
  \/ \E b \in Bytes : Write(b)
  \/ Seek
  \/ Close

Spec == Init /\ [][Next]_fvars

=============================================================================
