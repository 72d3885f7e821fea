----------------------------- MODULE MCHandles -----------------------------
(* Two slots for a program's files in pso, three in xemu; the names are    *)
(* interchangeable.                                                        *)
EXTENDS Handles, TLC

Permuted == Permutations(Names)

=============================================================================
