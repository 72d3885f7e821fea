---------------------------- MODULE MCNameTable ----------------------------
(* A table of seven slots, six of them free: the identifiers below need    *)
(* seven, so that every probe length and the overflow happen.              *)
EXTENDS NameTable

MCChars == {2, 3, 5}
MCReserved == 6
MCIdents == {<<2>>, <<3>>, <<5>>, <<2, 3>>, <<3, 2>>, <<5, 5>>, <<3, 2, 5>>}

=============================================================================
