-------------------------------- MODULE MCSpan --------------------------------
(***************************************************************************)
(* Two goroutines and two decoders with blocks of 8 bytes: the second or   *)
(* the third object starts a new block, an object of 8 bytes with an       *)
(* alignment of 4 needs a block of its own size, and blocks start at odd   *)
(* addresses so that every cut has to be aligned.                          *)
(***************************************************************************)
EXTENDS Span, TLC

CONSTANTS g1, g2, d1, d2

R(n, align, scan) == [n |-> n, align |-> align, scan |-> scan]

MCRequest == {R(1, 1, FALSE), R(4, 4, FALSE), R(8, 4, FALSE), R(4, 2, TRUE)}

MCGap == {1, 2}

MCSymmetry == Permutations({g1, g2}) \cup Permutations({d1, d2})
===============================================================================
