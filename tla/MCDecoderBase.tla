---------------------------- MODULE MCDecoderBase ----------------------------
(***************************************************************************)
(* What the decoder's runs share: shorthands for fields and messages, and  *)
(* thrift.Binary.Skip.                                                     *)
(***************************************************************************)
EXTENDS Integers, Sequences

MCField(type, spec) == [type |-> type, spec |-> spec, nocopy |-> FALSE]
MCNoCopy(type, spec) == [type |-> type, spec |-> spec, nocopy |-> TRUE]

MCWidth(wt) ==
    CASE wt \in {"bool", "i08"} -> 1 [] wt = "i16" -> 2 [] wt = "i32" -> 4
      [] wt \in {"i64", "double"} -> 8 [] OTHER -> 0

\* How many tokens thrift.Binary.Skip reads for a value of wire type wt at m[p], or
\* 0 if it fails.
RECURSIVE MCSkip(_, _, _), MCSkipAll(_, _, _, _)
MCSkip(m, p, wt) ==
    IF p > Len(m) THEN 0
    ELSE IF MCWidth(wt) > 0 THEN IF m[p].tok = "num" THEN 1 ELSE 0
    ELSE IF wt = "string"
    THEN IF m[p].tok = "str" /\ m[p].n = Len(m[p].s) THEN 1 ELSE 0
    ELSE IF wt \in {"list", "set"}
    THEN IF m[p].tok = "list" /\ m[p].n >= 0
         THEN MCSkipAll(m, p + 1, 1, [j \in 1..m[p].n |-> m[p].et]) ELSE 0
    ELSE IF wt = "map"
    THEN IF m[p].tok = "map" /\ m[p].n >= 0
         THEN MCSkipAll(m, p + 1, 1, [j \in 1..(2 * m[p].n) |->
                  IF j % 2 = 1 THEN m[p].kt ELSE m[p].vt]) ELSE 0
    ELSE IF wt = "struct"
    THEN IF m[p].tok = "stop" THEN 1
         ELSE IF m[p].tok = "field"
         THEN LET n == MCSkip(m, p + 1, m[p].wt)
                  k == MCSkip(m, p + 1 + n, "struct")
              IN  IF n = 0 \/ k = 0 THEN 0 ELSE 1 + n + k
         ELSE 0
    ELSE 0

\* The values of the wire types wts at m[p], of which used - 1 tokens were read.
MCSkipAll(m, p, used, wts) ==
    IF wts = <<>> THEN used
    ELSE LET n == MCSkip(m, p, Head(wts))
         IN  IF n = 0 THEN 0 ELSE MCSkipAll(m, p + n, used + n, Tail(wts))
=============================================================================
