-------------------------- MODULE MCDecoderByValue --------------------------
(***************************************************************************)
(* A map whose values are structs held by value: map[int32]Point.  Point   *)
(* has two optional fields; messages set both, one, or none of them.       *)
(***************************************************************************)
EXTENDS DecodeReference, MCDecoderBase, TLC

MCStructDesc == [
    Chart |-> [fields |-> 1 :> MCField(Map(Scalar("i32"), Struct("Point")), "default"),
               unknown |-> FALSE, init |-> <<>>],
    Point |-> [fields |-> 1 :> MCField(Scalar("i32"), "optional")
                       @@ 2 :> MCField(Scalar("i32"), "optional"),
               unknown |-> FALSE, init |-> <<>>]]

Entry(k, ids) ==
    <<Num(4, k)>> \o FlattenSeq([j \in 1..Len(ids) |-> <<Field("i32", ids[j]), Num(4, 9)>>])
        \o <<Stop>>

Entries(n) == <<Field("map", 1), MapHeader("i32", "struct", n)>>

MCMessage == [Chart |-> {
    Entries(1) \o Entry(1, <<1, 2>>) \o <<Stop>>,
    Entries(2) \o Entry(1, <<1>>) \o Entry(2, <<2>>) \o <<Stop>>}]
=============================================================================
