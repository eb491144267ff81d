------------------------------ MODULE MCDecoder ------------------------------
(***************************************************************************)
(* Two goroutines decode messages for two structs which share the bitsets  *)
(* (both have required fields, with ids in common) and the indexes of      *)
(* unknown fields, nested in each other through a pointer, a map and a     *)
(* list.  Messages are right, of another version, or lack something.       *)
(***************************************************************************)
EXTENDS DecodeReference, MCDecoderBase, TLC

Outer == [
    fields |-> 1 :> MCField(Scalar("i32"), "required")
            @@ 2 :> MCField(Map(Scalar("i32"), Pointer(Struct("Inner"))), "default")
            @@ 3 :> MCField(Pointer(Struct("Inner")), "optional")
            @@ 4 :> MCField(List(Scalar("string")), "default"),
    unknown |-> TRUE, init |-> <<>>]

Inner == [
    fields |-> 1 :> MCField(Scalar("string"), "required")
            @@ 2 :> MCField(Scalar("i32"), "required")
            @@ 5 :> MCField(Scalar("enum"), "optional"),
    unknown |-> TRUE, init |-> 5 :> 7]

MCStructDesc == [Outer |-> Outer, Inner |-> Inner]

A == <<"a">>
I1 == <<Field("string", 1), Str(A)>>
I2 == <<Field("i32", 2), Num(4, 6)>>
X == <<Field("string", 9), Str(<<>>)>>
End == <<Stop>>
O1 == <<Field("i32", 1), Num(4, 1)>>
Entries(n) == <<Field("map", 2), MapHeader("i32", "struct", n)>>
Entry(k) == <<Num(4, k)>>

MCMessage == [
    Outer |-> {
        \* two entries, one with an unknown field
        O1 \o Entries(2) \o Entry(1) \o I1 \o I2 \o End \o Entry(2) \o I2 \o X \o I1 \o End \o End,
        \* the entry lacks a field that the struct around it has
        O1 \o Entries(1) \o Entry(1) \o I1 \o End \o End,
        \* a nested struct has what the struct around it lacks
        <<Field("struct", 3)>> \o I1 \o I2 \o End \o X \o End,
        \* of another version: field 1 is a list now; then the field again, as it was
        <<Field("list", 1), ListHeader("i32", 2), Num(4, 0), Num(4, 0)>> \o O1 \o End,
        \* a count the message cannot hold, and one it only just can
        O1 \o <<Field("list", 4), ListHeader("string", 3), Str(A), Str(A)>> \o End,
        O1 \o <<Field("list", 4), ListHeader("string", 2), Str(<<>>), Str(A)>> \o End},
    Inner |-> {X \o I1 \o I2 \o End, I2 \o End, I1 \o <<Field("i32", 2)>>}]

\* Which of the pooled objects a goroutine gets makes no difference.
MCSymmetry == Permutations(Bitset) \cup Permutations(Unknown) \cup Permutations(Tmp)
=============================================================================
