-------------------------- MODULE MCDecoderHistory --------------------------
(***************************************************************************)
(* One goroutine decodes message after message, into new objects and over  *)
(* the one it got last.  Node is recursive in three ways, so the depth     *)
(* limit is reached in each; messages are also cut short after every       *)
(* token, and claim more elements or bytes than they have.                 *)
(***************************************************************************)
EXTENDS DecodeReference, MCDecoderBase, TLC

Node == [
    fields |-> 1 :> MCField(Scalar("i16"), "required")
            @@ 2 :> MCField(Pointer(Struct("Node")), "optional")
            @@ 3 :> MCField(List(Pointer(Struct("Node"))), "default")
            @@ 4 :> MCField(Map(Scalar("string"), Set(Scalar("i08"))), "default")
            @@ 6 :> MCNoCopy(Scalar("string"), "optional")
            @@ 7 :> MCField(Struct("Leaf"), "default")
            @@ 8 :> MCField(Pointer(Scalar("i64")), "optional"),
    unknown |-> TRUE, init |-> 6 :> <<"d">>]

\* A struct held by value; it shares no pool, and has a default.
Leaf == [
    fields |-> 2 :> MCField(Scalar("i08"), "optional") @@ 3 :> MCField(Scalar("bool"), "default"),
    unknown |-> FALSE, init |-> 3 :> 1]

MCStructDesc == [Node |-> Node, Leaf |-> Leaf]

F1 == <<Field("i16", 1), Num(2, 5)>>
F2(n) == <<Field("struct", 2)>> \o n
Kids(ns) == <<Field("list", 3), ListHeader("struct", Len(ns))>> \o FlattenSeq(ns)
F4(n) == <<Field("map", 4), MapHeader("string", "set", n)>>
Octets(s, n) == <<Str(s), ListHeader("i08", n)>> \o [j \in 1..n |-> Num(1, j)]
F8 == <<Field("i64", 8), Num(8, 7)>>
F6(n, s) == <<Field("string", 6), StrOf(n, s)>>
F7(body) == <<Field("struct", 7)>> \o body \o <<Stop>>
X == <<Field("i64", 1), Num(8, 0)>>
Y == <<Field("struct", 9), Field("bool", 1), Num(1, 1), Stop>>
End == <<Stop>>

Whole == F1 \o F4(1) \o Octets(<<"k">>, 2) \o F6(1, <<"s">>) \o End

MCMessage == [Node |->
    {SubSeq(Whole, 1, k) : k \in 0..Len(Whole)}
    \cup {
        \* nested as deep as allowed, and deeper, by pointer and in a list
        F1 \o F2(X \o F1 \o End) \o Y \o End,
        \* nothing but what is required; an error in the second element of a list, in
        \* the second entry of a map, and in the number behind a pointer
        F1 \o End,
        F1 \o Kids(<<F8 \o F1 \o End, F2(F1 \o End) \o End>>) \o End,
        F1 \o F4(2) \o Octets(<<"k">>, 2) \o Octets(<<>>, 1),
        F1 \o Y \o F2(F1 \o F2(End)),
        F1 \o F8 \o X \o <<Field("i64", 8)>>,
        F1 \o F2(F1 \o F2(F1 \o End) \o End) \o End,
        F1 \o Kids(<<F1 \o Y \o End, F1 \o End>>) \o End,
        Kids(<<Kids(<<F1 \o End>>) \o F1 \o End>>) \o F1 \o End,
        \* the wrong type, a negative count, a count too large, in a map, a list and a string
        F1 \o <<Field("list", 3), ListHeader("i08", 1), Num(1, 0)>> \o End,
        F1 \o <<Field("list", 3), ListHeader("struct", 2)>> \o End,
        F1 \o <<Field("map", 4), MapHeader("string", "set", -1)>> \o End,
        F1 \o <<Field("map", 4), MapHeader("string", "list", 0)>> \o End,
        F1 \o F4(2) \o Octets(<<>>, 0) \o End,
        F1 \o F6(9, <<"s">>) \o End,
        F1 \o F6(-1, <<>>) \o End,
        \* the struct held by value, twice in a message, and with a field missing
        F7(<<Field("i08", 2), Num(1, 3), Field("bool", 3), Num(1, 0)>>) \o F1 \o F7(<<>>) \o End,
        \* what the struct held by value does not know is skipped, and lost
        F1 \o F7(<<Field("i16", 1), Num(2, 1)>>) \o End,
        F1 \o F7(<<Field("bool", 3), Num(1, 0), Field("string", 9), StrOf(-1, <<>>)>>),
        Y \o X \o End}]
=============================================================================
