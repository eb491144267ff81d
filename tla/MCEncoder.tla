------------------------------ MODULE MCEncoder ------------------------------
(***************************************************************************)
(* Objects to encode.  There is one struct for every pair of key and value *)
(* types of a map, with a list and a set of these types beside it; one     *)
(* with each way a field is left out, written as nil, or nested; and one   *)
(* of which the object is changed meanwhile: its two maps get and lose     *)
(* entries, its pointers become nil, its list is replaced.                 *)
(***************************************************************************)
EXTENDS EncodeReference, MCEncoderBase, TLC

Inner == [
    fields |-> 1 :> MCField(Scalar("string"), "default")
            @@ 2 :> MCField(Set(Scalar("i08")), "optional")
            @@ 3 :> MCField(Scalar("i16"), "optional"),
    unknown |-> TRUE, init |-> 3 :> 4]

Wide == [
    fields |-> 1 :> MCField(Scalar("i32"), "required")
            @@ 2 :> MCField(Map(Scalar("enum"), Scalar("string")), "default")
            @@ 3 :> MCField(Pointer(Struct(<<"Inner">>)), "optional")
            @@ 4 :> MCField(List(Pointer(Struct(<<"Inner">>))), "default")
            @@ 5 :> MCField(List(Scalar("bool")), "optional")
            @@ 6 :> MCField(Pointer(Scalar("i64")), "optional")
            @@ 7 :> MCField(Scalar("enum"), "optional")
            @@ 8 :> MCField(Scalar("string"), "optional")
            @@ 9 :> MCField(Binary, "optional")
            @@ 10 :> MCField(Binary, "default")
            @@ 11 :> MCField(Pointer(Struct(<<"Inner">>)), "default"),
    unknown |-> TRUE, init |-> 7 :> -1 @@ 8 :> <<"d">>]

\* What the fields of Wide may hold besides their zero value.
I(str, u) == [f |-> 1 :> str, u |-> u]
Unknown9 == <<Field("i32", 9), Num(4, 0)>>
Options ==
       1 :> {0, 5}
    @@ 2 :> {None, <<>>, -8 :> <<"a">>, -1 :> <<"a">> @@ 7 :> <<>>}
    @@ 3 :> {None, Zero, [f |-> 2 :> <<1>> @@ 3 :> 4, u |-> <<>>], I(<<"b">>, Unknown9)}
    @@ 4 :> {None, <<>>, <<None, I(<<>>, <<>>)>>}
    @@ 5 :> {None, <<>>, <<1, 0>>}
    @@ 6 :> {None, 0}
    @@ 7 :> {-1, 0, 7}
    @@ 8 :> {<<>>, <<"d">>, <<"e">>}
    @@ 9 :> {None, <<>>, <<"x">>}
    @@ 10 :> {None, <<>>, <<"x">>}
    @@ 11 :> {None, I(<<"c">>, <<>>)}

Full ==
    1 :> 5 @@ 2 :> (-1 :> <<"a">> @@ 7 :> <<>>) @@ 3 :> I(<<"b">>, Unknown9)
    @@ 4 :> <<None, I(<<>>, <<>>)>> @@ 5 :> <<1, 0>> @@ 6 :> 0 @@ 7 :> 7 @@ 8 :> <<"e">>
    @@ 9 :> <<"x">> @@ 10 :> <<"x">> @@ 11 :> I(<<"c">>, <<>>)

Wides ==
    {[f |-> PutAt(f, id, v), u |-> u] : f \in {<<>>, Full}, id \in {2, 3, 4}, v \in {None},
                                        u \in {<<>>, <<Field("bool", 40), Num(1, 1)>>}}
    \cup UNION {{[f |-> PutAt(f, id, v), u |-> <<>>] : v \in Options[id], f \in {<<>>, Full}} :
                id \in DOMAIN Options}

\* One type, and one value of it, for each ttype.
KeyKinds == DOMAIN FixedSize \cup {"string", "struct"}
OfKind(t) ==
    CASE t = "struct" -> Pointer(Struct(<<"Inner">>)) [] t = "list" -> List(Scalar("i16"))
      [] t = "set" -> Set(Scalar("enum")) [] t = "map" -> Map(Scalar("i08"), Scalar("double"))
      [] OTHER -> Scalar(t)
Sample(t) ==
    CASE t \in DOMAIN FixedSize -> IF t = "enum" THEN -2 ELSE 1
      [] t = "string" -> <<"a">> [] t = "struct" -> I(<<"k">>, <<>>)
      [] t = "list" -> <<3>> [] t = "set" -> <<-3>> [] t = "map" -> 6 :> 7

Pair(k, v) == [
    fields |-> 1 :> MCField(Map(OfKind(k), OfKind(v)), "default")
            @@ 2 :> MCField(List(OfKind(v)), "default")
            @@ 3 :> MCField(Set(OfKind(k)), "default")
            @@ 4 :> MCField(OfKind(v), "default"),
    unknown |-> FALSE, init |-> <<>>]
Paired(k, v) == 1 :> (Sample(k) :> Sample(v)) @@ 2 :> <<Sample(v), Sample(v)>> @@ 3 :> <<Sample(k)>>
                @@ 4 :> Sample(v)

\* The struct whose object is changed.
Shared == [
    fields |-> 1 :> MCField(Map(Scalar("i32"), Scalar("i64")), "default")
            @@ 2 :> MCField(Map(Scalar("string"), Pointer(Struct(<<"Flag">>))), "optional")
            @@ 3 :> MCField(Pointer(Struct(<<"Flag">>)), "optional")
            @@ 4 :> MCField(Pointer(Scalar("i64")), "optional")
            @@ 5 :> MCField(List(Scalar("string")), "default"),
    unknown |-> FALSE, init |-> <<>>]

Flag == [fields |-> 1 :> MCField(Scalar("bool"), "default"), unknown |-> FALSE, init |-> <<>>]

Set1 == [f |-> 1 :> 1, u |-> <<>>]
SharedFields == 1 :> (1 :> 10 @@ 2 :> 20) @@ 2 :> (<<"a">> :> Set1) @@ 3 :> Set1 @@ 4 :> 9
             @@ 5 :> <<<<>>, <<"b">>>>

\* The maps of the object get and lose some of these entries.
Entries1 == 1 :> 10 @@ 2 :> 20 @@ 3 :> 30
Entries2 == <<"a">> :> Set1 @@ <<"c">> :> None
Maps(from) == {[k \in keys |-> from[k]] : keys \in SUBSET DOMAIN from}

SharedChanges(o) ==
    LET with(id, vs) == {[o EXCEPT !.f[id] = v] : v \in vs}
    IN  with(1, Maps(Entries1) \ {o.f[1]}) \cup with(2, Maps(Entries2) \ {o.f[2]})
        \cup with(3, {None, Zero}) \cup with(4, {None}) \cup with(5, {None, <<<<"c">>>>})

MCChanges(object) == IF object.sd = <<"Shared">> THEN SharedChanges(object.val) ELSE {}

MCStructDesc ==
    [s \in {<<"Inner">>, <<"Wide">>, <<"Shared">>, <<"Flag">>} \cup (KeyKinds \X Kind) |->
        CASE s = <<"Inner">> -> Inner [] s = <<"Wide">> -> Wide [] s = <<"Shared">> -> Shared
          [] s = <<"Flag">> -> Flag [] OTHER -> Pair(s[1], s[2])]

MCOtherValue(s) == Zero

\* All that the object becomes, however often it is changed.
SharedValues ==
    [f : {1 :> m1 @@ 2 :> m2 @@ 3 :> s @@ 4 :> i @@ 5 :> l :
             m1 \in Maps(Entries1), m2 \in Maps(Entries2), s \in {None, Zero, Set1}, i \in {None, 9},
             l \in {None, SharedFields[5], <<<<"c">>>>}},
     u : {<<>>}]

MCObject ==
    [sd : {<<"Wide">>}, val : Wides, by : {"pointer"}]
    \cup [sd : {<<"Inner">>}, val : {None, Zero}, by : {"pointer"}]
    \cup [sd : {<<"Shared">>}, val : {[f |-> SharedFields, u |-> <<>>]}, by : {"pointer", "value"}]
    \cup {[sd |-> s, val |-> [f |-> Paired(s[1], s[2]), u |-> <<>>], by |-> "pointer"] :
            s \in KeyKinds \X Kind}
    \cup [sd : {<<"Wide">>}, val : {[f |-> Full, u |-> Unknown9]}, by : {"value"}]

MCTyped == Typed({<<o.sd, o.val>> : o \in MCObject} \cup ({<<"Shared">>} \X SharedValues))
MCValues == ByType(MCTyped)
MCValue == MCValues

\* The hypotheses under which an object is measured right hold of these objects.
ASSUME SizesDefined /\ PointersAsResolved /\ UnknownFieldsMeasured
=============================================================================
