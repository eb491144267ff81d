----------------------------- MODULE MCDescriptor -----------------------------
(***************************************************************************)
(* Structs with up to two declarations, alone or one after the other, that *)
(* hold every form of type and tag, and a struct with six ids at the ends  *)
(* of the tables.                                                          *)
(***************************************************************************)
EXTENDS MCDescriptorBase

\* Types and tags that a struct is described by, whatever comes with it.
Wellformed == <<
    Dft("1", Int64, <<"i64">>), Opt("3", Int64, <<"i64">>), Dft("3", Color, <<"i64">>),
    Dft("1", Color, <<"base", ".", "Color">>), Opt("1", Ptr(Color), <<"Color">>),
    Req("3", Basic("int32"), <<>>), Opt("3", Basic("bool"), <<"bool">>),
    Dft("1", Named("int32", "Level"), <<"Level">>), Dft("3", Basic("int"), <<"i64">>),
    Req("1", Basic("int8"), <<"byte">>), Dft("3", Basic("float64"), <<"double">>),
    Dft("3", Basic("int16"), <<"i">>),
    Opt("1", Bytes, <<"binary">>), Frugal(Str, <<<<"3">>, <<"default">>, <<>>, <<"nocopy">>>>),
    Dft("1", Slice(Int64), ListOf(<<"i64">>)), Dft("3", Slice(Int64), SetOf(<<"i64">>)),
    Opt("3", Slice(Color), ListOf(<<"base", ".", "Color">>)), Dft("1", Slice(Color), ListOf(<<"i64">>)),
    Dft("1", Slice(Slice(Int64)), ListOf(SetOf(<<"i64">>))),
    Opt("3", Slice(Slice(Int64)), ListOf(ListOf(<<"i64">>))),
    Req("1", Ptr(Item), <<"base", ".", "Item">>), Dft("3", Ptr(OtherItem), <<"Item">>),
    Dft("1", Slice(Ptr(Item)), ListOf(<<"Item">>)), Dft("3", Slice(Ptr(OtherItem)), ListOf(<<"Item">>)),
    Dft("1", Item, <<"struct">>), Opt("3", Ptr(Anonymous), <<"Item">>),
    Dft("1", Map(Str, Int64), MapOf(<<"string">>, <<"i64">>)), Dft("3", Map(Str, Int64), <<>>),
    Opt("3", Map(Color, Slice(Bytes)), MapOf(<<"base", ".", "Color">>, ListOf(<<"binary">>))),
    Dft("1", Map(Ptr(Item), Ptr(OtherItem)), MapOf(<<"base", ".", "Item">>, <<"other", ".", "Item">>)),
    Thrift(Str, <<<<"Name">>, <<"1">>>>), Thrift(Int64, <<<<"Name">>, <<"3">>, <<"required">>>>),
    Both(Str, <<<<"1">>, <<"optional">>>>, <<<<"Name">>, <<"4">>>>), Untagged(Slice(Int64)),
    Hidden(Bytes, <<<<"1">>, <<"default">>>>), Opt("3", Ptr(Str), <<"string">>),
    Frugal(Slice(Ptr(Item)), <<<<"03">>, <<"default">>, SetOf(<<"Item">>)>>)
>>

\* Pointers that are not read as they are laid out, or panic.
Pointers == <<
    Opt("3", Ptr(Slice(Int64)), ListOf(<<"i64">>)), Opt("1", Ptr(Map(Str, Int64)), <<>>),
    Opt("3", Ptr(Bytes), <<>>), Dft("3", Ptr(Ptr(Int64)), <<"i64">>)
>>

\* The others, most of them in error.
Illformed == <<
    Thrift(Str, <<<<"Name">>>>), Frugal(Str, <<<<"x">>>>), Frugal(Str, <<<<"12">>, <<"default">>>>),
    Frugal(Str, <<<<"1">>, <<"maybe">>>>), Dft("1", Int64, <<"i32">>), Dft("3", Basic("int32"), <<"i64">>),
    Dft("1", Color, <<"Level">>), Dft("1", Color, <<"base", ".", ">">>), Dft("1", Color, <<"base", ".">>),
    Dft("1", Basic("uint8"), <<"byte">>), Dft("1", Int64, <<"<">>), Dft("1", Color, <<"base", ":">>),
    Dft("3", Slice(Int64), <<>>), Dft("3", Slice(Int64), <<"list">>), Dft("3", Slice(Int64), <<"i64">>),
    Dft("3", Slice(Int64), <<"list", "<", "i64">>), Dft("3", Slice(Int64), <<"set", ":">>),
    Dft("1", Slice(Basic("int32")), SetOf(<<"i64">>)), Opt("3", Slice(Ptr(Int64)), ListOf(<<"i64">>)),
    Dft("1", Ptr(Int64), <<"i64">>), Dft("1", Ptr(Slice(Int64)), ListOf(<<"i64">>)),
    Dft("1", Map(Item, Int64), <<>>), Dft("1", Map(Str, Ptr(Int64)), <<>>),
    Dft("1", Map(Str, Int64), <<"map", "<", "string", ">", "i64", ">">>),
    Dft("1", Map(Str, Int64), <<"map", "string">>), Dft("1", Map(Str, Int64), <<"map", "<", "string", ":", "i64">>),
    Frugal(Int64, <<<<"1">>, <<"default">>, <<"i64">>, <<"nocopy">>>>),
    Frugal(Str, <<<<"1">>, <<"default">>, <<>>, <<"nocopy">>, <<"nocopy">>>>),
    Frugal(Str, <<<<"1">>, <<"default">>, <<>>, <<"copy">>>>), Dft("3", Int64, <<"i64", ":">>),
    Dft("1", Color, <<"Color", ".", "Level">>), Dft("3", Color, <<"Color", "i64">>),
    Dft("1", Color, <<"Color", ">">>), Dft("3", Color, <<"map", ".", "Color", ".">>),
    Dft("1", [Map(Str, Int64) EXCEPT !.name = "Level"], <<"base", ".", "Level", "<", "string", ":", "i64", ">">>)
>>

\* Six ids at the ends of words and of the table, declared out of order.
Spread == <<Opt("4", Int64, <<>>), Dft("10", Str, <<>>), Req("0", Int64, <<>>),
            Dft("7", Basic("bool"), <<>>), Dft("1", Int64, <<>>), Opt("3", Str, <<>>)>>

MCDecl == Wellformed \o Pointers \o Illformed \o Spread
MCGoType == GoTypes(MCDecl)
MCDepth == Depths(MCDecl)
MCIdentifiers == Tokens(MCDecl)

Single == 1..(Len(Wellformed) + Len(Pointers) + 1)
Others == Len(Wellformed) + Len(Pointers) + 1 .. Len(MCDecl) - Len(Spread)

\* Any two fields, and a field in error beside one that has another id.
Pairs ==
    {p \in (DOMAIN Wellformed) \X (DOMAIN Wellformed) : p[1] <= p[2]} \cup Others \X {1, 2}

MCStructs ==
    [decls : {<<f>> : f \in Single}, init : {FALSE}]
        \cup [decls : {<<>>} \cup Pairs \cup {[i \in DOMAIN Spread |-> Len(MCDecl) - Len(Spread) + i]},
              init : {TRUE}]
=============================================================================
