--------------------------- MODULE MCDescriptorBase ---------------------------
(***************************************************************************)
(* Go types and tags for the instances of Descriptor.                      *)
(***************************************************************************)
EXTENDS Descriptor

Basic(k) == [kind |-> k, name |-> k, pkg |-> ""]
Named(k, n) == [kind |-> k, name |-> n, pkg |-> "base"]
Slice(e) == [kind |-> "slice", name |-> "", pkg |-> "", elem |-> e]
Map(k, e) == [kind |-> "map", name |-> "", pkg |-> "", key |-> k, elem |-> e]
Ptr(e) == [kind |-> "ptr", name |-> "", pkg |-> "", elem |-> e]

Str == Basic("string")
Bytes == Slice(Byte)
Color == Named("int64", "Color")
Item == Named("struct", "Item")
OtherItem == [Item EXCEPT !.pkg = "other"]
Anonymous == [kind |-> "struct", name |-> "", pkg |-> ""]

ListOf(text) == <<"list", "<">> \o text \o <<">">>
SetOf(text) == <<"set", "<">> \o text \o <<">">>
MapOf(k, v) == <<"map", "<">> \o k \o <<":">> \o v \o <<">">>

\* A frugal tag, a thrift tag, both, and fields without either or not public.
Frugal(go, parts) == [hidden |-> FALSE, frugal |-> parts, thrift |-> <<>>, go |-> go]
Thrift(go, parts) == [hidden |-> FALSE, frugal |-> <<>>, thrift |-> parts, go |-> go]
Both(go, parts, others) == [hidden |-> FALSE, frugal |-> parts, thrift |-> others, go |-> go]
Untagged(go) == Thrift(go, <<>>)
Hidden(go, parts) == [hidden |-> TRUE, frugal |-> parts, thrift |-> <<>>, go |-> go]

Dft(id, go, text) == Frugal(go, <<<<id>>, <<"default">>, text>>)
Req(id, go, text) == Frugal(go, <<<<id>>, <<"required">>, text>>)
Opt(id, go, text) == Frugal(go, <<<<id>>, <<"optional">>, text>>)
-----------------------------------------------------------------------------
\* The ids in decimal, one of them with a leading zero too.
MCNumeral == [t \in {ToString(n) : n \in Uint16} \cup {"03"} |->
                 CHOOSE n \in Uint16 : t = (IF t = "03" /\ n = 3 THEN t ELSE ToString(n))]

\* The Go types of declarations, with those they are made of, and how deep they nest.
RECURSIVE Within(_)
Within(go) ==
    {go} \cup (IF go.kind \in {"ptr", "slice", "map"} THEN Within(go.elem) ELSE {})
         \cup (IF go.kind = "map" THEN Within(go.key) ELSE {})

RECURSIVE Nesting(_)
Nesting(go) ==
    CASE go.kind = "map" -> 1 + Max({Nesting(go.key), Nesting(go.elem)})
      [] go.kind \in {"ptr", "slice"} -> 1 + Nesting(go.elem)
      [] OTHER -> 0

GoTypes(decl) == UNION {Within(decl[f].go) : f \in DOMAIN decl}
Depths(decl) == [go \in GoTypes(decl) |-> Nesting(go)]

\* What the texts of types in declarations are made of, but for punctuation: those
\* of the instances are the third part of a frugal tag.
Tokens(decl) ==
    UNION {ToSet(decl[f].frugal[3]) : f \in {f \in DOMAIN decl : Len(decl[f].frugal) >= 3}}
        \ {"<", ">", ":", "."}
=============================================================================
