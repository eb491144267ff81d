-------------------------------- MODULE Wire --------------------------------
(***************************************************************************)
(* What encoder and decoder share (internal/reflect/ttype.go, desc.go):    *)
(* the types a descriptor has, Go values of these types, and the Thrift    *)
(* binary encoding as a sequence of tokens.  A token stands for the bytes  *)
(* one read or one append handles; its width is their number.              *)
(***************************************************************************)
EXTENDS Integers, Sequences, FiniteSetsExt

CONSTANTS
    StructDesc,  \* StructDesc[s].fields[id]: type, spec (Requiredness) and nocopy;
                 \* .unknown: hasUnknownFields; .init: the fields InitDefault sets,
                 \* none if the struct has no InitDefault
    Half32,      \* an int32 is in -Half32..Half32-1 (2^31 in the code)
    None         \* no pointer, map, list, bitset ...

ASSUME Half32Assumption == Half32 \in Nat \ {0}

\* ttype, without the aliases: "enum" is internal and an i32 on the wire.
FixedSize ==
    [t \in {"bool", "i08", "i16", "i32", "i64", "double", "enum"} |->
        CASE t \in {"bool", "i08"} -> 1
          [] t = "i16" -> 2
          [] t \in {"i32", "enum"} -> 4
          [] OTHER -> 8]

Kind == DOMAIN FixedSize \cup {"string", "struct", "map", "list", "set"}

\* tType: IsPointer, the types of keys and of elements, the struct Sd describes.
Scalar(t) == [t |-> t, ptr |-> FALSE]
Binary == [t |-> "string", ptr |-> FALSE, bin |-> TRUE]
Pointer(type) == [type EXCEPT !.ptr = TRUE]
Struct(s) == [t |-> "struct", ptr |-> FALSE, sd |-> s]
List(e) == [t |-> "list", ptr |-> FALSE, v |-> e]
Set(e) == [t |-> "set", ptr |-> FALSE, v |-> e]
Map(k, v) == [t |-> "map", ptr |-> FALSE, k |-> k, v |-> v]

IsFixed(type) == type.t \in DOMAIN FixedSize
IsContainer(type) == type.t \in {"map", "list", "set"}
IsByValueStruct(type) == type.t = "struct" /\ ~type.ptr

WT(type) == IF type.t = "enum" THEN "i32" ELSE type.t

\* The least number of bytes a value of a wire type takes.
MinWireSize ==
    [t \in Kind \ {"enum"} |->
        CASE t = "string" -> 4 [] t = "struct" -> 1
          [] t = "map" -> 6 [] t \in {"list", "set"} -> 5 [] OTHER -> FixedSize[t]]

\* int64(int32(uint32(v))): what is left of an enum, an int64, after 32 bits on the wire.
Int32(v) == ((v + Half32) % (2 * Half32)) - Half32

FieldHeaderLen == 3
MapHeaderLen == 6
ListHeaderLen == 5
StrHeaderLen == 4

\* Tokens.  A length is what the header claims, right or wrong.
Stop == [tok |-> "stop"]
Field(wt, id) == [tok |-> "field", wt |-> wt, id |-> id]
Num(w, v) == [tok |-> "num", w |-> w, v |-> v]
StrOf(n, s) == [tok |-> "str", n |-> n, s |-> s]
Str(s) == StrOf(Len(s), s)
MapHeader(kt, vt, n) == [tok |-> "map", kt |-> kt, vt |-> vt, n |-> n]
ListHeader(et, n) == [tok |-> "list", et |-> et, n |-> n]

Width(tok) ==
    CASE tok.tok = "stop" -> 1
      [] tok.tok = "field" -> FieldHeaderLen
      [] tok.tok = "num" -> tok.w
      [] tok.tok = "str" -> StrHeaderLen + Len(tok.s)
      [] tok.tok = "map" -> MapHeaderLen
      [] tok.tok = "list" -> ListHeaderLen

\* len(b[i:]) in bytes.
Bytes(b, i) == SumFunctionOnSet([j \in DOMAIN b |-> Width(b[j])], i..Len(b))

Fields(s) == StructDesc[s].fields
Required(s) == {id \in DOMAIN Fields(s) : Fields(s)[id].spec = "required"}

\* A Go struct: the fields that were set, by id, and the bytes of _unknownFields.
\* A field that is not in the domain has its zero value.
Zero == [f |-> <<>>, u |-> <<>>]

ZeroOf(type) ==
    IF type.ptr \/ IsContainer(type) \/ "bin" \in DOMAIN type THEN None
    ELSE IF IsFixed(type) THEN 0
    ELSE IF type.t = "string" THEN <<>> ELSE Zero

GetAt(f, s, id) == IF id \in DOMAIN f THEN f[id] ELSE ZeroOf(Fields(s)[id].type)

\* fromDefsField.  The default of a field is what InitDefault leaves in it; a struct
\* without InitDefault has none.  An InitDefault that sets nothing, which gives the
\* struct defaults as well, is one that sets a field to its zero value here.
HasDefaults(s) == StructDesc[s].init # <<>>
Default(s, id) == GetAt(StructDesc[s].init, s, id)

CanSkipEncodeIfNil(s, id) ==
    LET field == Fields(s)[id]
    IN  /\ field.spec = "optional"
        /\ field.type.ptr \/ IsContainer(field.type) \/ "bin" \in DOMAIN field.type

CanSkipIfDefault(s, id) ==
    /\ Fields(s)[id].spec = "optional"
    /\ ~Fields(s)[id].type.ptr
    /\ HasDefaults(s)

\* tType.Equal: never true of a container or a struct.  A nil []byte is an empty string.
EqualDefault(s, id, v) ==
    LET type == Fields(s)[id].type
        str(x) == IF x = None THEN <<>> ELSE x
    IN  \/ IsFixed(type) /\ v = Default(s, id)
        \/ type.t = "string" /\ str(v) = str(Default(s, id))

\* The two tests before a field is written, and before its size is counted.
Skipped(s, id, v) ==
    \/ CanSkipEncodeIfNil(s, id) /\ v = None
    \/ CanSkipIfDefault(s, id) /\ EqualDefault(s, id, v)

PutAt(f, x, v) == [y \in DOMAIN f \cup {x} |-> IF y = x THEN v ELSE f[y]]
=============================================================================
