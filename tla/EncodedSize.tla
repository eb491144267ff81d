----------------------------- MODULE EncodedSize -----------------------------
(***************************************************************************)
(* tType.EncodedSize and its helpers (internal/reflect/ttype.go), and what *)
(* fromDefsFields prepares for them (desc.go).                             *)
(***************************************************************************)
EXTENDS Wire

CONSTANTS
    Value,  \* Value[type]: the values of a Go type that objects are made of
    Wild    \* what following a word that is no pointer yields, if anything

\* A type is made of types that have values; a struct has a type behind a pointer.
ASSUME TypeAssumption ==
    /\ \A type \in DOMAIN Value :
          /\ type.t \in Kind
          /\ type.t = "struct" => type.sd \in DOMAIN StructDesc
          /\ type.t \in {"list", "set"} => type.v \in DOMAIN Value
          /\ type.t = "map" => {type.k, type.v} \subseteq DOMAIN Value
    /\ \A s \in DOMAIN StructDesc :
          /\ Pointer(Struct(s)) \in DOMAIN Value
          /\ IsFiniteSet(DOMAIN Fields(s))
          /\ \A id \in DOMAIN Fields(s) : id \in Nat /\ Fields(s)[id].type \in DOMAIN Value

\* A value is made of values of the types its type is made of, and only what may be nil is.
ASSUME ValueAssumption ==
    \A type \in DOMAIN Value : \A v \in Value[type] :
        IF v = None THEN type.ptr \/ ~IsFixed(type)
        ELSE /\ IsFixed(type) => v \in Int
             /\ type.t = "string" => v \in Seq(STRING)
             /\ type.t \in {"list", "set"} => v \in Seq(Value[type.v])
             /\ type.t = "map" =>
                   /\ IsFiniteSet(DOMAIN v) /\ DOMAIN v \subseteq Value[type.k]
                   /\ v \in [DOMAIN v -> Value[type.v]]
             /\ type.t = "struct" =>
                   /\ v \in Value[Pointer(Struct(type.sd))]
                   /\ \A id \in DOMAIN Fields(type.sd) :
                         GetAt(v.f, type.sd, id) \in Value[Fields(type.sd)[id].type]

\* Faulty variant: the size of optional fields is taken as fixed.
FieldSizeAlways(s, id) ==
    LET field == Fields(s)[id]
    IN  IF field.type.ptr \/ ~IsFixed(field.type) THEN -1
        ELSE FieldHeaderLen + FixedSize[field.type.t]

\* tField.EncodedSize: -1 if it depends on the value.
FieldSize(s, id) ==
    LET field == Fields(s)[id]
    IN  IF field.type.ptr \/ field.spec = "optional" \/ ~IsFixed(field.type) THEN -1
        ELSE FieldHeaderLen + FixedSize[field.type.t]

FixedLen(s) == {id \in DOMAIN Fields(s) : FieldSize(s, id) > 0}
VarLen(s) == DOMAIN Fields(s) \ FixedLen(s)
FixedLenFieldSize(s) == SumFunctionOnSet([id \in FixedLen(s) |-> FieldSize(s, id)], FixedLen(s))

StringSize(v) == StrHeaderLen + IF v = None THEN 0 ELSE Len(v)

\* What a field takes.  The size of a value of a type is size[type][value].
FieldLen(size, s, id, v) ==
    IF Skipped(s, id, v) THEN 0 ELSE FieldHeaderLen + size[Fields(s)[id].type][v]

\* EncodedSize of a struct, by its pointer.
StructSize(size, s, val) ==
    IF val = None THEN 1
    ELSE FixedLenFieldSize(s)
         + SumFunctionOnSet(
              [id \in VarLen(s) |-> FieldLen(size, s, id, GetAt(val.f, s, id))], VarLen(s))
         + (IF StructDesc[s].unknown THEN Bytes(val.u, 1) ELSE 0)
         + 1

\* EncodedSizeFunc is given the address of the value.  A struct is always taken to be
\* behind a pointer there, so of one held by value the first word is followed.
EncodedStructSize(size, type, v) ==
    IF type.ptr THEN StructSize(size, type.sd, v)
    ELSE IF GetAt(v.f, type.sd, StructDesc[type.sd].first) = None THEN 1 ELSE Wild

EncodedMapSize(size, type, v) ==
    IF v = None THEN MapHeaderLen
    ELSE MapHeaderLen
         + SumFunctionOnSet([k \in DOMAIN v |-> size[type.k][k] + size[type.v][v[k]]], DOMAIN v)

EncodedListSize(size, type, v) ==
    IF v = None THEN ListHeaderLen
    ELSE ListHeaderLen + SumFunctionOnSet([j \in DOMAIN v |-> size[type.v][v[j]]], DOMAIN v)

SizeBy(size, type, v) ==
    CASE IsFixed(type) -> FixedSize[type.t]
      [] type.t = "string" -> StringSize(v)
      [] type.t = "struct" -> EncodedStructSize(size, type, v)
      [] type.t = "map" -> EncodedMapSize(size, type, v)
      [] OTHER -> EncodedListSize(size, type, v)

\* The recursion.
ValueSize[type \in DOMAIN Value] == [v \in Value[type] |-> SizeBy(ValueSize, type, v)]

EncodedSize(object) == StructSize(ValueSize, object.sd, object.val)
-----------------------------------------------------------------------------
\* What measuring an object relies on.

\* Values are well-founded, so that EncodedSize comes to an end: its recursion defines a
\* number for each of them.
SizesDefined ==
    /\ ValueSize = [type \in DOMAIN Value |-> [v \in Value[type] |-> SizeBy(ValueSize, type, v)]]
    /\ \A type \in DOMAIN Value : \A v \in Value[type] : ValueSize[type][v] \in Nat

IsSimple(type) == IsFixed(type) \/ type.t = "string"

\* Structs are behind pointers; of scalars and strings only optional fields may be pointers
\* (resolver.go, types.go).
PointersAsResolved ==
    /\ \A type \in DOMAIN Value :
          /\ type.t = "struct" => type.ptr
          /\ type.t \in {"list", "set"} /\ IsSimple(type.v) => ~type.v.ptr
          /\ type.t = "map" => \A e \in {type.k, type.v} : IsSimple(e) => ~e.ptr
    /\ \A s \in DOMAIN StructDesc : \A id \in DOMAIN Fields(s) :
          IsSimple(Fields(s)[id].type) /\ Fields(s)[id].type.ptr => Fields(s)[id].spec = "optional"

\* The unknown fields kept are written as they are, so it is known how long they are.
UnknownFieldsMeasured ==
    \A s \in DOMAIN StructDesc : \A v \in Value[Pointer(Struct(s))] \ {None} :
        StructDesc[s].unknown =>
            v.u \in Seq({v.u[j] : j \in DOMAIN v.u}) /\ \A j \in DOMAIN v.u : Width(v.u[j]) \in Nat
=============================================================================
