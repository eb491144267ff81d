---------------------------- MODULE MCEncoderBase ----------------------------
(***************************************************************************)
(* The values that objects are made of, by their types.                    *)
(***************************************************************************)
EXTENDS Encoder, MCDecoderBase, TLC

RECURSIVE TypesOf(_), TypedValues(_, _)

\* A type and the types it is made of.
TypesOf(type) ==
    {type} \cup CASE type.t \in {"list", "set"} -> TypesOf(type.v)
                 [] type.t = "map" -> TypesOf(type.k) \cup TypesOf(type.v)
                 [] type.t = "struct" -> {Pointer(type)}
                 [] OTHER -> {}

\* A value and the values it is made of, with their types.
TypedValues(type, v) ==
    {<<type, v>>} \cup
    CASE v = None -> {}
      [] type.t \in {"list", "set"} -> UNION {TypedValues(type.v, v[j]) : j \in DOMAIN v}
      [] type.t = "map" ->
           UNION {TypedValues(type.k, k) \cup TypedValues(type.v, v[k]) : k \in DOMAIN v}
      [] type.t = "struct" ->
           {<<Pointer(type), v>>} \cup
           UNION {TypedValues(Fields(type.sd)[id].type, GetAt(v.f, type.sd, id)) :
                     id \in DOMAIN Fields(type.sd)}
      [] OTHER -> {}

Types ==
    UNION {{Pointer(Struct(s))} \cup UNION {TypesOf(Fields(s)[id].type) : id \in DOMAIN Fields(s)} :
           s \in DOMAIN StructDesc}

\* The values in objects, which are given with their descriptors.
Typed(objects) == UNION {TypedValues(Pointer(Struct(o[1])), o[2]) : o \in objects}
ByType(typed) == [type \in Types |-> {p[2] : p \in {q \in typed : q[1] = type}}] @@ <<>>
=============================================================================
