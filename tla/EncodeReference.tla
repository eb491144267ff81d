--------------------------- MODULE EncodeReference ---------------------------
(***************************************************************************)
(* What was encoded against what a reader of the message gets.  TLC only.  *)
(***************************************************************************)
EXTENDS Encoder

CONSTANT MaxDepth

M == INSTANCE Meaning

\* An object as NewT makes it: the defaults, and zero values.
New(s) == [f |-> StructDesc[s].init, u |-> <<>>]

RECURSIVE Readable(_, _), ReadableValue(_, _)

\* The object a reader can get: nil and empty are not told apart where something is
\* written for nil, and a field that is left out is as in a new object.
Readable(s, val) ==
    LET v(id) == GetAt(val.f, s, id)
        written == {id \in DOMAIN Fields(s) : ~Skipped(s, id, v(id))}
    IN  IF val = None THEN New(s)
        ELSE [f |-> [id \in written \cup DOMAIN New(s).f |->
                        IF id \in written THEN ReadableValue(Fields(s)[id].type, v(id))
                        ELSE New(s).f[id]],
              u |-> IF StructDesc[s].unknown THEN val.u ELSE <<>>]

ReadableValue(type, v) ==
    LET keys == {ReadableValue(type.k, k) : k \in DOMAIN v}
        old(key) == CHOOSE k \in DOMAIN v : ReadableValue(type.k, k) = key
    IN  IF type.t = "struct" THEN Readable(type.sd, v)
        ELSE IF IsFixed(type) THEN v
        ELSE IF v = None THEN <<>>
        ELSE CASE type.t = "map" -> [key \in keys |-> ReadableValue(type.v, v[old(key)])]
               [] type.t = "string" -> v
               [] OTHER -> [j \in DOMAIN v |-> ReadableValue(type.v, v[j])]

\* Decoded into a new object, the message of an object nobody changed gives the
\* object back, whichever append functions wrote it, in whatever order of map
\* entries: every value has the wire type its field's or element's type promises.
RoundTrip ==
    pc = "returned" /\ changes = 0 =>
        M!Meaning(obj.sd, out, New(obj.sd)) = M!Good(Readable(obj.sd, obj.val), Len(out) + 1)
=============================================================================
