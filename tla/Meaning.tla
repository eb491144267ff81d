------------------------------- MODULE Meaning -------------------------------
(***************************************************************************)
(* What a Thrift message means for a struct: a recursive reading of the    *)
(* token sequence that knows no pools, no frames and no early length       *)
(* checks.  The decoder's answers are compared with it, and what it reads  *)
(* in the encoder's output with the object that was encoded.  TLC only.    *)
(***************************************************************************)
EXTENDS Wire

CONSTANTS
    Skip(_, _, _),  \* thrift.Binary.Skip(b[i:], wt): how many tokens it reads, 0 if it fails
    MaxDepth        \* how many nested types may be opened

\* A reading: whether the bytes are a value, the value, and the position after it.
Bad == [ok |-> FALSE, val |-> None, next |-> 0]
Good(val, next) == [ok |-> TRUE, val |-> val, next |-> next]

TokAt(m, p, kind) == p <= Len(m) /\ m[p].tok = kind

RECURSIVE ReadFields(_, _, _, _, _, _, _), ReadMap(_, _, _, _, _, _), ReadList(_, _, _, _, _, _)
RECURSIVE ReadValue(_, _, _, _, _)

\* A struct: all fields up to the stop, which is right if the required ones were there.
ReadFields(m, p, s, val, depth, got, unknown) ==
    LET id == m[p].id
        type == Fields(s)[id].type
        n == Skip(m, p + 1, m[p].wt)
        old == IF IsByValueStruct(type) /\ id \in DOMAIN val.f THEN val.f[id] ELSE Zero
        r == ReadValue(m, p + 1, type, old, IF Fields(s)[id].nocopy THEN 1 ELSE depth - 1)
    IN  IF TokAt(m, p, "stop")
        THEN IF Required(s) \subseteq got
             THEN Good(IF StructDesc[s].unknown /\ unknown # <<>>
                       THEN [val EXCEPT !.u = unknown] ELSE val, p + 1)
             ELSE Bad
        ELSE IF ~TokAt(m, p, "field") THEN Bad
        ELSE IF id \in DOMAIN Fields(s) /\ WT(type) = m[p].wt
        THEN IF r.ok
             THEN ReadFields(m, r.next, s, [val EXCEPT !.f = PutAt(@, id, r.val)], depth,
                             got \cup {id}, unknown)
             ELSE Bad
        ELSE IF n = 0 THEN Bad
        ELSE ReadFields(m, p + 1 + n, s, val, depth, got, unknown \o SubSeq(m, p, p + n))

ReadMap(m, p, type, n, val, depth) ==
    LET k == ReadValue(m, p, type.k, Zero, depth)
        v == ReadValue(m, k.next, type.v, Zero, depth)
    IN  IF n = 0 THEN Good(val, p)
        ELSE IF k.ok /\ v.ok THEN ReadMap(m, v.next, type, n - 1, PutAt(val, k.val, v.val), depth)
        ELSE Bad

ReadList(m, p, type, n, val, depth) ==
    LET v == ReadValue(m, p, type.v, Zero, depth)
    IN  IF n = 0 THEN Good(val, p)
        ELSE IF v.ok THEN ReadList(m, v.next, type, n - 1, Append(val, v.val), depth)
        ELSE Bad

\* A value, with depth counting the nested types that may still be opened.
ReadValue(m, p, type, val, depth) ==
    LET init == StructDesc[type.sd].init
        set == [id \in DOMAIN val.f \cup DOMAIN init |->
                   IF id \in DOMAIN init THEN init[id] ELSE val.f[id]]
    IN  IF IsFixed(type) THEN IF TokAt(m, p, "num") /\ m[p].w = FixedSize[type.t]
             THEN Good(IF type.t = "enum" THEN Int32(m[p].v) ELSE m[p].v, p + 1) ELSE Bad
        ELSE IF depth = 0 THEN Bad
        ELSE IF type.t = "string"
        THEN IF TokAt(m, p, "str") /\ m[p].n = Len(m[p].s) THEN Good(m[p].s, p + 1) ELSE Bad
        ELSE IF type.t = "map"
        THEN IF TokAt(m, p, "map") /\ m[p].kt = WT(type.k) /\ m[p].vt = WT(type.v) /\ m[p].n >= 0
             THEN ReadMap(m, p + 1, type, m[p].n, <<>>, depth - 1) ELSE Bad
        ELSE IF type.t \in {"list", "set"}
        THEN IF TokAt(m, p, "list") /\ m[p].et = WT(type.v) /\ m[p].n >= 0
             THEN ReadList(m, p + 1, type, m[p].n, <<>>, depth - 1) ELSE Bad
        ELSE IF depth = 1 THEN Bad
        ELSE ReadFields(m, p, type.sd, [val EXCEPT !.f = set], depth - 1, {}, <<>>)

Meaning(s, m, val) ==
    IF MaxDepth = 0 THEN Bad ELSE ReadFields(m, 1, s, val, MaxDepth, {}, <<>>)
=============================================================================
