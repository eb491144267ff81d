---------------------------- MODULE MeasureProofs ----------------------------
(***************************************************************************)
(* Encoder: of an object that is left alone as many bytes are written as   *)
(* EncodedSize measures.  What is written and what the frames on the stack *)
(* still owe is the size, at every moment.                                 *)
(***************************************************************************)
EXTENDS EncoderProofs

\* An output of which it is known how long it is.
Measurable(b) == IsSeq(b) /\ \A j \in 1..Len(b) : Width(b[j]) \in Nat

-----------------------------------------------------------------------------
\* What a frame still has to write, if val is the object.
FieldLens(s, f) == [id \in DOMAIN Fields(s) |-> FieldLen(ValueSize, s, id, GetAt(f, s, id))]
UnknownLen(s, v) == IF StructDesc[s].unknown THEN Bytes(v.u, 1) ELSE 0
StructOwed(s, v, ids) == SumFunctionOnSet(FieldLens(s, v.f), ids) + UnknownLen(s, v) + 1

ElementLens(type, todo) == [j \in DOMAIN todo |-> ValueSize[type][todo[j]]]
ListOwed(type, todo) == SumFunctionOnSet(ElementLens(type, todo), DOMAIN todo)

EntryLens(type, v) == [k \in DOMAIN v |-> ValueSize[type.k][k] + ValueSize[type.v][v[k]]]
EntryOwed(frame) ==
    CASE frame.at = "key" -> ValueSize[frame.type.k][frame.k] + ValueSize[frame.type.v][frame.v]
      [] frame.at = "value" -> ValueSize[frame.type.v][frame.v]
      [] OTHER -> 0
MapOwed(frame) ==
    SumFunctionOnSet(EntryLens(frame.type, frame.val), DOMAIN frame.val \ frame.seen) + EntryOwed(frame)

Owed(val, frame) ==
    CASE frame.kind = "struct" -> StructOwed(frame.sd, IF frame.live THEN val ELSE frame.val, frame.todo)
      [] frame.kind = "list" -> ListOwed(frame.v, frame.todo)
      [] OTHER -> MapOwed(frame)

Owe(val, s) == SumFunctionOnSet([k \in 1..Len(s) |-> Owed(val, s[k])], 1..Len(s))

\* Nothing is added to a map and nothing removed, and no list has pointers to scalars.
Steady(val, frame) ==
    /\ frame.kind = "map" =>
          /\ frame.id # None => frame.val = val.f[frame.id]
          /\ frame.seen \subseteq DOMAIN frame.val
          /\ frame.n = Cardinality(DOMAIN frame.val \ frame.seen)
          /\ IF frame.at = "start" THEN frame.seen = {} ELSE frame.due = DOMAIN frame.val
    /\ frame.kind = "list" => ~(IsSimple(frame.v) /\ frame.v.ptr)

AllSteady(val, s) == \A k \in 1..Len(s) : Steady(val, s[k])

\* The field that is next in a struct.
NextValue(val, frame) == GetAt((IF frame.live THEN val ELSE frame.val).f, frame.sd, NextId(frame))

\* The header of the field being written is out.
HeaderOut == IF pc = "write" /\ Top.kind = "struct" THEN FieldHeaderLen ELSE 0

Balance ==
    /\ AllSteady(obj.val, stack)
    /\ Bytes(out, 1) + Owe(obj.val, stack) = size + HeaderOut
    /\ pc = "write" /\ Top.kind = "struct" => ~Skipped(Top.sd, NextId(Top), NextValue(obj.val, Top))

Exact ==
    changes = 0 =>
        /\ Measurable(out)
        /\ pc \in {"idle", "measured"} => out = <<>>
        /\ pc = "measured" => size = EncodedSize(obj)
        /\ pc \in {"next", "write"} => Balance
        /\ pc \notin {"failed", "panic"}
        /\ pc \in {"end", "returned"} => Bytes(out, 1) = size
        /\ pc = "returned" => res = "ok"

-----------------------------------------------------------------------------
(***************************************************************************)
(* Bytes.                                                                  *)
(***************************************************************************)
Widths(b) == [j \in DOMAIN b |-> Width(b[j])]

LEMMA WidthsCounted ==
    ASSUME NEW b, Measurable(b)
    PROVE  /\ Len(b) \in Nat /\ DOMAIN b = 1..Len(b)
           /\ Counted(Widths(b), 1..Len(b)) /\ IsFiniteSet(1..Len(b))
           /\ Bytes(b, 1) = SumFunctionOnSet(Widths(b), 1..Len(b)) /\ Bytes(b, 1) \in Nat
<1>1. Len(b) \in Nat /\ DOMAIN b = 1..Len(b)
  BY LenProperties DEF Measurable, IsSeq
<1>2. Counted(Widths(b), 1..Len(b))
  BY <1>1 DEF Counted, Widths, Measurable
<1>3. IsFiniteSet(1..Len(b))
  <2>1. 1 \in Int /\ Len(b) \in Int
    BY <1>1
  <2> QED
    BY <2>1, FS_Interval, Zenon
<1>4. Bytes(b, 1) = SumFunctionOnSet(Widths(b), 1..Len(b))
  BY DEF Bytes, Widths
<1>5. SumFunctionOnSet(Widths(b), 1..Len(b)) \in Nat
  BY <1>2, <1>3, SumTyped, Zenon
<1> QED
  BY <1>1, <1>2, <1>3, <1>4, <1>5

LEMMA KeptMeasurable ==
    ASSUME UnknownFieldsMeasured, NEW s \in DOMAIN StructDesc, StructDesc[s].unknown,
           NEW v \in Value[Pointer(Struct(s))] \ {None}
    PROVE  Measurable(v.u)
BY LenProperties DEF UnknownFieldsMeasured, Measurable, IsSeq, Range

LEMMA BytesNone == Measurable(<<>>) /\ Bytes(<<>>, 1) = 0
<1>1. Measurable(<<>>)
  BY EmptySeq DEF Measurable, IsSeq
<1>2. Bytes(<<>>, 1) = SumFunctionOnSet(Widths(<<>>), 1..0)
  BY <1>1, WidthsCounted, EmptySeq
<1>3. 1..0 = {}
  OBVIOUS
<1> QED
  BY <1>1, <1>2, <1>3, SumNone

LEMMA BytesOne ==
    ASSUME NEW t, Width(t) \in Nat
    PROVE  Measurable(<<t>>) /\ Bytes(<<t>>, 1) = Width(t)
<1>1. IsSeq(<<t>>)
  <2>1. <<t>> \in Seq({t})
    BY SingleSeq
  <2> QED
    BY <2>1, InSeq
<1>2. Len(<<t>>) = 1 /\ <<t>>[1] = t /\ DOMAIN <<t>> = {1}
  OBVIOUS
<1>3. Measurable(<<t>>)
  <2> SUFFICES ASSUME NEW j \in 1..Len(<<t>>) PROVE Width(<<t>>[j]) \in Nat
    BY <1>1 DEF Measurable
  <2>1. j = 1
    BY <1>2
  <2> QED
    BY <1>2, <2>1, Zenon
<1> DEFINE w == Widths(<<t>>)
<1>4. w[1] = Width(t)
  BY <1>2, Zenon DEF Widths
<1>5. Counted(w, 1..1) /\ Bytes(<<t>>, 1) = SumFunctionOnSet(w, 1..1)
  BY <1>2, <1>3, WidthsCounted, Zenon
<1> HIDE DEF w
<1>6. SumFunctionOnSet(w, 1..(0 + 1)) = SumFunctionOnSet(w, 1..0) + w[0 + 1]
  <2>1. 0 + 1 = 1 /\ 1 \in Int /\ 0 \in Int /\ 1 <= 0 + 1
    OBVIOUS
  <2>2. Counted(w, 1..(0 + 1))
    BY <1>5, <2>1, Zenon
  <2> QED
    BY <2>1, <2>2, SumRow, Zenon
<1>7. 0 + 1 = 1 /\ 1..0 = {} /\ 0 + Width(t) = Width(t)
  OBVIOUS
<1>8. SumFunctionOnSet(w, {}) = 0
  BY SumNone
<1>9. SumFunctionOnSet(w, 1..1) = 0 + Width(t)
  BY <1>4, <1>6, <1>7, <1>8, Zenon
<1> QED
  BY <1>3, <1>5, <1>7, <1>9, Zenon

LEMMA BytesCat ==
    ASSUME NEW b, Measurable(b), NEW c, Measurable(c)
    PROVE  Measurable(b \o c) /\ Bytes(b \o c, 1) = Bytes(b, 1) + Bytes(c, 1)
<1> DEFINE m == Len(b)
           n == Len(c)
           S == Range(b) \cup Range(c)
           d == b \o c
<1>1. b \in Seq(S) /\ c \in Seq(S)
  BY SeqMonotonic DEF Measurable, IsSeq
<1> HIDE DEF S
<1>2. /\ m \in Nat /\ n \in Nat
      /\ d \in Seq(S) /\ Len(d) = m + n
      /\ \A j \in 1..(m + n) : d[j] = IF j <= m THEN b[j] ELSE c[j - m]
  BY <1>1, ConcatProperties, LenProperties
<1> HIDE DEF d, m, n
<1>3. \A j \in 1..m : j \in 1..(m + n) /\ j <= m /\ d[j] = b[j]
  BY <1>2
<1>4. \A j \in 1..n : m + j \in 1..(m + n) /\ d[m + j] = c[j]
  <2> TAKE j \in 1..n
  <2>1. m + j \in 1..(m + n) /\ ~(m + j <= m) /\ (m + j) - m = j
    BY <1>2
  <2> QED
    BY <1>2, <2>1
<1>5. Measurable(d)
  <2>1. IsSeq(d)
    BY <1>2, InSeq
  <2>2. ASSUME NEW j \in 1..(m + n) PROVE Width(d[j]) \in Nat
    <3>1. CASE j <= m
      <4>1. j \in 1..m /\ d[j] = b[j]
        BY <1>2, <3>1
      <4>2. Width(b[j]) \in Nat
        BY <4>1 DEF Measurable, m
      <4> QED
        BY <4>1, <4>2, Zenon
    <3>2. CASE ~(j <= m)
      <4>1. j - m \in 1..n /\ d[j] = c[j - m]
        BY <1>2, <3>2
      <4>2. Width(c[j - m]) \in Nat
        BY <4>1 DEF Measurable, n
      <4> QED
        BY <4>1, <4>2, Zenon
    <3> QED
      BY <3>1, <3>2
  <2> QED
    BY <1>2, <2>1, <2>2 DEF Measurable
<1> DEFINE w == Widths(d)
           v == Widths(b)
           u == Widths(c)
<1>6. /\ DOMAIN d = 1..(m + n) /\ Counted(w, 1..(m + n)) /\ Bytes(d, 1) = SumFunctionOnSet(w, 1..(m + n))
      /\ DOMAIN b = 1..m /\ Counted(v, 1..m) /\ Bytes(b, 1) = SumFunctionOnSet(v, 1..m) /\ IsFiniteSet(1..m)
      /\ DOMAIN c = 1..n /\ Counted(u, 1..n) /\ Bytes(c, 1) = SumFunctionOnSet(u, 1..n)
  BY <1>2, <1>5, WidthsCounted, Zenon DEF m, n
<1>7. \A j \in 1..m : w[j] = v[j]
  BY <1>3, <1>6, Zenon DEF Widths
<1>8. \A j \in 1..n : w[m + j] = u[j]
  BY <1>4, <1>6, Zenon DEF Widths
<1> HIDE DEF u, v, w
<1>9. SumFunctionOnSet(w, 1..m) = SumFunctionOnSet(v, 1..m)
  BY <1>6, <1>7, SumSame, Zenon
<1>10. SumFunctionOnSet(w, (m + 1)..(m + n)) = SumFunctionOnSet(u, 1..n)
  <2>1. m \in Nat /\ n \in Nat
    BY <1>2
  <2>2. Counted(u, 1..n)
    BY <1>6
  <2> QED
    BY <1>8, <2>1, <2>2, SumShift, Zenon
<1>11. SumFunctionOnSet(w, 1..(m + n)) = SumFunctionOnSet(w, 1..m) + SumFunctionOnSet(w, (m + 1)..(m + n))
  <2> DEFINE A == 1..m
             B == (m + 1)..(m + n)
             C == 1..(m + n)
  <2>1. C = A \cup B /\ A \cap B = {}
    BY <1>2
  <2>2. IsFiniteSet(A) /\ IsFiniteSet(B) /\ Counted(w, C)
    <3>1. m + 1 \in Int /\ m + n \in Int
      BY <1>2
    <3>2. IsFiniteSet(B)
      BY <3>1, FS_Interval, Zenon
    <3> QED
      BY <1>6, <3>2, Zenon
  <2>3. \A S1, T1, U1 : /\ IsFiniteSet(S1) /\ IsFiniteSet(T1) /\ S1 \cap T1 = {} /\ U1 = S1 \cup T1
                        /\ Counted(w, U1)
                        => SumFunctionOnSet(w, U1) = SumFunctionOnSet(w, S1) + SumFunctionOnSet(w, T1)
    BY SumUnion
  <2> HIDE DEF A, B, C
  <2>4. SumFunctionOnSet(w, C) = SumFunctionOnSet(w, A) + SumFunctionOnSet(w, B)
    BY <2>1, <2>2, <2>3, Zenon
  <2> QED
    BY <2>4 DEF A, B, C
<1> QED
  BY <1>5, <1>6, <1>9, <1>10, <1>11, Zenon DEF d

-----------------------------------------------------------------------------
(***************************************************************************)
(* What the frames owe.                                                    *)
(***************************************************************************)
Owing(val, s) == [k \in 1..Len(s) |-> Owed(val, s[k])]
AllOwe(val, s) == \A k \in 1..Len(s) : Owed(val, s[k]) \in Nat

LEMMA OweTyped ==
    ASSUME NEW val, NEW s, IsSeq(s), AllOwe(val, s)
    PROVE  Owe(val, s) \in Nat /\ Len(s) \in Nat /\ IsFiniteSet(1..Len(s)) /\ Counted(Owing(val, s), 1..Len(s))
<1>1. Len(s) \in Nat /\ Counted(Owing(val, s), 1..Len(s))
  BY LenProperties DEF IsSeq, Counted, Owing, AllOwe
<1>2. IsFiniteSet(1..Len(s))
  <2>1. 1 \in Int /\ Len(s) \in Int
    BY <1>1
  <2> QED
    BY <2>1, FS_Interval, Zenon
<1>3. Owe(val, s) = SumFunctionOnSet(Owing(val, s), 1..Len(s))
  BY DEF Owe, Owing
<1>4. SumFunctionOnSet(Owing(val, s), 1..Len(s)) \in Nat
  BY <1>1, <1>2, SumTyped, Zenon
<1> QED
  BY <1>1, <1>2, <1>3, <1>4

LEMMA OweNone == ASSUME NEW val PROVE Owe(val, <<>>) = 0 /\ AllOwe(val, <<>>)
<1>1. 1..Len(<<>>) = {}
  OBVIOUS
<1> QED
  BY <1>1, SumNone DEF Owe, AllOwe

LEMMA OwePush ==
    ASSUME NEW val, NEW s, IsSeq(s), AllOwe(val, s), NEW f, Owed(val, f) \in Nat
    PROVE  AllOwe(val, Append(s, f)) /\ Owe(val, Append(s, f)) = Owe(val, s) + Owed(val, f)
<1> DEFINE n == Len(s)
           t == Append(s, f)
<1>1. n \in Nat /\ IsSeq(t) /\ Len(t) = n + 1 /\ t[n + 1] = f /\ \A k \in 1..n : t[k] = s[k]
  BY PushSeq, OweTyped
<1> HIDE DEF t
<1>2. AllOwe(val, t)
  <2> SUFFICES ASSUME NEW k \in 1..(n + 1) PROVE Owed(val, t[k]) \in Nat
    BY <1>1 DEF AllOwe
  <2>1. k = n + 1 \/ k \in 1..n
    BY <1>1
  <2> QED
    BY <1>1, <2>1 DEF AllOwe
<1> DEFINE w == Owing(val, t)
           u == Owing(val, s)
<1>3. /\ Owe(val, t) = SumFunctionOnSet(w, 1..(n + 1)) /\ Counted(w, 1..(n + 1))
      /\ Owe(val, s) = SumFunctionOnSet(u, 1..n) /\ Counted(u, 1..n) /\ IsFiniteSet(1..n)
  BY <1>1, <1>2, OweTyped, Zenon DEF Owe, Owing
<1>4. /\ 1 \in Int /\ n \in Int /\ 1 <= n + 1 /\ n + 1 \in 1..(n + 1)
      /\ \A k \in 1..n : k \in 1..(n + 1)
  BY <1>1
<1>5. w[n + 1] = Owed(val, f) /\ \A k \in 1..n : w[k] = u[k]
  BY <1>1, <1>4, Zenon DEF Owing
<1> HIDE DEF w, u, n
<1>6. SumFunctionOnSet(w, 1..(n + 1)) = SumFunctionOnSet(w, 1..n) + w[n + 1]
  BY <1>3, <1>4, SumRow, Zenon
<1>7. SumFunctionOnSet(w, 1..n) = SumFunctionOnSet(u, 1..n)
  BY <1>3, <1>5, SumSame, Zenon
<1> QED
  BY <1>2, <1>3, <1>5, <1>6, <1>7, Zenon DEF t

LEMMA OwePop ==
    ASSUME NEW val, NEW s, IsSeq(s), s # <<>>, AllOwe(val, s)
    PROVE  LET r == SubSeq(s, 1, Len(s) - 1)
           IN  AllOwe(val, r) /\ Owe(val, s) = Owe(val, r) + Owed(val, s[Len(s)]) /\ Owed(val, s[Len(s)]) \in Nat
<1> DEFINE r == SubSeq(s, 1, Len(s) - 1)
           n == Len(s)
<1>1. n \in Nat \ {0} /\ IsSeq(r) /\ Len(r) = n - 1 /\ \A k \in 1..(n - 1) : r[k] = s[k]
  BY PopSeq
<1> HIDE DEF r
<1>2. n \in 1..n /\ n - 1 \in Int /\ 1 \in Int /\ 1 <= (n - 1) + 1 /\ (n - 1) + 1 = n /\ \A k \in 1..(n - 1) : k \in 1..n
  BY <1>1
<1>3. AllOwe(val, r) /\ Owed(val, s[n]) \in Nat
  BY <1>1, <1>2, Zenon DEF AllOwe
<1> DEFINE w == Owing(val, s)
           u == Owing(val, r)
<1>4. /\ Owe(val, s) = SumFunctionOnSet(w, 1..n) /\ Counted(w, 1..n)
      /\ Owe(val, r) = SumFunctionOnSet(u, 1..(n - 1)) /\ Counted(u, 1..(n - 1)) /\ IsFiniteSet(1..(n - 1))
  BY <1>1, <1>3, OweTyped, Zenon DEF Owe, Owing
<1>5. w[n] = Owed(val, s[n]) /\ \A k \in 1..(n - 1) : w[k] = u[k]
  BY <1>1, <1>2, Zenon DEF Owing
<1> HIDE DEF w, u, n
<1>6. SumFunctionOnSet(w, 1..n) = SumFunctionOnSet(w, 1..(n - 1)) + w[n]
  <2> DEFINE m == n - 1
  <2>1. m \in Int /\ 1 \in Int /\ 1 <= m + 1 /\ m + 1 = n
    BY <1>2
  <2>2. Counted(w, 1..(m + 1))
    BY <1>4, <2>1, Zenon
  <2> HIDE DEF m
  <2>3. SumFunctionOnSet(w, 1..(m + 1)) = SumFunctionOnSet(w, 1..m) + w[m + 1]
    BY <2>1, <2>2, SumRow, Zenon
  <2>4. SumFunctionOnSet(w, 1..n) = SumFunctionOnSet(w, 1..m) + w[n]
    BY <2>1, <2>3, Zenon
  <2> QED
    BY <2>4 DEF m
<1>7. SumFunctionOnSet(w, 1..(n - 1)) = SumFunctionOnSet(u, 1..(n - 1))
  BY <1>4, <1>5, SumSame, Zenon
<1> QED
  BY <1>3, <1>4, <1>5, <1>6, <1>7, Zenon DEF r, n

-----------------------------------------------------------------------------
(***************************************************************************)
(* The sizes of values, by their types.                                    *)
(***************************************************************************)
LEMMA SizeFound ==
    ASSUME SizesDefined, NEW type \in DOMAIN Value, NEW v \in Value[type]
    PROVE  ValueSize[type][v] = SizeBy(ValueSize, type, v) /\ ValueSize[type][v] \in Nat
<1>1. \A h : h = [type1 \in DOMAIN Value |-> [v1 \in Value[type1] |-> SizeBy(h, type1, v1)]]
             => h[type][v] = SizeBy(h, type, v)
  OBVIOUS
<1> QED
  BY <1>1 DEF SizesDefined

LEMMA SizeByKind ==
    ASSUME SizesDefined, PointersAsResolved, NEW type \in DOMAIN Value, NEW v \in Value[type]
    PROVE  LET size1 == ValueSize[type][v]
           IN  /\ size1 \in Nat
               /\ IsFixed(type) => size1 = FixedSize[type.t]
               /\ type.t = "string" => size1 = StringSize(v)
               /\ type.t = "struct" => size1 = StructSize(ValueSize, type.sd, v)
               /\ type.t = "map" => size1 = EncodedMapSize(ValueSize, type, v)
               /\ type.t \in {"list", "set"} => size1 = EncodedListSize(ValueSize, type, v)
<1>1. ValueSize[type][v] = SizeBy(ValueSize, type, v) /\ ValueSize[type][v] \in Nat
  BY SizeFound
<1>2. CASE IsFixed(type)
  <2>1. type.t \notin {"string", "struct", "map", "list", "set"}
    BY <1>2 DEF IsFixed, FixedSize
  <2>2. SizeBy(ValueSize, type, v) = FixedSize[type.t]
    BY <1>2, <2>1 DEF SizeBy
  <2> QED
    BY <1>1, <2>1, <2>2
<1>3. CASE ~IsFixed(type)
  <2>1. type.t = "string" => SizeBy(ValueSize, type, v) = StringSize(v)
    BY <1>3 DEF SizeBy
  <2>2. type.t = "struct" => SizeBy(ValueSize, type, v) = StructSize(ValueSize, type.sd, v)
    BY <1>3 DEF SizeBy, EncodedStructSize, PointersAsResolved
  <2>3. type.t = "map" => SizeBy(ValueSize, type, v) = EncodedMapSize(ValueSize, type, v)
    BY <1>3 DEF SizeBy
  <2>4. type.t \in {"list", "set"} => SizeBy(ValueSize, type, v) = EncodedListSize(ValueSize, type, v)
    BY <1>3 DEF SizeBy
  <2> QED
    BY <1>1, <1>3, <2>1, <2>2, <2>3, <2>4
<1> QED
  BY <1>2, <1>3

\* Structs, the fields of fixed size and the others taken together.
LEMMA FieldLensCounted ==
    ASSUME SizesDefined, NEW s \in DOMAIN StructDesc, NEW v \in Value[Pointer(Struct(s))] \ {None}
    PROVE  IsFiniteSet(DOMAIN Fields(s)) /\ Counted(FieldLens(s, v.f), DOMAIN Fields(s))
<1>1. IsFiniteSet(DOMAIN Fields(s))
  BY TypeAssumption
<1>2. ASSUME NEW id \in DOMAIN Fields(s) PROVE FieldLens(s, v.f)[id] \in Nat
  <2> DEFINE type == Fields(s)[id].type
             x == GetAt(v.f, s, id)
  <2>1. type \in DOMAIN Value /\ x \in Value[type]
    BY FieldTyped
  <2> HIDE DEF x
  <2>2. ValueSize[type][x] \in Nat
    BY <2>1, SizeFound
  <2>3. FieldLen(ValueSize, s, id, x) \in Nat
    BY <2>2 DEF FieldLen, FieldHeaderLen
  <2> QED
    BY <2>3 DEF FieldLens, x
<1> QED
  BY <1>1, <1>2 DEF Counted

LEMMA FixedField ==
    ASSUME SizesDefined, PointersAsResolved,
           NEW s \in DOMAIN StructDesc, NEW v \in Value[Pointer(Struct(s))] \ {None}, NEW id \in FixedLen(s)
    PROVE  FieldSize(s, id) = FieldLen(ValueSize, s, id, GetAt(v.f, s, id))
<1> DEFINE type == Fields(s)[id].type
           x == GetAt(v.f, s, id)
<1>1. id \in DOMAIN Fields(s) /\ FieldSize(s, id) > 0
  BY DEF FixedLen
<1>2. ~type.ptr /\ Fields(s)[id].spec # "optional" /\ IsFixed(type)
      /\ FieldSize(s, id) = FieldHeaderLen + FixedSize[type.t]
  <2>1. ~(-1 > 0)
    OBVIOUS
  <2> QED
    BY <1>1, <2>1, Zenon DEF FieldSize
<1>3. ValueSize[type][x] = FixedSize[type.t]
  BY <1>1, <1>2, FieldTyped, SizeByKind
<1>4. ~Skipped(s, id, x)
  BY <1>2 DEF Skipped, CanSkipEncodeIfNil, CanSkipIfDefault
<1> QED
  BY <1>2, <1>3, <1>4 DEF FieldLen

LEMMA StructSizeOwed ==
    ASSUME SizesDefined, PointersAsResolved,
           NEW s \in DOMAIN StructDesc, NEW v \in Value[Pointer(Struct(s))] \ {None}
    PROVE  StructSize(ValueSize, s, v) = StructOwed(s, v, DOMAIN Fields(s))
<1> DEFINE F == FixedLen(s)
           V == VarLen(s)
           all == DOMAIN Fields(s)
           w == FieldLens(s, v.f)
           fixed == [id \in F |-> FieldSize(s, id)]
           var == [id \in V |-> FieldLen(ValueSize, s, id, GetAt(v.f, s, id))]
<1>1. all = F \cup V /\ F \cap V = {} /\ F \subseteq all /\ V \subseteq all
  BY DEF FixedLen, VarLen
<1>2. IsFiniteSet(all) /\ Counted(w, all)
  BY FieldLensCounted
<1>3. IsFiniteSet(F) /\ IsFiniteSet(V)
  BY <1>1, <1>2, FS_Subset
<1>4. \A id \in F : w[id] = fixed[id]
  BY <1>1, FixedField DEF FieldLens
<1>5. \A id \in V : w[id] = var[id]
  BY <1>1 DEF FieldLens
<1>6. Counted(w, F) /\ Counted(w, V)
  BY <1>1, <1>2 DEF Counted
<1>7. Counted(fixed, F) /\ Counted(var, V)
  BY <1>4, <1>5, <1>6 DEF Counted
<1>8. FixedLenFieldSize(s) = SumFunctionOnSet(fixed, F)
  BY DEF FixedLenFieldSize
<1>9. StructSize(ValueSize, s, v) =
          SumFunctionOnSet(fixed, F) + SumFunctionOnSet(var, V) + UnknownLen(s, v) + 1
  BY <1>8 DEF StructSize, UnknownLen
<1> HIDE DEF F, V, w, fixed, var
<1>10. SumFunctionOnSet(fixed, F) = SumFunctionOnSet(w, F)
  BY <1>3, <1>4, <1>6, <1>7, SumSame
<1>11. SumFunctionOnSet(var, V) = SumFunctionOnSet(w, V)
  BY <1>3, <1>5, <1>6, <1>7, SumSame
<1>12. SumFunctionOnSet(w, all) = SumFunctionOnSet(w, F) + SumFunctionOnSet(w, V)
  BY <1>1, <1>2, <1>3, SumUnion
<1> QED
  BY <1>9, <1>10, <1>11, <1>12 DEF StructOwed, w

\* One field less to write.
LEMMA StructOwedNext ==
    ASSUME SizesDefined, UnknownFieldsMeasured,
           NEW s \in DOMAIN StructDesc, NEW v \in Value[Pointer(Struct(s))] \ {None},
           NEW ids \in SUBSET DOMAIN Fields(s)
    PROVE  /\ StructOwed(s, v, ids) \in Nat
           /\ StructOwed(s, v, {}) = UnknownLen(s, v) + 1
           /\ \A id \in ids :
                 /\ FieldLen(ValueSize, s, id, GetAt(v.f, s, id)) \in Nat
                 /\ StructOwed(s, v, ids) =
                       FieldLen(ValueSize, s, id, GetAt(v.f, s, id)) + StructOwed(s, v, ids \ {id})
<1> DEFINE w == FieldLens(s, v.f)
           rest == UnknownLen(s, v) + 1
<1>1. IsFiniteSet(ids) /\ Counted(w, ids)
  BY FieldLensCounted, FS_Subset DEF Counted
<1>2. UnknownLen(s, v) \in Nat
  <2>1. StructDesc[s].unknown => Measurable(v.u)
    BY KeptMeasurable
  <2>2. StructDesc[s].unknown => Bytes(v.u, 1) \in Nat
    BY <2>1, WidthsCounted
  <2> QED
    BY <2>2 DEF UnknownLen
<1>3. SumFunctionOnSet(w, ids) \in Nat /\ SumFunctionOnSet(w, {}) = 0
  BY <1>1, SumTyped, SumNone
<1>4. \A i : StructOwed(s, v, i) = SumFunctionOnSet(w, i) + UnknownLen(s, v) + 1
  BY DEF StructOwed
<1>5. ASSUME NEW id \in ids
      PROVE  /\ w[id] = FieldLen(ValueSize, s, id, GetAt(v.f, s, id)) /\ w[id] \in Nat
             /\ SumFunctionOnSet(w, ids) = w[id] + SumFunctionOnSet(w, ids \ {id})
             /\ SumFunctionOnSet(w, ids \ {id}) \in Nat
  <2>1. w[id] = FieldLen(ValueSize, s, id, GetAt(v.f, s, id))
    BY DEF FieldLens
  <2>2. w[id] \in Nat
    BY <1>1 DEF Counted
  <2>3. IsFiniteSet(ids \ {id}) /\ Counted(w, ids \ {id})
    BY <1>1, FS_Subset DEF Counted
  <2> HIDE DEF w
  <2>4. SumFunctionOnSet(w, ids) = w[id] + SumFunctionOnSet(w, ids \ {id})
    BY <1>1, SumRemove
  <2>5. SumFunctionOnSet(w, ids \ {id}) \in Nat
    BY <2>3, SumTyped
  <2> QED
    BY <2>1, <2>2, <2>4, <2>5
<1> HIDE DEF w
<1>6. StructOwed(s, v, ids) \in Nat /\ StructOwed(s, v, {}) = UnknownLen(s, v) + 1
  BY <1>2, <1>3, <1>4
<1>7. ASSUME NEW id \in ids
      PROVE  /\ w[id] = FieldLen(ValueSize, s, id, GetAt(v.f, s, id)) /\ w[id] \in Nat
             /\ StructOwed(s, v, ids) = w[id] + StructOwed(s, v, ids \ {id})
  BY <1>2, <1>4, <1>5
<1> QED
  BY <1>6, <1>7

\* One element less to write.
LEMMA ElementLensCounted ==
    ASSUME SizesDefined, NEW type \in DOMAIN Value, NEW todo \in Seq(Value[type])
    PROVE  /\ DOMAIN todo = 1..Len(todo) /\ Len(todo) \in Nat
           /\ Counted(ElementLens(type, todo), 1..Len(todo)) /\ IsFiniteSet(1..Len(todo))
           /\ \A j \in 1..Len(todo) : ElementLens(type, todo)[j] = ValueSize[type][todo[j]]
           /\ ListOwed(type, todo) = SumFunctionOnSet(ElementLens(type, todo), 1..Len(todo))
           /\ ListOwed(type, todo) \in Nat
<1>1. DOMAIN todo = 1..Len(todo) /\ Len(todo) \in Nat /\ \A j \in 1..Len(todo) : todo[j] \in Value[type]
  BY LenProperties, ElementOfSeq
<1>2. IsFiniteSet(1..Len(todo))
  <2>1. 1 \in Int /\ Len(todo) \in Int
    BY <1>1
  <2> QED
    BY <2>1, FS_Interval, Zenon
<1>3. \A j \in 1..Len(todo) : ElementLens(type, todo)[j] = ValueSize[type][todo[j]]
  BY <1>1, Zenon DEF ElementLens
<1>4. Counted(ElementLens(type, todo), 1..Len(todo))
  BY <1>1, <1>3, SizeFound, Zenon DEF Counted
<1>5. ListOwed(type, todo) = SumFunctionOnSet(ElementLens(type, todo), 1..Len(todo))
  BY <1>1, Zenon DEF ListOwed
<1>6. SumFunctionOnSet(ElementLens(type, todo), 1..Len(todo)) \in Nat
  BY <1>2, <1>4, SumTyped, Zenon
<1> QED
  BY <1>1, <1>2, <1>3, <1>4, <1>5, <1>6, Zenon

LEMMA ListOwedNext ==
    ASSUME SizesDefined, NEW type \in DOMAIN Value, NEW todo \in Seq(Value[type]), todo # <<>>
    PROVE  /\ ValueSize[type][Head(todo)] \in Nat
           /\ ListOwed(type, todo) = ValueSize[type][Head(todo)] + ListOwed(type, Tail(todo))
           /\ Tail(todo) \in Seq(Value[type]) /\ ListOwed(type, Tail(todo)) \in Nat
<1> DEFINE n == Len(todo) - 1
           w == ElementLens(type, todo)
           u == ElementLens(type, Tail(todo))
<1>1. /\ Head(todo) \in Value[type] /\ Head(todo) = todo[1] /\ Tail(todo) \in Seq(Value[type])
      /\ Len(Tail(todo)) = n /\ n \in Nat /\ Len(todo) = 1 + n
      /\ \A j \in 1..n : Tail(todo)[j] = todo[1 + j]
  <2>1. Len(todo) \in Nat /\ Len(todo) # 0
    BY EmptySeq, LenProperties
  <2>2. /\ Head(todo) \in Value[type] /\ Tail(todo) \in Seq(Value[type]) /\ Len(Tail(todo)) = Len(todo) - 1
        /\ \A j \in 1..Len(Tail(todo)) : Tail(todo)[j] = todo[j + 1]
    BY HeadTailProperties
  <2>3. Head(todo) = todo[1]
    OBVIOUS
  <2> QED
    BY <2>1, <2>2, <2>3
<1>2. /\ Counted(w, 1..Len(todo)) /\ \A j \in 1..Len(todo) : w[j] = ValueSize[type][todo[j]]
      /\ ListOwed(type, todo) = SumFunctionOnSet(w, 1..Len(todo))
  BY ElementLensCounted
<1>3. /\ Counted(u, 1..n) /\ \A j \in 1..n : u[j] = ValueSize[type][Tail(todo)[j]]
      /\ ListOwed(type, Tail(todo)) = SumFunctionOnSet(u, 1..n) /\ ListOwed(type, Tail(todo)) \in Nat
  BY <1>1, ElementLensCounted, Zenon
<1>4. 1 \in 1..Len(todo) /\ \A j \in 1..n : 1 + j \in 1..Len(todo)
  BY <1>1
<1>5. w[1] = ValueSize[type][Head(todo)] /\ \A j \in 1..n : w[1 + j] = u[j]
  <2>1. \A j \in 1..Len(todo) : w[j] = ValueSize[type][todo[j]]
    BY <1>2
  <2>2. \A j \in 1..n : Tail(todo)[j] = todo[1 + j] /\ u[j] = ValueSize[type][Tail(todo)[j]]
    BY <1>1, <1>3
  <2>3. Head(todo) = todo[1]
    BY <1>1
  <2> HIDE DEF w, u, n
  <2>4. w[1] = ValueSize[type][Head(todo)]
    BY <1>4, <2>1, <2>3, Zenon
  <2>5. \A j \in 1..n : w[1 + j] = u[j]
    BY <1>4, <2>1, <2>2, Zenon
  <2> QED
    BY <2>4, <2>5
<1>6. ValueSize[type][Head(todo)] \in Nat
  BY <1>1, SizeFound
<1> HIDE DEF w, u, n
<1>7. SumFunctionOnSet(w, (1 + 1)..(1 + n)) = SumFunctionOnSet(u, 1..n)
  <2> DEFINE m == 1
  <2>1. m \in Nat /\ n \in Nat /\ \A j \in 1..n : w[m + j] = u[j]
    BY <1>1, <1>5
  <2> HIDE DEF m
  <2>2. SumFunctionOnSet(w, (m + 1)..(m + n)) = SumFunctionOnSet(u, 1..n)
    <3>1. Counted(u, 1..n)
      BY <1>3
    <3> QED
      BY <2>1, <3>1, SumShift, Zenon
  <2> QED
    BY <2>2 DEF m
<1>8. SumFunctionOnSet(w, 1..Len(todo)) = w[1] + SumFunctionOnSet(w, (1 + 1)..(1 + n))
  <2> DEFINE A == {1}
             B == (1 + 1)..(1 + n)
             C == 1..Len(todo)
  <2>1. C = A \cup B /\ A \cap B = {} /\ 1 \in A
    BY <1>1
  <2>2. IsFiniteSet(A) /\ IsFiniteSet(B) /\ Counted(w, C)
    <3>1. 1 + 1 \in Int /\ 1 + n \in Int
      BY <1>1
    <3>2. IsFiniteSet(B)
      BY <3>1, FS_Interval, Zenon
    <3>3. IsFiniteSet(A)
      BY FS_Singleton
    <3> QED
      BY <1>2, <3>2, <3>3, Zenon
  <2>3. Counted(w, A)
    BY <2>1, <2>2 DEF Counted
  <2>4. SumFunctionOnSet(w, A) = w[1]
    <3>1. A \ {1} = {} /\ w[1] \in Nat
      BY <2>3 DEF Counted
    <3> HIDE DEF A
    <3>2. SumFunctionOnSet(w, A) = w[1] + SumFunctionOnSet(w, A \ {1})
      BY <2>1, <2>2, <2>3, SumRemove
    <3>3. SumFunctionOnSet(w, A \ {1}) = 0
      BY <3>1, SumNone
    <3> QED
      BY <3>1, <3>2, <3>3
  <2>5. \A S1, T1, U1 : /\ IsFiniteSet(S1) /\ IsFiniteSet(T1) /\ S1 \cap T1 = {} /\ U1 = S1 \cup T1
                        /\ Counted(w, U1)
                        => SumFunctionOnSet(w, U1) = SumFunctionOnSet(w, S1) + SumFunctionOnSet(w, T1)
    BY SumUnion
  <2> HIDE DEF A, B, C
  <2>6. SumFunctionOnSet(w, C) = SumFunctionOnSet(w, A) + SumFunctionOnSet(w, B)
    BY <2>1, <2>2, <2>5, Zenon
  <2> QED
    BY <2>4, <2>6, Zenon DEF B, C
<1> QED
  BY <1>1, <1>2, <1>3, <1>5, <1>6, <1>7, <1>8, Zenon

LEMMA ListOwedNone == ASSUME NEW type PROVE ListOwed(type, <<>>) = 0
<1>1. DOMAIN <<>> = {}
  OBVIOUS
<1> QED
  BY <1>1, SumNone DEF ListOwed

\* One entry less to write.
LEMMA EntryLensCounted ==
    ASSUME SizesDefined, NEW type \in DOMAIN Value, type.t = "map", NEW v \in Value[type] \ {None}
    PROVE  IsFiniteSet(DOMAIN v) /\ Counted(EntryLens(type, v), DOMAIN v)
<1>1. /\ type.k \in DOMAIN Value /\ type.v \in DOMAIN Value
      /\ IsFiniteSet(DOMAIN v) /\ DOMAIN v \subseteq Value[type.k]
      /\ \A k \in DOMAIN v : v[k] \in Value[type.v]
  BY MapTyped
<1>2. ASSUME NEW k \in DOMAIN v PROVE EntryLens(type, v)[k] \in Nat
  <2>1. k \in Value[type.k] /\ v[k] \in Value[type.v]
    BY <1>1
  <2>2. ValueSize[type.k][k] \in Nat /\ ValueSize[type.v][v[k]] \in Nat
    BY <1>1, <2>1, SizeFound
  <2>3. EntryLens(type, v)[k] = ValueSize[type.k][k] + ValueSize[type.v][v[k]]
    BY DEF EntryLens
  <2> QED
    BY <2>2, <2>3
<1> QED
  BY <1>1, <1>2 DEF Counted

EntriesOwed(type, v, seen) == SumFunctionOnSet(EntryLens(type, v), DOMAIN v \ seen)

LEMMA EntriesOwedTyped ==
    ASSUME SizesDefined, NEW type \in DOMAIN Value, type.t = "map", NEW v \in Value[type] \ {None}, NEW seen
    PROVE  /\ EntriesOwed(type, v, seen) \in Nat
           /\ DOMAIN v \subseteq seen => EntriesOwed(type, v, seen) = 0
<1> DEFINE w == EntryLens(type, v)
           S == DOMAIN v \ seen
<1>1. IsFiniteSet(S) /\ Counted(w, S)
  BY EntryLensCounted, FS_Subset DEF Counted
<1>2. DOMAIN v \subseteq seen => S = {}
  OBVIOUS
<1>3. EntriesOwed(type, v, seen) = SumFunctionOnSet(w, S)
  BY DEF EntriesOwed
<1> HIDE DEF S, w
<1>4. SumFunctionOnSet(w, S) \in Nat /\ SumFunctionOnSet(w, {}) = 0
  BY <1>1, SumTyped, SumNone
<1> QED
  BY <1>2, <1>3, <1>4

LEMMA EntriesOwedNext ==
    ASSUME SizesDefined, NEW type \in DOMAIN Value, type.t = "map", NEW v \in Value[type] \ {None},
           NEW S \in SUBSET DOMAIN v, NEW k \in S
    PROVE  /\ SumFunctionOnSet(EntryLens(type, v), S)
              = ValueSize[type.k][k] + ValueSize[type.v][v[k]] + SumFunctionOnSet(EntryLens(type, v), S \ {k})
           /\ Cardinality(S \ {k}) = Cardinality(S) - 1
<1> DEFINE w == EntryLens(type, v)
<1>1. IsFiniteSet(S) /\ Counted(w, S)
  BY EntryLensCounted, FS_Subset DEF Counted
<1>2. w[k] = ValueSize[type.k][k] + ValueSize[type.v][v[k]]
  BY DEF EntryLens
<1> HIDE DEF w
<1>3. SumFunctionOnSet(w, S) = w[k] + SumFunctionOnSet(w, S \ {k})
  BY <1>1, SumRemove
<1>4. Cardinality(S \ {k}) = Cardinality(S) - 1
  BY <1>1, FS_RemoveElement, FS_CardinalityType
<1> QED
  BY <1>2, <1>3, <1>4 DEF w

-----------------------------------------------------------------------------
\* What a frame owes, and what is left of it when something is written.
Measured == SizesDefined /\ PointersAsResolved /\ UnknownFieldsMeasured

LEMMA StructOf ==
    ASSUME TypeOK, obj.val # None, NEW f, StructFrameOK(f)
    PROVE  LET v == IF f.live THEN obj.val ELSE f.val
           IN  /\ f.sd \in DOMAIN StructDesc /\ v \in Value[Pointer(Struct(f.sd))] \ {None}
               /\ f.todo \in SUBSET DOMAIN Fields(f.sd) /\ f.kind = "struct"
               /\ Owed(obj.val, f) = StructOwed(f.sd, v, f.todo)
<1>1. f.live => obj.val \in Value[Pointer(Struct(obj.sd))] /\ f.sd = obj.sd
  BY DEF TypeOK, StructFrameOK
<1> QED
  BY <1>1 DEF StructFrameOK, Owed

LEMMA ListOf ==
    ASSUME NEW f, ListFrameOK(f), NEW val
    PROVE  /\ f.v \in DOMAIN Value /\ f.todo \in Seq(Value[f.v]) /\ f.kind = "list"
           /\ Owed(val, f) = ListOwed(f.v, f.todo)
BY DEF ListFrameOK, Owed

LEMMA MapOf ==
    ASSUME SizesDefined, NEW f, MapFrameOK(f), NEW val
    PROVE  /\ f.type \in DOMAIN Value /\ f.type.t = "map" /\ f.val \in Value[f.type] \ {None} /\ f.kind = "map"
           /\ f.type.k \in DOMAIN Value /\ f.type.v \in DOMAIN Value
           /\ Owed(val, f) = EntriesOwed(f.type, f.val, f.seen) + EntryOwed(f)
           /\ EntriesOwed(f.type, f.val, f.seen) \in Nat /\ EntryOwed(f) \in Nat
<1>1. /\ f.type \in DOMAIN Value /\ f.type.t = "map" /\ f.val \in Value[f.type] \ {None} /\ f.kind = "map"
      /\ f.at = "key" => f.k \in Value[f.type.k]
      /\ f.at \in {"key", "value"} => f.v \in Value[f.type.v]
  BY DEF MapFrameOK
<1>2. f.type.k \in DOMAIN Value /\ f.type.v \in DOMAIN Value
  BY <1>1, MapTyped
<1>3. Owed(val, f) = EntriesOwed(f.type, f.val, f.seen) + EntryOwed(f)
  BY <1>1 DEF Owed, MapOwed, EntriesOwed
<1>4. EntriesOwed(f.type, f.val, f.seen) \in Nat
  BY <1>1, EntriesOwedTyped
<1>5. f.at \in {"key", "value"} => ValueSize[f.type.v][f.v] \in Nat
  BY <1>1, <1>2, SizeFound
<1>6. f.at = "key" => ValueSize[f.type.k][f.k] \in Nat
  BY <1>1, <1>2, SizeFound
<1>7. EntryOwed(f) \in Nat
  BY <1>5, <1>6 DEF EntryOwed
<1> QED
  BY <1>1, <1>2, <1>3, <1>4, <1>7

LEMMA FrameOwes ==
    ASSUME Measured, TypeOK, obj.val # None, NEW f, FrameOK(f)
    PROVE  Owed(obj.val, f) \in Nat
<1>1. CASE f.kind = "struct"
  <2> DEFINE v == IF f.live THEN obj.val ELSE f.val
  <2>1. /\ f.sd \in DOMAIN StructDesc /\ v \in Value[Pointer(Struct(f.sd))] \ {None}
        /\ f.todo \in SUBSET DOMAIN Fields(f.sd)
        /\ Owed(obj.val, f) = StructOwed(f.sd, v, f.todo)
    BY <1>1, FrameKinds, StructOf
  <2> HIDE DEF v
  <2>2. StructOwed(f.sd, v, f.todo) \in Nat
    BY <2>1, StructOwedNext DEF Measured
  <2> QED
    BY <2>1, <2>2
<1>2. CASE f.kind = "list"
  <2>1. f.v \in DOMAIN Value /\ f.todo \in Seq(Value[f.v]) /\ Owed(obj.val, f) = ListOwed(f.v, f.todo)
    BY <1>2, FrameKinds, ListOf
  <2> QED
    BY <2>1, ElementLensCounted DEF Measured
<1>3. CASE f.kind = "map"
  <2>1. /\ Owed(obj.val, f) = EntriesOwed(f.type, f.val, f.seen) + EntryOwed(f)
        /\ EntriesOwed(f.type, f.val, f.seen) \in Nat /\ EntryOwed(f) \in Nat
    BY <1>3, FrameKinds, MapOf DEF Measured
  <2> QED
    BY <2>1
<1> QED
  BY <1>1, <1>2, <1>3, FrameKinds

LEMMA ValueOwed ==
    ASSUME Measured, Typed, pc = "write",
           Top.kind = "struct" => ~Skipped(Top.sd, NextId(Top), NextValue(obj.val, Top))
    PROVE  /\ ValueSize[Current.type][Current.v] \in Nat
           /\ Owed(obj.val, Top) = HeaderOut + ValueSize[Current.type][Current.v] + Owed(obj.val, Passed(Top))
<1>1. FrameOK(Top) /\ Ready(Top) /\ TypeOK /\ obj.val # None
  BY StackTyped DEF Typed, Writing
<1>2. ValueSize[Current.type][Current.v] \in Nat
  BY CurrentValue, SizeFound DEF Measured
<1>3. CASE Top.kind = "struct"
  <2> DEFINE v == IF Top.live THEN obj.val ELSE Top.val
             id == NextId(Top)
             x == GetAt(v.f, Top.sd, id)
  <2>1. /\ Top.sd \in DOMAIN StructDesc /\ v \in Value[Pointer(Struct(Top.sd))] \ {None}
        /\ Top.todo \in SUBSET DOMAIN Fields(Top.sd)
        /\ Owed(obj.val, Top) = StructOwed(Top.sd, v, Top.todo)
    BY <1>1, <1>3, FrameKinds, StructOf
  <2>2. id \in Top.todo
    BY <1>1, <1>3, FrameKinds, NextIdTyped DEF Ready
  <2>3. Owed(obj.val, Passed(Top)) = StructOwed(Top.sd, v, Top.todo \ {id})
    <3>1. /\ Passed(Top).kind = "struct" /\ Passed(Top).sd = Top.sd /\ Passed(Top).live = Top.live
          /\ Passed(Top).val = Top.val /\ Passed(Top).todo = Top.todo \ {id}
      BY <1>1, <1>3, FrameKinds DEF Passed, StructFrameOK
    <3> QED
      BY <3>1 DEF Owed
  <2>4. Current.type = Fields(Top.sd)[id].type /\ Current.v = x
    BY <1>3, GivenIsObject DEF Current, FieldValue, Typed, Inv
  <2>5. ~Skipped(Top.sd, id, x)
    BY <1>3 DEF NextValue
  <2> HIDE DEF v, id, x
  <2>6. FieldLen(ValueSize, Top.sd, id, x) = FieldHeaderLen + ValueSize[Current.type][Current.v]
    BY <2>4, <2>5 DEF FieldLen
  <2>7. StructOwed(Top.sd, v, Top.todo) = FieldLen(ValueSize, Top.sd, id, x) + StructOwed(Top.sd, v, Top.todo \ {id})
    BY <2>1, <2>2, StructOwedNext DEF Measured, x
  <2>8. HeaderOut = FieldHeaderLen
    BY <1>3 DEF HeaderOut
  <2> QED
    BY <1>2, <2>1, <2>3, <2>6, <2>7, <2>8
<1>4. CASE Top.kind = "list"
  <2>1. Top.v \in DOMAIN Value /\ Top.todo \in Seq(Value[Top.v]) /\ Owed(obj.val, Top) = ListOwed(Top.v, Top.todo)
    BY <1>1, <1>4, FrameKinds, ListOf
  <2>2. Top.todo # <<>>
    BY <1>1, <1>4 DEF Ready
  <2>3. Owed(obj.val, Passed(Top)) = ListOwed(Top.v, Tail(Top.todo))
    <3>1. Passed(Top).kind = "list" /\ Passed(Top).v = Top.v /\ Passed(Top).todo = Tail(Top.todo)
      BY <1>1, <1>4, FrameKinds DEF Passed, ListFrameOK
    <3> QED
      BY <3>1 DEF Owed
  <2>4. Current.type = Top.v /\ Current.v = Head(Top.todo)
    BY <1>4 DEF Current
  <2>5. HeaderOut = 0
    BY <1>4 DEF HeaderOut
  <2>6. ListOwed(Top.v, Top.todo) = ValueSize[Top.v][Head(Top.todo)] + ListOwed(Top.v, Tail(Top.todo))
    BY <2>1, <2>2, ListOwedNext DEF Measured
  <2> QED
    BY <1>2, <2>1, <2>3, <2>4, <2>5, <2>6
<1>5. CASE Top.kind = "map"
  <2>1. MapFrameOK(Top) /\ Top.at \in {"key", "value"}
    BY <1>1, <1>5, FrameKinds DEF Ready
  <2>2. /\ Owed(obj.val, Top) = EntriesOwed(Top.type, Top.val, Top.seen) + EntryOwed(Top)
        /\ EntriesOwed(Top.type, Top.val, Top.seen) \in Nat /\ EntryOwed(Top) \in Nat
    BY <2>1, MapOf DEF Measured
  <2>3. /\ Passed(Top).kind = "map" /\ Passed(Top).type = Top.type /\ Passed(Top).val = Top.val
        /\ Passed(Top).seen = Top.seen /\ Passed(Top).k = Top.k /\ Passed(Top).v = Top.v
        /\ Passed(Top).at = IF Top.at = "key" THEN "value" ELSE "next"
    BY <1>5, <2>1 DEF Passed, MapFrameOK
  <2>4. MapFrameOK(Passed(Top))
    BY <1>1, <1>5, PassedTyped, FrameKinds
  <2>5. /\ Owed(obj.val, Passed(Top)) = EntriesOwed(Top.type, Top.val, Top.seen) + EntryOwed(Passed(Top))
        /\ EntryOwed(Passed(Top)) \in Nat
    BY <2>3, <2>4, MapOf DEF Measured
  <2>6. EntryOwed(Top) = ValueSize[Current.type][Current.v] + EntryOwed(Passed(Top))
    <3>1. CASE Top.at = "key"
      <4>1. Current.type = Top.type.k /\ Current.v = Top.k
        BY <1>5, <3>1 DEF Current
      <4>2. EntryOwed(Passed(Top)) = ValueSize[Top.type.v][Top.v]
        BY <2>3, <3>1 DEF EntryOwed
      <4>3. EntryOwed(Top) = ValueSize[Top.type.k][Top.k] + ValueSize[Top.type.v][Top.v]
        BY <3>1 DEF EntryOwed
      <4> QED
        BY <4>1, <4>2, <4>3
    <3>2. CASE Top.at = "value"
      <4>1. Current.type = Top.type.v /\ Current.v = Top.v
        BY <1>5, <3>2 DEF Current
      <4>2. EntryOwed(Passed(Top)) = 0
        BY <2>3, <3>2 DEF EntryOwed
      <4>3. EntryOwed(Top) = ValueSize[Top.type.v][Top.v]
        BY <3>2 DEF EntryOwed
      <4> QED
        BY <1>2, <4>1, <4>2, <4>3
    <3> QED
      BY <2>1, <3>1, <3>2
  <2>7. HeaderOut = 0
    BY <1>5 DEF HeaderOut
  <2> QED
    BY <1>2, <2>2, <2>5, <2>6, <2>7
<1> QED
  BY <1>1, <1>2, <1>3, <1>4, <1>5, FrameKinds

LEMMA PassedSteady ==
    ASSUME NEW f, FrameOK(f), Ready(f), NEW val, Steady(val, f) PROVE Steady(val, Passed(f))
<1>1. CASE f.kind = "map"
  <2>1. MapFrameOK(f) /\ f.at \in {"key", "value"}
    BY <1>1, FrameKinds DEF Ready
  <2>2. /\ Passed(f).kind = "map" /\ Passed(f).val = f.val /\ Passed(f).id = f.id /\ Passed(f).n = f.n
        /\ Passed(f).seen = f.seen /\ Passed(f).due = f.due /\ Passed(f).at # "start" /\ f.at # "start"
    BY <1>1, <2>1 DEF Passed, MapFrameOK
  <2> QED
    BY <1>1, <2>2 DEF Steady
<1>2. CASE f.kind = "list"
  <2>1. Passed(f).kind = "list" /\ Passed(f).v = f.v
    BY <1>2, FrameKinds DEF Passed, ListFrameOK
  <2> QED
    BY <1>2, <2>1 DEF Steady
<1>3. CASE f.kind = "struct"
  <2>1. Passed(f).kind = "struct"
    BY <1>3, PassedTyped
  <2> QED
    BY <2>1 DEF Steady
<1> QED
  BY <1>1, <1>2, <1>3, FrameKinds

-----------------------------------------------------------------------------
(***************************************************************************)
(* The stack in a step.                                                    *)
(***************************************************************************)
\* What is not on top stays as it is.
LEMMA RestOwes ==
    ASSUME Measured, Typed, pc \in {"next", "write"}, AllSteady(obj.val, stack)
    PROVE  /\ IsSeq(Rest) /\ AllOwe(obj.val, Rest) /\ AllSteady(obj.val, Rest) /\ Steady(obj.val, Top)
           /\ Owe(obj.val, Rest) \in Nat /\ Owed(obj.val, Top) \in Nat
           /\ Owe(obj.val, stack) = Owe(obj.val, Rest) + Owed(obj.val, Top)
<1>1. IsSeq(stack) /\ stack # <<>> /\ obj.val # None /\ TypeOK /\ \A k \in 1..Len(stack) : FrameOK(stack[k])
  BY TopTyped DEF Typed, TypeOK
<1>2. AllOwe(obj.val, stack)
  BY <1>1, FrameOwes DEF AllOwe
<1>3. /\ AllOwe(obj.val, Rest) /\ Owed(obj.val, Top) \in Nat
      /\ Owe(obj.val, stack) = Owe(obj.val, Rest) + Owed(obj.val, Top)
  BY <1>1, <1>2, OwePop DEF Rest, Top
<1>4. /\ Len(stack) \in Nat \ {0} /\ IsSeq(Rest) /\ Len(Rest) = Len(stack) - 1
      /\ \A k \in 1..(Len(stack) - 1) : Rest[k] = stack[k]
  BY <1>1, PopSeq DEF Rest
<1>5. AllSteady(obj.val, Rest) /\ Steady(obj.val, Top)
  BY <1>4 DEF AllSteady, Top
<1>6. Owe(obj.val, Rest) \in Nat
  BY <1>3, <1>4, OweTyped
<1> QED
  BY <1>3, <1>4, <1>5, <1>6

\* A frame is put on top.
LEMMA PushOwes ==
    ASSUME NEW val, NEW s, IsSeq(s), AllOwe(val, s), AllSteady(val, s),
           NEW f, Owed(val, f) \in Nat, Steady(val, f)
    PROVE  LET t == Append(s, f)
           IN  /\ IsSeq(t) /\ AllOwe(val, t) /\ AllSteady(val, t)
               /\ Owe(val, t) = Owe(val, s) + Owed(val, f) /\ Owe(val, t) \in Nat
<1> DEFINE t == Append(s, f)
<1>1. AllOwe(val, t) /\ Owe(val, t) = Owe(val, s) + Owed(val, f)
  BY OwePush
<1>2. Len(s) \in Nat /\ IsSeq(t) /\ Len(t) = Len(s) + 1 /\ t[Len(s) + 1] = f /\ \A k \in 1..Len(s) : t[k] = s[k]
  BY PushSeq, OweTyped
<1> HIDE DEF t
<1>3. AllSteady(val, t)
  <2> SUFFICES ASSUME NEW k \in 1..(Len(s) + 1) PROVE Steady(val, t[k])
    BY <1>2 DEF AllSteady
  <2>1. k = Len(s) + 1 \/ k \in 1..Len(s)
    BY <1>2
  <2> QED
    BY <1>2, <2>1 DEF AllSteady
<1>4. Owe(val, t) \in Nat
  BY <1>1, <1>2, OweTyped
<1> QED
  BY <1>1, <1>2, <1>3, <1>4 DEF t

LEMMA AtNext ==
    ASSUME Measured, Typed, Exact, changes = 0, pc = "next"
    PROVE  /\ Measurable(out) /\ Bytes(out, 1) \in Nat /\ size \in Nat
           /\ AllSteady(obj.val, stack) /\ AllSteady(obj.val, Rest) /\ Steady(obj.val, Top)
           /\ IsSeq(Rest) /\ AllOwe(obj.val, Rest) /\ Owe(obj.val, Rest) \in Nat /\ Owed(obj.val, Top) \in Nat
           /\ Bytes(out, 1) + Owe(obj.val, stack) = size
           /\ Bytes(out, 1) + Owe(obj.val, Rest) + Owed(obj.val, Top) = size
<1>1. Measurable(out) /\ AllSteady(obj.val, stack) /\ Bytes(out, 1) + Owe(obj.val, stack) = size + HeaderOut
  BY DEF Exact, Balance
<1>2. HeaderOut = 0 /\ size \in Nat
  BY DEF HeaderOut, Typed, TypeOK
<1>3. Bytes(out, 1) \in Nat
  BY <1>1, WidthsCounted
<1>4. /\ AllSteady(obj.val, Rest) /\ Steady(obj.val, Top)
      /\ IsSeq(Rest) /\ AllOwe(obj.val, Rest) /\ Owe(obj.val, Rest) \in Nat /\ Owed(obj.val, Top) \in Nat
      /\ Owe(obj.val, stack) = Owe(obj.val, Rest) + Owed(obj.val, Top)
  BY <1>1, RestOwes
<1> QED
  BY <1>1, <1>2, <1>3, <1>4

\* When a value is due, it is what is missing besides what the frames owe after it.
LEMMA AtWrite ==
    ASSUME Measured, Typed, Exact, changes = 0, pc = "write"
    PROVE  LET t == Append(Rest, Passed(Top))
               n == ValueSize[Current.type][Current.v]
           IN  /\ Measurable(out) /\ Bytes(out, 1) \in Nat /\ size \in Nat /\ n \in Nat
               /\ IsSeq(t) /\ AllOwe(obj.val, t) /\ AllSteady(obj.val, t) /\ Owe(obj.val, t) \in Nat
               /\ Bytes(out, 1) + Owe(obj.val, t) + n = size
<1> DEFINE t == Append(Rest, Passed(Top))
           n == ValueSize[Current.type][Current.v]
<1>1. /\ Measurable(out) /\ AllSteady(obj.val, stack)
      /\ Bytes(out, 1) + Owe(obj.val, stack) = size + HeaderOut
      /\ Top.kind = "struct" => ~Skipped(Top.sd, NextId(Top), NextValue(obj.val, Top))
  BY DEF Exact, Balance
<1>2. Bytes(out, 1) \in Nat /\ size \in Nat /\ HeaderOut \in Nat
  BY <1>1, WidthsCounted DEF HeaderOut, FieldHeaderLen, Typed, TypeOK
<1>3. FrameOK(Top) /\ Ready(Top) /\ TypeOK /\ obj.val # None
  BY StackTyped DEF Typed, Writing
<1>4. FrameOK(Passed(Top))
  BY <1>3, PassedTyped
<1>5. Owed(obj.val, Passed(Top)) \in Nat
  BY <1>3, <1>4, FrameOwes
<1>6. n \in Nat /\ Owed(obj.val, Top) = HeaderOut + n + Owed(obj.val, Passed(Top))
  BY <1>1, ValueOwed
<1>7. /\ AllSteady(obj.val, Rest) /\ Steady(obj.val, Top)
      /\ IsSeq(Rest) /\ AllOwe(obj.val, Rest) /\ Owe(obj.val, Rest) \in Nat
      /\ Owe(obj.val, stack) = Owe(obj.val, Rest) + Owed(obj.val, Top)
  BY <1>1, RestOwes
<1>8. Steady(obj.val, Passed(Top))
  BY <1>3, <1>7, PassedSteady
<1>9. /\ IsSeq(t) /\ AllOwe(obj.val, t) /\ AllSteady(obj.val, t)
      /\ Owe(obj.val, t) = Owe(obj.val, Rest) + Owed(obj.val, Passed(Top)) /\ Owe(obj.val, t) \in Nat
  BY <1>5, <1>7, <1>8, PushOwes
<1> HIDE DEF t, n
<1>10. Bytes(out, 1) + Owe(obj.val, t) + n = size
  BY <1>1, <1>2, <1>5, <1>6, <1>7, <1>9
<1> QED
  BY <1>1, <1>2, <1>6, <1>9, <1>10 DEF t, n

\* The state after a step.
LEMMA NextExact ==
    ASSUME Typed, pc' = "next" \/ (pc' = "write" /\ stack'[Len(stack')].kind # "struct"),
           UNCHANGED <<obj, size>>, Measurable(out'), AllSteady(obj.val, stack'),
           Bytes(out', 1) + Owe(obj.val, stack') = size
    PROVE  Exact'
<1>1. HeaderOut' = 0 /\ size \in Nat
  BY DEF HeaderOut, Top, Typed, TypeOK
<1>2. Balance'
  BY <1>1 DEF Balance, Top
<1> QED
  BY <1>2 DEF Exact

LEMMA PassExact ==
    ASSUME Measured, Typed, Exact, changes = 0, pc = "write", pc' = "next", UNCHANGED <<obj, size>>,
           Measurable(out'), Bytes(out', 1) = Bytes(out, 1) + ValueSize[Current.type][Current.v], Pass
    PROVE  Exact'
<1> DEFINE t == Append(Rest, Passed(Top))
           n == ValueSize[Current.type][Current.v]
<1>1. /\ Bytes(out, 1) \in Nat /\ size \in Nat /\ n \in Nat /\ AllSteady(obj.val, t) /\ Owe(obj.val, t) \in Nat
      /\ Bytes(out, 1) + Owe(obj.val, t) + n = size
  BY AtWrite
<1>2. stack' = t
  BY DEF Pass
<1>3. Bytes(out', 1) = Bytes(out, 1) + n
  OBVIOUS
<1> HIDE DEF t, n
<1>4. Bytes(out', 1) + Owe(obj.val, stack') = size
  BY <1>1, <1>2, <1>3
<1> QED
  BY <1>1, <1>2, <1>4, NextExact

LEMMA PassToExact ==
    ASSUME Measured, Typed, Exact, changes = 0, pc = "write", pc' = "next", UNCHANGED <<obj, size>>,
           NEW f, FrameOK(f), Steady(obj.val, f), PassTo(f), NEW m \in Nat,
           Measurable(out'), Bytes(out', 1) = Bytes(out, 1) + m,
           m + Owed(obj.val, f) = ValueSize[Current.type][Current.v]
    PROVE  Exact'
<1> DEFINE t == Append(Rest, Passed(Top))
           u == Append(t, f)
           n == ValueSize[Current.type][Current.v]
<1>1. /\ Bytes(out, 1) \in Nat /\ size \in Nat /\ n \in Nat
      /\ IsSeq(t) /\ AllOwe(obj.val, t) /\ AllSteady(obj.val, t) /\ Owe(obj.val, t) \in Nat
      /\ Bytes(out, 1) + Owe(obj.val, t) + n = size
  BY AtWrite
<1>2. stack' = u
  BY DEF PassTo
<1>3. m + Owed(obj.val, f) = n
  OBVIOUS
<1> HIDE DEF t, n
<1>4. Owed(obj.val, f) \in Nat
  BY StackTyped, FrameOwes DEF Typed
<1>5. AllSteady(obj.val, u) /\ Owe(obj.val, u) = Owe(obj.val, t) + Owed(obj.val, f)
  BY <1>1, <1>4, PushOwes
<1> HIDE DEF u
<1>6. Bytes(out', 1) + Owe(obj.val, stack') = size
  BY <1>1, <1>2, <1>3, <1>4, <1>5
<1> QED
  BY <1>2, <1>5, <1>6, NextExact

-----------------------------------------------------------------------------
(***************************************************************************)
(* Every step keeps the balance.                                           *)
(***************************************************************************)
LEMMA TokenWidths ==
    /\ Width(Stop) = 1
    /\ \A wt, id : Width(Field(wt, id)) = FieldHeaderLen
    /\ \A w, v : Width(Num(w, v)) = w
    /\ \A s : Width(Str(s)) = StrHeaderLen + Len(s)
    /\ \A et, n : Width(ListHeader(et, n)) = ListHeaderLen
    /\ \A kt, vt, n : Width(MapHeader(kt, vt, n)) = MapHeaderLen
<1>1. Width(Stop) = 1
  BY DEF Width, Stop
<1>2. \A wt, id : Width(Field(wt, id)) = FieldHeaderLen
  BY DEF Width, Field
<1>3. \A w, v : Width(Num(w, v)) = w
  BY DEF Width, Num
<1>4. \A s : Width(Str(s)) = StrHeaderLen + Len(s)
  BY DEF Width, Str, StrOf
<1>5. \A et, n : Width(ListHeader(et, n)) = ListHeaderLen
  BY DEF Width, ListHeader
<1>6. \A kt, vt, n : Width(MapHeader(kt, vt, n)) = MapHeaderLen
  BY DEF Width, MapHeader
<1> QED
  BY <1>1, <1>2, <1>3, <1>4, <1>5, <1>6

\* One token more.
LEMMA Emitted ==
    ASSUME NEW b, Measurable(b), NEW tok, Width(tok) \in Nat
    PROVE  Measurable(b \o <<tok>>) /\ Bytes(b \o <<tok>>, 1) = Bytes(b, 1) + Width(tok)
BY BytesOne, BytesCat

\* A number has one width, whichever function writes it.
LEMMA NumToken ==
    ASSUME NEW type, IsFixed(type), NEW v, NEW fn \in {"Any", Class(type.t)}
    PROVE  \E x : Token(type, v, fn) = Num(FixedSize[type.t], x)
<1> DEFINE t == type.t
<1>1. t \in {"bool", "i08", "i16", "i32", "i64", "double", "enum"}
  BY FixedWidth DEF IsFixed
<1>2. CASE t = "bool"
  <2>1. Simple(t, v) = Num(1, v) /\ Class(t) = "BOOL" /\ Fast("BOOL", v) = Num(1, IF v = 0 THEN 0 ELSE 1)
    BY <1>2 DEF Simple, Class, Fast, AppendBool
  <2> QED
    BY <1>2, <2>1, FixedWidth DEF Token
<1>3. CASE t = "i08"
  <2>1. Simple(t, v) = Num(1, v) /\ Class(t) = "I08" /\ Fast("I08", v) = Num(1, v)
    BY <1>3 DEF Simple, Class, Fast, AppendI08
  <2> QED
    BY <1>3, <2>1, FixedWidth DEF Token
<1>4. CASE t = "i16"
  <2>1. Simple(t, v) = Num(2, v) /\ Class(t) = "I16" /\ Fast("I16", v) = Num(2, v)
    BY <1>4 DEF Simple, Class, Fast, AppendI16
  <2> QED
    BY <1>4, <2>1, FixedWidth DEF Token
<1>5. CASE t = "i32"
  <2>1. Simple(t, v) = Num(4, v) /\ Class(t) = "I32" /\ Fast("I32", v) = Num(4, v)
    BY <1>5 DEF Simple, Class, Fast, AppendI32
  <2> QED
    BY <1>5, <2>1, FixedWidth DEF Token
<1>6. CASE t \in {"i64", "double"}
  <2>1. Simple(t, v) = Num(8, v) /\ Class(t) = "I64" /\ Fast("I64", v) = Num(8, v)
    BY <1>6 DEF Simple, Class, Fast, AppendI64
  <2> QED
    BY <1>6, <2>1, FixedWidth DEF Token
<1>7. CASE t = "enum"
  <2>1. Simple(t, v) = Num(4, Int32(v)) /\ Class(t) = "ENUM" /\ Fast("ENUM", v) = Num(4, Int32(v))
    BY <1>7 DEF Simple, Class, Fast, AppendEnum
  <2> QED
    BY <1>7, <2>1 DEF Token, FixedSize
<1> QED
  BY <1>1, <1>2, <1>3, <1>4, <1>5, <1>6, <1>7

LEMMA TokenSized ==
    ASSUME Measured, NEW type \in DOMAIN Value, IsSimple(type), NEW v \in Value[type],
           NEW fn \in {"Any", Class(type.t)}
    PROVE  Width(Token(type, v, fn)) = ValueSize[type][v]
<1>1. CASE IsFixed(type)
  <2>1. PICK x : Token(type, v, fn) = Num(FixedSize[type.t], x)
    BY <1>1, NumToken
  <2>2. Width(Token(type, v, fn)) = FixedSize[type.t]
    BY <2>1, TokenWidths, Zenon
  <2> QED
    BY <1>1, <2>2, SizeByKind DEF Measured
<1>2. CASE ~IsFixed(type)
  <2>1. type.t = "string"
    BY <1>2 DEF IsSimple
  <2>2. ValueSize[type][v] = StringSize(v)
    BY <2>1, SizeByKind DEF Measured
  <2>3. Simple("string", v) = Bytes32(v) /\ Class("string") = "STRING" /\ Fast("STRING", v) = Bytes32(v)
    BY DEF Simple, Class, Fast, AppendString
  <2>4. Token(type, v, fn) = Bytes32(v)
    BY <2>1, <2>3 DEF Token
  <2>5. Width(Bytes32(v)) = StrHeaderLen + Len(IF v = None THEN <<>> ELSE v)
    BY TokenWidths, Zenon DEF Bytes32
  <2>6. StrHeaderLen + Len(IF v = None THEN <<>> ELSE v) = StringSize(v)
    BY EmptySeq DEF StringSize
  <2> QED
    BY <2>2, <2>4, <2>5, <2>6
<1> QED
  BY <1>1, <1>2

\* No pointer that is nil is followed.
LEMMA NothingFollowed ==
    ASSUME Measured, Typed, Exact, changes = 0, pc = "write", IsSimple(Current.type)
    PROVE  ~(Current.type.ptr /\ Current.v = None)
<1>1. FrameOK(Top) /\ Ready(Top) /\ Current.type = Due(Top)
  BY StackTyped, CurrentValue DEF Typed, Writing
<1>2. CASE Top.kind = "struct"
  <2> DEFINE id == NextId(Top)
  <2>1. id \in DOMAIN Fields(Top.sd) /\ Top.sd \in DOMAIN StructDesc
    BY <1>1, <1>2, FrameKinds, NextIdTyped DEF Ready
  <2>2. Current.type = Fields(Top.sd)[id].type /\ Current.v = NextValue(obj.val, Top)
    BY <1>2, GivenIsObject DEF Current, FieldValue, NextValue, Typed, Inv
  <2>3. ~Skipped(Top.sd, id, NextValue(obj.val, Top))
    BY <1>2 DEF Exact, Balance
  <2> HIDE DEF id
  <2>4. Current.type.ptr => Fields(Top.sd)[id].spec = "optional"
    BY <2>1, <2>2 DEF Measured, PointersAsResolved
  <2> QED
    BY <2>2, <2>3, <2>4 DEF Skipped, CanSkipEncodeIfNil
<1>3. CASE Top.kind = "list"
  <2>1. Steady(obj.val, Top)
    BY RestOwes DEF Exact, Balance
  <2>2. Current.type = Top.v
    BY <1>1, <1>3 DEF Due
  <2> QED
    BY <1>3, <2>1, <2>2 DEF Steady
<1>4. CASE Top.kind = "map"
  <2>1. Top.type \in DOMAIN Value /\ Top.type.t = "map" /\ Current.type \in {Top.type.k, Top.type.v}
    BY <1>1, <1>4, FrameKinds, MapOf DEF Due, Measured
  <2> QED
    BY <2>1 DEF Measured, PointersAsResolved
<1> QED
  BY <1>1, <1>2, <1>3, <1>4, FrameKinds

LEMMA WriteSimpleExact ==
    ASSUME Measured, Typed, Exact, changes = 0, WriteSimple PROVE Exact'
<1> DEFINE tok == Token(Current.type, Current.v, Current.fn)
<1>1. /\ pc = "write" /\ UNCHANGED <<obj, size>> /\ IsSimple(Current.type)
  BY DEF WriteSimple
<1>2. ~(Current.type.ptr /\ Current.v = None)
  BY <1>1, NothingFollowed
<1>3. pc' = "next" /\ out' = out \o <<tok>> /\ Pass
  BY <1>2 DEF WriteSimple, Emit, Token
<1>4. Width(tok) = ValueSize[Current.type][Current.v] /\ Width(tok) \in Nat /\ Measurable(out)
  BY <1>1, CurrentValue, TokenSized, AtWrite
<1>5. Measurable(out') /\ Bytes(out', 1) = Bytes(out, 1) + ValueSize[Current.type][Current.v]
  BY <1>3, <1>4, Emitted
<1> QED
  BY <1>1, <1>3, <1>5, PassExact

LEMMA WriteStructExact ==
    ASSUME Measured, Typed, Exact, changes = 0, WriteStruct PROVE Exact'
<1> DEFINE type == Current.type
           v == Current.v
<1>1. pc = "write" /\ pc' = "next" /\ UNCHANGED <<obj, size>> /\ type.t = "struct"
  BY DEF WriteStruct, Goto
<1>2. type \in DOMAIN Value /\ v \in Value[type] /\ Measurable(out) /\ Bytes(out, 1) \in Nat
  BY <1>1, CurrentValue, AtWrite
<1>3. ValueSize[type][v] = StructSize(ValueSize, type.sd, v)
  BY <1>1, <1>2, SizeByKind DEF Measured
<1>4. CASE v = None
  <2>1. out' = out \o <<Stop>> /\ Pass
    BY <1>4 DEF WriteStruct, Emit
  <2>2. ValueSize[type][v] = 1
    BY <1>3, <1>4 DEF StructSize
  <2>3. Measurable(out') /\ Bytes(out', 1) = Bytes(out, 1) + 1
    <3>1. Width(Stop) = 1
      BY TokenWidths
    <3>2. Measurable(out \o <<Stop>>) /\ Bytes(out \o <<Stop>>, 1) = Bytes(out, 1) + Width(Stop)
      BY <1>2, <3>1, Emitted
    <3> QED
      BY <2>1, <3>1, <3>2
  <2> QED
    BY <1>1, <2>1, <2>2, <2>3, PassExact
<1>5. CASE v # None
  <2> DEFINE f == StructFrame(type.sd, v, FALSE)
  <2>1. out' = out /\ PassTo(f)
    BY <1>5 DEF WriteStruct
  <2>2. FrameOK(f)
    BY <1>1, <1>5, StructPushed
  <2>3. /\ f.kind = "struct" /\ f.sd = type.sd /\ f.live = FALSE /\ f.val = v
        /\ f.todo = DOMAIN Fields(type.sd)
    BY DEF StructFrame
  <2> HIDE DEF f
  <2>4. Steady(obj.val, f)
    BY <2>3 DEF Steady
  <2>5. type.sd \in DOMAIN StructDesc /\ v \in Value[Pointer(Struct(type.sd))] \ {None}
    BY <1>5, <2>2, <2>3, FrameKinds DEF StructFrameOK
  <2>6. Owed(obj.val, f) = StructOwed(type.sd, v, DOMAIN Fields(type.sd))
    BY <2>3 DEF Owed
  <2>7. Owed(obj.val, f) = ValueSize[type][v] /\ ValueSize[type][v] \in Nat
    BY <1>2, <1>3, <2>5, <2>6, StructSizeOwed, SizeFound DEF Measured
  <2> HIDE DEF type, v
  <2>8. 0 \in Nat /\ 0 + Owed(obj.val, f) = ValueSize[type][v]
        /\ Measurable(out') /\ Bytes(out', 1) = Bytes(out, 1) + 0
    BY <1>2, <2>1, <2>7
  <2> QED
    BY <1>1, <2>1, <2>2, <2>4, <2>8, PassToExact DEF type, v
<1> QED
  BY <1>4, <1>5

LEMMA WriteListExact ==
    ASSUME Measured, Typed, Exact, changes = 0, WriteList PROVE Exact'
<1> DEFINE type == Current.type
           v == Current.v
           tok == ListHeader(WT(type.v), IF v = None THEN 0 ELSE Len(v))
<1>1. pc = "write" /\ pc' = "next" /\ UNCHANGED <<obj, size>> /\ type.t \in {"list", "set"}
  BY DEF WriteList, Goto
<1>2. type \in DOMAIN Value /\ v \in Value[type] /\ Measurable(out) /\ Bytes(out, 1) \in Nat
  BY <1>1, CurrentValue, AtWrite
<1>3. ValueSize[type][v] = EncodedListSize(ValueSize, type, v)
  BY <1>1, <1>2, SizeByKind DEF Measured
<1>4. out' = out \o <<tok>>
  BY DEF WriteList, Emit
<1>5. Measurable(out') /\ Bytes(out', 1) = Bytes(out, 1) + ListHeaderLen
  <2>1. Width(tok) = ListHeaderLen /\ ListHeaderLen \in Nat
    BY TokenWidths DEF ListHeaderLen
  <2> QED
    BY <1>2, <1>4, <2>1, Emitted
<1>6. v # None => type.v \in DOMAIN Value /\ v \in Seq(Value[type.v])
                  /\ ValueSize[type][v] = ListHeaderLen + ListOwed(type.v, v)
  BY <1>1, <1>2, <1>3, ListTyped DEF EncodedListSize, ListOwed, ElementLens
<1>7. CASE IsEmpty(v)
  <2>1. Pass
    BY <1>7 DEF WriteList
  <2>2. ValueSize[type][v] = ListHeaderLen
    <3>1. CASE v = None
      BY <1>3, <3>1 DEF EncodedListSize
    <3>2. CASE v # None
      <4>1. DOMAIN v = {}
        BY <1>7, <3>2 DEF IsEmpty
      <4>2. ListOwed(type.v, v) = 0
        BY <4>1, SumNone DEF ListOwed
      <4> QED
        BY <1>6, <3>2, <4>2 DEF ListHeaderLen
    <3> QED
      BY <3>1, <3>2
  <2> QED
    BY <1>1, <1>5, <2>1, <2>2, PassExact
<1>8. CASE ~IsEmpty(v)
  <2> DEFINE f == ListFrame(type, v)
  <2>1. v # None
    BY <1>8 DEF IsEmpty
  <2>2. PassTo(f)
    BY <1>8 DEF WriteList
  <2>3. FrameOK(f)
    BY <1>1, <1>2, <2>1, ListFrameTyped
  <2>4. f.kind = "list" /\ f.v = type.v /\ f.todo = v
    BY DEF ListFrame
  <2> HIDE DEF f
  <2>5. Owed(obj.val, f) = ListOwed(type.v, v)
    BY <2>4 DEF Owed
  <2>6. Steady(obj.val, f)
    BY <1>1, <1>2, <2>4 DEF Steady, Measured, PointersAsResolved
  <2>7. ListHeaderLen \in Nat /\ ListHeaderLen + Owed(obj.val, f) = ValueSize[type][v]
    BY <1>6, <2>1, <2>5 DEF ListHeaderLen
  <2> QED
    BY <1>1, <1>5, <2>2, <2>3, <2>6, <2>7, PassToExact
<1> QED
  BY <1>7, <1>8

LEMMA WriteMapExact ==
    ASSUME Measured, Typed, Exact, changes = 0, WriteMap PROVE Exact'
<1> DEFINE type == Current.type
           v == Current.v
           n == IF v = None THEN 0 ELSE Cardinality(DOMAIN v)
           tok == MapHeader(WT(type.k), WT(type.v), n)
<1>1. pc = "write" /\ pc' = "next" /\ UNCHANGED <<obj, size>> /\ type.t = "map"
  BY DEF WriteMap, Goto
<1>2. type \in DOMAIN Value /\ v \in Value[type] /\ Measurable(out) /\ Bytes(out, 1) \in Nat
  BY <1>1, CurrentValue, AtWrite
<1>3. ValueSize[type][v] = EncodedMapSize(ValueSize, type, v)
  BY <1>1, <1>2, SizeByKind DEF Measured
<1>4. out' = out \o <<tok>> /\ IF n = 0 THEN Pass ELSE PassTo(MapFrame(type, v, OwnId))
  BY DEF WriteMap, Emit, OwnId
<1>5. Measurable(out') /\ Bytes(out', 1) = Bytes(out, 1) + MapHeaderLen
  <2>1. Width(tok) = MapHeaderLen /\ MapHeaderLen \in Nat
    BY TokenWidths DEF MapHeaderLen
  <2> QED
    BY <1>2, <1>4, <2>1, Emitted
<1>6. v # None => /\ IsFiniteSet(DOMAIN v)
                  /\ ValueSize[type][v] = MapHeaderLen + EntriesOwed(type, v, {})
  <2>1. DOMAIN v \ {} = DOMAIN v
    OBVIOUS
  <2> QED
    BY <1>1, <1>2, <1>3, <2>1, MapTyped DEF EncodedMapSize, EntriesOwed, EntryLens
<1>7. CASE n = 0
  <2>1. ValueSize[type][v] = MapHeaderLen
    <3>1. CASE v = None
      BY <1>3, <3>1 DEF EncodedMapSize
    <3>2. CASE v # None
      <4>1. DOMAIN v = {}
        BY <1>6, <1>7, <3>2, FS_EmptySet
      <4>2. EntriesOwed(type, v, {}) = 0
        BY <4>1, SumNone DEF EntriesOwed
      <4> QED
        BY <1>6, <3>2, <4>2 DEF MapHeaderLen
    <3> QED
      BY <3>1, <3>2
  <2> QED
    BY <1>1, <1>4, <1>5, <1>7, <2>1, PassExact
<1>8. CASE n # 0
  <2> DEFINE f == MapFrame(type, v, OwnId)
  <2>1. v # None
    BY <1>8
  <2>2. PassTo(f)
    BY <1>4, <1>8
  <2>3. OwnId \in Nat \cup {None} /\ (OwnId # None => OwnMap(type, OwnId))
    BY <1>1, <2>1, OwnIdFound
  <2>4. FrameOK(f)
    BY <1>1, <1>2, <2>1, <2>3, MapFrameTyped
  <2>5. /\ f.kind = "map" /\ f.type = type /\ f.val = v /\ f.id = OwnId /\ f.n = Cardinality(DOMAIN v)
        /\ f.at = "start" /\ f.seen = {}
    BY DEF MapFrame
  <2>6. OwnId # None => v = obj.val.f[OwnId]
    <3> SUFFICES ASSUME OwnId # None PROVE v = obj.val.f[OwnId]
      OBVIOUS
    <3>1. Top.kind = "struct" /\ Top.live /\ OwnId = NextId(Top)
      BY DEF OwnId
    <3>2. v = GetAt(obj.val.f, Top.sd, OwnId)
      BY <3>1, GivenIsObject DEF Current, FieldValue, Typed, Inv
    <3> QED
      BY <2>3, <3>2 DEF OwnMap, GetAt
  <2> HIDE DEF f
  <2>7. Steady(obj.val, f)
    <3>1. DOMAIN v \ {} = DOMAIN v
      OBVIOUS
    <3> QED
      BY <2>5, <2>6, <3>1 DEF Steady
  <2>8. Owed(obj.val, f) = EntriesOwed(type, v, {}) + 0 /\ EntriesOwed(type, v, {}) \in Nat
    <3>1. EntryOwed(f) = 0 /\ MapFrameOK(f)
      BY <2>4, <2>5, FrameKinds DEF EntryOwed
    <3> QED
      BY <2>5, <3>1, MapOf DEF Measured
  <2>9. MapHeaderLen \in Nat /\ MapHeaderLen + Owed(obj.val, f) = ValueSize[type][v]
    BY <1>6, <2>1, <2>8 DEF MapHeaderLen
  <2> QED
    BY <1>1, <1>5, <2>2, <2>4, <2>7, <2>9, PassToExact
<1> QED
  BY <1>7, <1>8

\* The frame on top is replaced, or dropped.
LEMMA SwapExact ==
    ASSUME Measured, Typed, Exact, changes = 0, pc = "next", UNCHANGED <<obj, size, out>>,
           pc' = "next" \/ (pc' = "write" /\ stack'[Len(stack')].kind # "struct"),
           NEW f, Owed(obj.val, f) = Owed(obj.val, Top), Steady(obj.val, f), stack' = Append(Rest, f)
    PROVE  Exact'
<1> DEFINE t == Append(Rest, f)
<1>1. /\ Measurable(out) /\ IsSeq(Rest) /\ AllOwe(obj.val, Rest) /\ AllSteady(obj.val, Rest)
      /\ Owed(obj.val, Top) \in Nat
      /\ Bytes(out, 1) + Owe(obj.val, Rest) + Owed(obj.val, Top) = size
      /\ Bytes(out, 1) \in Nat /\ Owe(obj.val, Rest) \in Nat
  BY AtNext
<1>2. AllSteady(obj.val, t) /\ Owe(obj.val, t) = Owe(obj.val, Rest) + Owed(obj.val, f)
  BY <1>1, PushOwes
<1> HIDE DEF t
<1>3. stack' = t
  BY DEF t
<1>4. Bytes(out', 1) + Owe(obj.val, stack') = size
  BY <1>1, <1>2, <1>3
<1> QED
  BY <1>1, <1>2, <1>3, <1>4, NextExact

LEMMA DropExact ==
    ASSUME Measured, Typed, Exact, changes = 0, pc = "next", UNCHANGED <<obj, size, out>>, pc' = "next",
           Owed(obj.val, Top) = 0, stack' = Rest
    PROVE  Exact'
<1>1. /\ Measurable(out) /\ AllSteady(obj.val, Rest) /\ Bytes(out, 1) \in Nat /\ Owe(obj.val, Rest) \in Nat
      /\ Bytes(out, 1) + Owe(obj.val, Rest) + Owed(obj.val, Top) = size
  BY AtNext
<1>2. Bytes(out', 1) + Owe(obj.val, stack') = size
  BY <1>1
<1> QED
  BY <1>1, <1>2, NextExact

LEMMA ReadyExact ==
    ASSUME Measured, Typed, Exact, changes = 0, NextElement \/ EntryValue PROVE Exact'
<1>1. /\ pc = "next" /\ pc' = "write" /\ UNCHANGED <<obj, size, out, stack>> /\ Top.kind # "struct"
  BY DEF NextElement, EntryValue
<1>2. Measurable(out) /\ AllSteady(obj.val, stack) /\ Bytes(out, 1) + Owe(obj.val, stack) = size
  BY <1>1, AtNext
<1>3. /\ Measurable(out') /\ AllSteady(obj.val, stack') /\ Bytes(out', 1) + Owe(obj.val, stack') = size
      /\ stack'[Len(stack')].kind # "struct"
  BY <1>1, <1>2 DEF Top
<1> QED
  BY <1>1, <1>3, NextExact

LEMMA ListEndExact ==
    ASSUME Measured, Typed, Exact, changes = 0, ListEnd PROVE Exact'
<1>1. /\ pc = "next" /\ pc' = "next" /\ UNCHANGED <<obj, size, out>> /\ Top.kind = "list" /\ Top.todo = <<>>
      /\ stack' = Rest
  BY DEF ListEnd
<1>2. Owed(obj.val, Top) = 0
  <2>1. Owed(obj.val, Top) = ListOwed(Top.v, Top.todo)
    BY <1>1 DEF Owed
  <2> QED
    BY <1>1, <2>1, ListOwedNone
<1> QED
  BY <1>1, <1>2, DropExact

\* An iterator sees the map that the header counted.
LEMMA SameEntries ==
    ASSUME Typed, NEW f, f.kind = "map", Steady(obj.val, f) PROVE Entries(f) = f.val
BY DEF Entries, Steady

LEMMA IterateExact ==
    ASSUME Measured, Typed, Exact, changes = 0, Iterate PROVE Exact'
<1> DEFINE due == DOMAIN Entries(Top)
           f == [Top EXCEPT !.at = "next", !.due = due]
<1>1. /\ pc = "next" /\ pc' = "next" /\ UNCHANGED <<obj, size, out>> /\ Top.kind = "map" /\ Top.at = "start"
      /\ stack' = Append(Rest, f)
  BY DEF Iterate
<1>2. Steady(obj.val, Top) /\ MapFrameOK(Top)
  BY <1>1, AtNext, StackTyped, FrameKinds
<1>3. due = DOMAIN Top.val
  BY <1>1, <1>2, SameEntries
<1> HIDE DEF due
<1>4. /\ f.kind = "map" /\ f.type = Top.type /\ f.val = Top.val /\ f.id = Top.id /\ f.n = Top.n
      /\ f.at = "next" /\ f.seen = Top.seen /\ f.due = due
  BY <1>1, <1>2 DEF MapFrameOK
<1> HIDE DEF f
<1>5. Steady(obj.val, f)
  BY <1>1, <1>2, <1>3, <1>4 DEF Steady
<1>6. Owed(obj.val, f) = Owed(obj.val, Top)
  <2>1. EntryOwed(f) = 0 /\ EntryOwed(Top) = 0
    BY <1>1, <1>4 DEF EntryOwed
  <2> QED
    BY <1>1, <1>4, <2>1 DEF Owed, MapOwed
<1> QED
  BY <1>1, <1>5, <1>6, SwapExact

LEMMA NextEntryExact ==
    ASSUME Measured, Typed, Exact, changes = 0, NextEntry PROVE Exact'
<1>1. /\ pc = "next" /\ pc' = "write" /\ UNCHANGED <<obj, size, out>> /\ Top.kind = "map" /\ Top.at = "next"
  BY DEF NextEntry
<1>2. Steady(obj.val, Top) /\ MapFrameOK(Top) /\ IsSeq(stack) /\ stack # <<>>
  BY <1>1, AtNext, StackTyped, FrameKinds DEF StackOK
<1>3. Entries(Top) = Top.val
  BY <1>1, <1>2, SameEntries
<1>4. PICK k \in DOMAIN Top.val \ Top.seen :
          stack' = Append(Rest, [Top EXCEPT !.at = "key", !.k = k, !.v = Top.val[k],
                                            !.seen = @ \cup {k}, !.n = @ - 1])
  BY <1>3 DEF NextEntry
<1> DEFINE v == Top.val[k]
           seen == Top.seen \cup {k}
           n == Top.n - 1
           f == [Top EXCEPT !.at = "key", !.k = k, !.v = v, !.seen = seen, !.n = n]
<1>5. stack' = Append(Rest, f)
  BY <1>4
<1>6. seen \subseteq DOMAIN Top.val
  BY <1>1, <1>2, <1>4 DEF Steady
<1>7. /\ EntriesOwed(Top.type, Top.val, Top.seen) =
            ValueSize[Top.type.k][k] + ValueSize[Top.type.v][v] + EntriesOwed(Top.type, Top.val, seen)
      /\ n = Cardinality(DOMAIN Top.val \ seen)
      /\ EntriesOwed(Top.type, Top.val, Top.seen) \in Nat /\ EntriesOwed(Top.type, Top.val, seen) \in Nat
  <2>1. Top.type \in DOMAIN Value /\ Top.type.t = "map" /\ Top.val \in Value[Top.type] \ {None}
    BY <1>2 DEF MapFrameOK
  <2>2. Top.n = Cardinality(DOMAIN Top.val \ Top.seen)
    BY <1>1, <1>2 DEF Steady
  <2>3. EntriesOwed(Top.type, Top.val, Top.seen) \in Nat /\ EntriesOwed(Top.type, Top.val, seen) \in Nat
    BY <2>1, EntriesOwedTyped DEF Measured
  <2> DEFINE S == DOMAIN Top.val \ Top.seen
             w == EntryLens(Top.type, Top.val)
  <2>4. S \in SUBSET DOMAIN Top.val /\ k \in S /\ DOMAIN Top.val \ seen = S \ {k}
    BY <1>4
  <2>5. EntriesOwed(Top.type, Top.val, Top.seen) = SumFunctionOnSet(w, S)
    BY DEF EntriesOwed
  <2>6. EntriesOwed(Top.type, Top.val, seen) = SumFunctionOnSet(w, S \ {k})
    BY <2>4 DEF EntriesOwed
  <2> HIDE DEF S, seen
  <2>7. /\ SumFunctionOnSet(w, S) = ValueSize[Top.type.k][k] + ValueSize[Top.type.v][v] + SumFunctionOnSet(w, S \ {k})
        /\ Cardinality(S \ {k}) = Cardinality(S) - 1
    BY <2>1, <2>4, EntriesOwedNext DEF Measured
  <2>8. Top.n = Cardinality(S)
    BY <2>2 DEF S
  <2> QED
    BY <2>3, <2>4, <2>5, <2>6, <2>7, <2>8
<1>8. ValueSize[Top.type.k][k] \in Nat /\ ValueSize[Top.type.v][v] \in Nat
  <2>1. Top.type \in DOMAIN Value /\ Top.type.t = "map" /\ Top.val \in Value[Top.type] \ {None}
    BY <1>2 DEF MapFrameOK
  <2>2. /\ Top.type.k \in DOMAIN Value /\ Top.type.v \in DOMAIN Value
        /\ k \in Value[Top.type.k] /\ v \in Value[Top.type.v]
    BY <1>4, <2>1, MapTyped
  <2> QED
    BY <2>2, SizeFound DEF Measured
<1> HIDE DEF seen, n, v
<1>9. /\ f.kind = "map" /\ f.type = Top.type /\ f.val = Top.val /\ f.id = Top.id /\ f.n = n
      /\ f.at = "key" /\ f.seen = seen /\ f.due = Top.due /\ f.k = k /\ f.v = v
  BY <1>1, <1>2 DEF MapFrameOK
<1> HIDE DEF f
<1>10. Steady(obj.val, f)
  BY <1>1, <1>2, <1>6, <1>7, <1>9 DEF Steady
<1>11. Owed(obj.val, f) = Owed(obj.val, Top)
  <2>1. EntryOwed(f) = ValueSize[Top.type.k][k] + ValueSize[Top.type.v][v] /\ EntryOwed(Top) = 0
    BY <1>1, <1>9 DEF EntryOwed
  <2>2. Owed(obj.val, f) = EntriesOwed(Top.type, Top.val, seen) + EntryOwed(f)
    BY <1>9 DEF Owed, MapOwed, EntriesOwed
  <2>3. Owed(obj.val, Top) = EntriesOwed(Top.type, Top.val, Top.seen) + EntryOwed(Top)
    BY <1>1 DEF Owed, MapOwed, EntriesOwed
  <2> QED
    BY <1>7, <1>8, <2>1, <2>2, <2>3
<1>12. stack'[Len(stack')].kind # "struct"
  <2>1. stack'[Len(stack')] = f
    BY <1>2, <1>5, ReplaceTopSeq, PopSeq DEF Rest
  <2> QED
    BY <1>9, <2>1
<1> QED
  BY <1>1, <1>5, <1>10, <1>11, <1>12, SwapExact

\* What the iterator was bound to visit was all there is, so the count comes out.
LEMMA MapEndExact ==
    ASSUME Measured, Typed, Exact, changes = 0, MapEnd PROVE Exact'
<1>1. /\ pc = "next" /\ UNCHANGED <<obj, size, out>> /\ Top.kind = "map" /\ Top.at = "next"
      /\ (Top.due \cap DOMAIN Entries(Top)) \subseteq Top.seen
  BY DEF MapEnd
<1>2. Steady(obj.val, Top) /\ MapFrameOK(Top)
  BY <1>1, AtNext, StackTyped, FrameKinds
<1>3. DOMAIN Top.val \subseteq Top.seen /\ Top.n = Cardinality(DOMAIN Top.val \ Top.seen)
  <2>1. Entries(Top) = Top.val
    BY <1>1, <1>2, SameEntries
  <2> QED
    BY <1>1, <1>2, <2>1 DEF Steady
<1>4. Top.n = 0
  <2>1. DOMAIN Top.val \ Top.seen = {}
    BY <1>3
  <2> QED
    BY <1>3, <2>1, FS_EmptySet
<1>5. stack' = Rest /\ pc' = "next"
  BY <1>1, <1>4 DEF MapEnd, CheckMapN
<1>6. Owed(obj.val, Top) = 0
  <2>1. EntryOwed(Top) = 0
    BY <1>1 DEF EntryOwed
  <2>2. Top.type \in DOMAIN Value /\ Top.type.t = "map" /\ Top.val \in Value[Top.type] \ {None}
    BY <1>2 DEF MapFrameOK
  <2>3. EntriesOwed(Top.type, Top.val, Top.seen) = 0
    BY <1>3, <2>2, EntriesOwedTyped DEF Measured
  <2>4. Owed(obj.val, Top) = EntriesOwed(Top.type, Top.val, Top.seen) + EntryOwed(Top)
    BY <1>1 DEF Owed, MapOwed, EntriesOwed
  <2> QED
    BY <2>1, <2>3, <2>4
<1> QED
  BY <1>1, <1>5, <1>6, DropExact

LEMMA NextFieldExact ==
    ASSUME Measured, Typed, Exact, changes = 0, NextField PROVE Exact'
<1> DEFINE id == NextId(Top)
           v == IF Top.live THEN obj.val ELSE Top.val
           x == GetAt(v.f, Top.sd, id)
<1>1. pc = "next" /\ Top.kind = "struct" /\ Top.todo # {} /\ UNCHANGED <<obj, size, rvVars>>
  BY DEF NextField
<1>2. FrameOK(Top) /\ Ready(Top) /\ StructFrameOK(Top) /\ TypeOK /\ obj.val # None
  BY <1>1, StackTyped, FrameKinds DEF Typed, Ready
<1>3. /\ Top.sd \in DOMAIN StructDesc /\ v \in Value[Pointer(Struct(Top.sd))] \ {None}
      /\ Top.todo \in SUBSET DOMAIN Fields(Top.sd)
      /\ Owed(obj.val, Top) = StructOwed(Top.sd, v, Top.todo)
  BY <1>2, StructOf
<1>4. FieldValue(Top, id) = x /\ NextValue(obj.val, Top) = x
  BY GivenIsObject DEF FieldValue, NextValue, Typed, Inv
<1>5. id \in Top.todo
  BY <1>1, <1>2, NextIdTyped
<1>6. CASE Skipped(Top.sd, id, x)
  <2>1. pc' = "next" /\ out' = out /\ stack' = Append(Rest, Passed(Top))
    BY <1>1, <1>4, <1>6 DEF NextField, Pass
  <2>2. /\ Passed(Top).kind = "struct" /\ Passed(Top).sd = Top.sd /\ Passed(Top).live = Top.live
        /\ Passed(Top).val = Top.val /\ Passed(Top).todo = Top.todo \ {id}
    BY <1>1, <1>2 DEF Passed, StructFrameOK
  <2>3. Owed(obj.val, Passed(Top)) = StructOwed(Top.sd, v, Top.todo \ {id})
    BY <2>2 DEF Owed
  <2>4. FieldLen(ValueSize, Top.sd, id, x) = 0
    BY <1>6 DEF FieldLen
  <2> HIDE DEF v, id
  <2>5. StructOwed(Top.sd, v, Top.todo) = FieldLen(ValueSize, Top.sd, id, x) + StructOwed(Top.sd, v, Top.todo \ {id})
    BY <1>3, <1>5, StructOwedNext DEF Measured
  <2>6. StructOwed(Top.sd, v, Top.todo \ {id}) \in Nat
    <3>1. Top.todo \ {id} \in SUBSET DOMAIN Fields(Top.sd)
      BY <1>3
    <3> QED
      BY <1>3, <3>1, StructOwedNext DEF Measured
  <2>7. Owed(obj.val, Passed(Top)) = Owed(obj.val, Top)
    BY <1>3, <2>3, <2>4, <2>5, <2>6
  <2>8. Steady(obj.val, Passed(Top))
    BY <2>2 DEF Steady
  <2> QED
    BY <1>1, <2>1, <2>7, <2>8, SwapExact
<1>7. CASE ~Skipped(Top.sd, id, x)
  <2> DEFINE tok == Field(WT(Fields(Top.sd)[id].type), id)
  <2>1. pc' = "write" /\ out' = out \o <<tok>> /\ UNCHANGED stack
    BY <1>1, <1>4, <1>7 DEF NextField, Emit
  <2>2. Width(tok) = FieldHeaderLen /\ FieldHeaderLen \in Nat
    BY TokenWidths DEF FieldHeaderLen
  <2> HIDE DEF tok
  <2>3. /\ Measurable(out) /\ AllSteady(obj.val, stack) /\ Bytes(out, 1) + Owe(obj.val, stack) = size
        /\ Bytes(out, 1) \in Nat /\ Owed(obj.val, Top) \in Nat /\ Owe(obj.val, Rest) \in Nat /\ size \in Nat
        /\ Bytes(out, 1) + Owe(obj.val, Rest) + Owed(obj.val, Top) = size
    BY <1>1, AtNext
  <2>4. Owe(obj.val, stack) \in Nat
    BY <1>1, <2>3, RestOwes
  <2>5. Measurable(out') /\ Bytes(out', 1) = Bytes(out, 1) + FieldHeaderLen
    BY <2>1, <2>2, <2>3, Emitted
  <2>6. Bytes(out', 1) + Owe(obj.val, stack) = size + FieldHeaderLen
    BY <2>2, <2>3, <2>4, <2>5
  <2>7. HeaderOut' = FieldHeaderLen /\ Top' = Top
    BY <1>1, <2>1 DEF HeaderOut, Top
  <2>8. ~Skipped(Top.sd, NextId(Top), NextValue(obj.val, Top))
    BY <1>4, <1>7
  <2>9. Balance'
    BY <1>1, <2>1, <2>3, <2>6, <2>7, <2>8 DEF Balance
  <2> QED
    BY <2>1, <2>5, <2>9 DEF Exact
<1> QED
  BY <1>6, <1>7

\* The last struct leaves nothing owed.
LEMMA StructEndExact ==
    ASSUME Measured, Typed, Exact, changes = 0, StructEnd PROVE Exact'
<1> DEFINE v == IF Top.live THEN obj.val ELSE Top.val
           u == IF StructDesc[Top.sd].unknown THEN v.u ELSE <<>>
<1>1. /\ pc = "next" /\ Top.kind = "struct" /\ Top.todo = {} /\ UNCHANGED <<obj, size>> /\ stack' = Rest
      /\ pc' = IF Rest = <<>> THEN "end" ELSE "next"
  BY DEF StructEnd
<1>2. out' = out \o (u \o <<Stop>>)
  BY GivenIsObject DEF StructEnd, Emit, Typed, Inv
<1>3. FrameOK(Top) /\ StructFrameOK(Top) /\ TypeOK /\ obj.val # None
  BY <1>1, StackTyped, FrameKinds DEF Typed
<1>4. /\ Top.sd \in DOMAIN StructDesc /\ v \in Value[Pointer(Struct(Top.sd))] \ {None}
      /\ Owed(obj.val, Top) = StructOwed(Top.sd, v, {})
  BY <1>1, <1>3, StructOf
<1> HIDE DEF v
<1>5. Owed(obj.val, Top) = UnknownLen(Top.sd, v) + 1
  <2>1. {} \in SUBSET DOMAIN Fields(Top.sd)
    OBVIOUS
  <2> QED
    BY <1>4, <2>1, StructOwedNext DEF Measured
<1>6. Measurable(u) /\ Bytes(u, 1) = UnknownLen(Top.sd, v)
  BY <1>4, KeptMeasurable, BytesNone DEF UnknownLen, Measured
<1> HIDE DEF u
<1>7. Measurable(u \o <<Stop>>) /\ Bytes(u \o <<Stop>>, 1) = Owed(obj.val, Top)
  BY <1>5, <1>6, Emitted, TokenWidths
<1>8. /\ Measurable(out) /\ AllSteady(obj.val, Rest) /\ Owe(obj.val, Rest) \in Nat /\ Owed(obj.val, Top) \in Nat
      /\ Bytes(out, 1) \in Nat /\ Bytes(out, 1) + Owe(obj.val, Rest) + Owed(obj.val, Top) = size
  BY <1>1, AtNext
<1>9. Measurable(out') /\ Bytes(out', 1) = Bytes(out, 1) + Owed(obj.val, Top)
  BY <1>2, <1>7, <1>8, BytesCat
<1>10. Bytes(out', 1) + Owe(obj.val, Rest) = size
  BY <1>8, <1>9
<1>11. CASE Rest = <<>>
  <2>1. Owe(obj.val, <<>>) = 0
    BY OweNone
  <2>2. Bytes(out', 1) \in Nat /\ pc' = "end"
    BY <1>1, <1>8, <1>9, <1>11
  <2>3. Bytes(out', 1) = size'
    BY <1>1, <1>10, <1>11, <2>1, <2>2
  <2> QED
    BY <1>9, <2>2, <2>3 DEF Exact
<1>12. CASE Rest # <<>>
  <2>1. pc' = "next" /\ AllSteady(obj.val, stack') /\ Bytes(out', 1) + Owe(obj.val, stack') = size
    BY <1>1, <1>8, <1>10, <1>12
  <2> QED
    BY <1>1, <1>9, <2>1, NextExact
<1> QED
  BY <1>11, <1>12

LEMMA BeginExact ==
    ASSUME Measured, Typed, Exact, changes = 0, Begin PROVE Exact'
<1>1. pc = "measured" /\ UNCHANGED <<obj, size>>
  BY DEF Begin, Goto
<1>2. /\ out = <<>> /\ size = StructSize(ValueSize, obj.sd, obj.val)
      /\ obj.sd \in DOMAIN StructDesc /\ obj.val \in Value[Pointer(Struct(obj.sd))]
  BY <1>1 DEF Exact, EncodedSize, Typed, TypeOK
<1>3. Measurable(<<>>) /\ Bytes(<<>>, 1) = 0
  BY BytesNone
<1>4. CASE obj.val = None
  <2>1. pc' = "end" /\ out' = out \o <<Stop>>
    BY <1>4 DEF Begin, Goto, Emit
  <2>2. Measurable(out \o <<Stop>>) /\ Bytes(out \o <<Stop>>, 1) = Bytes(out, 1) + Width(Stop)
    <3>1. Measurable(out) /\ Width(Stop) \in Nat
      BY <1>2, <1>3, TokenWidths
    <3> QED
      BY <3>1, Emitted
  <2>3. Bytes(out', 1) = size'
    <3>1. Bytes(out', 1) = 0 + 1
      BY <1>2, <1>3, <2>1, <2>2, TokenWidths
    <3> QED
      BY <1>1, <1>2, <1>4, <3>1 DEF StructSize
  <2> QED
    BY <2>1, <2>2, <2>3 DEF Exact
<1>5. CASE obj.val # None
  <2> DEFINE f == StructFrame(obj.sd, obj.val, TRUE)
  <2>1. pc' = "next" /\ out' = out /\ stack' = <<f>>
    BY <1>5 DEF Begin, Goto
  <2>2. f.kind = "struct" /\ f.sd = obj.sd /\ f.live = TRUE /\ f.todo = DOMAIN Fields(obj.sd)
    BY DEF StructFrame
  <2>3. Append(<<>>, f) = <<f>>
    OBVIOUS
  <2> HIDE DEF f
  <2>4. Owed(obj.val, f) = StructOwed(obj.sd, obj.val, DOMAIN Fields(obj.sd))
    BY <2>2 DEF Owed
  <2>5. Owed(obj.val, f) = size /\ size \in Nat
    BY <1>2, <1>5, <2>4, StructSizeOwed DEF Measured, Typed, TypeOK
  <2>6. Steady(obj.val, f)
    BY <2>2 DEF Steady
  <2>7. IsSeq(<<>>) /\ AllOwe(obj.val, <<>>) /\ AllSteady(obj.val, <<>>) /\ Owe(obj.val, <<>>) = 0
    BY OweNone, EmptySeq DEF IsSeq, AllSteady
  <2>8. AllSteady(obj.val, <<f>>) /\ Owe(obj.val, <<f>>) = 0 + size
    BY <2>3, <2>5, <2>6, <2>7, PushOwes
  <2>9. Measurable(out') /\ AllSteady(obj.val, stack') /\ Bytes(out', 1) + Owe(obj.val, stack') = size
    BY <1>2, <1>3, <2>1, <2>5, <2>8
  <2> QED
    BY <1>1, <2>1, <2>9, NextExact
<1> QED
  BY <1>4, <1>5

-----------------------------------------------------------------------------
LEMMA InitExact == Init => Exact
BY BytesNone DEF Init, Exact

LEMMA StepExact ==
    ASSUME Measured, Typed, Exact, [Next]_vars PROVE Exact'
<1>1. changes \in Nat
  BY DEF Typed, TypeOK
<1>2. CASE Change
  BY <1>1, <1>2 DEF Change, Exact
<1>3. CASE ~Change /\ changes # 0
  <2>1. changes' = changes
    BY <1>3 DEF Next, Step, Measure, Begin, NextField, StructEnd, NextElement, ListEnd, Iterate, NextEntry,
                EntryValue, MapEnd, WriteSimple, WriteStruct, WriteList, WriteMap, Return, OtherTakes,
                OtherPuts, vars
  <2> QED
    BY <1>3, <2>1 DEF Exact
<1>4. CASE changes = 0
  <2>1. CASE Measure
    BY <1>4, <2>1 DEF Measure, Goto, Exact
  <2>2. CASE Return
    <3>1. pc = "end" /\ pc' = "returned" /\ UNCHANGED <<size, out>> /\ Measurable(out) /\ Bytes(out, 1) = size
      BY <1>4, <2>2 DEF Return, Exact
    <3>2. size \in Nat
      BY DEF Typed, TypeOK
    <3>3. res' = "ok"
      <4>1. ~(Bytes(out, 1) > size)
        BY <3>1, <3>2
      <4> QED
        BY <2>2, <3>1, <4>1 DEF Return
    <3> QED
      BY <3>1, <3>3 DEF Exact
  <2>3. CASE OtherTakes \/ OtherPuts \/ UNCHANGED vars
    <3>1. UNCHANGED <<obj, changes, size, pc, out, stack, res>>
      BY <2>3 DEF OtherTakes, OtherPuts, vars
    <3> QED
      BY <3>1 DEF Exact, Balance, HeaderOut, Top
  <2> QED
    BY <1>2, <1>4, <2>1, <2>2, <2>3, BeginExact, NextFieldExact, StructEndExact, ReadyExact, ListEndExact,
       IterateExact, NextEntryExact, MapEndExact, WriteSimpleExact, WriteStructExact, WriteListExact,
       WriteMapExact DEF Next, Step
<1> QED
  BY <1>2, <1>3, <1>4

\* The buffer that EncodedSize asks for is filled to the last byte by an object that
\* nobody changed meanwhile (EncodedSize and EncodeObject, frugal.go).
THEOREM MeasuredWritten ==
    ASSUME SizesDefined, PointersAsResolved, UnknownFieldsMeasured
    PROVE  Spec => []MeasuredIsWritten
<1>1. Init => Typed /\ Exact
  BY InitTyped, InitExact
<1>2. Typed /\ Exact /\ [Next]_vars => Typed' /\ Exact'
  BY StepTyped, StepExact DEF Measured
<1>3. Exact => MeasuredIsWritten
  BY DEF Exact, MeasuredIsWritten
<1> QED
  BY <1>1, <1>2, <1>3, PTL DEF Spec
=============================================================================
