--------------------------- MODULE DescriptorProofs ---------------------------
(***************************************************************************)
(* For any declarations and Go types: what the parser and the resolver     *)
(* return; no two types have one key; the cache, whatever it is used for,  *)
(* has for each type the entry of its own; so a field is measured and read *)
(* as its declaration says, and found by its id. The parser finds the type *)
(* that the text of a tag says by the grammar of types, and the resolver   *)
(* the fields that declarations are.                                       *)
(***************************************************************************)
EXTENDS Descriptor, CommonLemmas

-----------------------------------------------------------------------------
(***************************************************************************)
(* The types that a Go type stands for                                     *)
(***************************************************************************)
\* The readings of go are made of those of the Go types it is made of.
ReadingsBy(f, go) == ReadingsOf(go, f[go.elem], f[go.key])
ReadingsUpto(f, n) ==
    f = [go \in GoType |-> f[go]] /\ \A go \in GoType : Depth[go] < n => f[go] = ReadingsBy(f, go)

LEMMA ReadingsLocal ==
    ASSUME NEW f, NEW g, NEW go \in GoType, Agree(GoType, Depth, go, f, g)
    PROVE  ReadingsBy(f, go) = ReadingsBy(g, go)
<1>1. ASSUME go.kind \in {"ptr", "slice", "map"} PROVE f[go.elem] = g[go.elem]
  BY <1>1, GoTypeAssumption DEF Agree
<1>2. ASSUME go.kind = "map" PROVE f[go.key] = g[go.key]
  BY <1>2, GoTypeAssumption DEF Agree
<1>3. CASE go.kind = "ptr"
  BY <1>1, <1>3 DEF ReadingsBy, ReadingsOf
<1>4. CASE go.kind = "slice"
  BY <1>1, <1>4 DEF ReadingsBy, ReadingsOf
<1>5. CASE go.kind = "map"
  BY <1>1, <1>2, <1>5 DEF ReadingsBy, ReadingsOf
<1> QED
  BY <1>3, <1>4, <1>5 DEF ReadingsBy, ReadingsOf

LEMMA ReadingsUnique ==
    ASSUME NEW f, NEW g, NEW n \in Nat, ReadingsUpto(f, n), ReadingsUpto(g, n),
           NEW x \in GoType, Depth[x] < n
    PROVE  f[x] = g[x]
<1> DEFINE G == {y \in GoType : Depth[y] < n => f[y] = g[y]}
<1>1. ASSUME NEW y \in GoType, \A z \in GoType : Depth[z] < Depth[y] => z \in G PROVE y \in G
  <2> SUFFICES ASSUME Depth[y] < n PROVE f[y] = g[y]
    OBVIOUS
  <2>1. Agree(GoType, Depth, y, f, g)
    BY <1>1, GoTypeAssumption DEF Agree
  <2> QED
    BY <2>1, ReadingsLocal DEF ReadingsUpto
<1>2. GoType \subseteq G
  <2>1. Depth \in [GoType -> Nat]
    BY GoTypeAssumption
  <2> HIDE DEF G
  <2> QED
    BY <1>1, <2>1, ByDepth
<1> QED
  BY <1>2

LEMMA ReadingsUnfold == Readings = [go \in GoType |-> ReadingsOf(go, Readings[go.elem], Readings[go.key])]
<1> USE GoTypeAssumption
<1> DEFINE G == {n \in Nat : \E f : ReadingsUpto(f, n)}
<1>1. 0 \in G
  <2>1. ReadingsUpto([go \in GoType |-> {}], 0)
    BY DEF ReadingsUpto
  <2> QED
    BY <2>1
<1>2. ASSUME NEW n \in Nat, n \in G PROVE n + 1 \in G
  <2>1. PICK f : ReadingsUpto(f, n)
    BY <1>2
  <2> DEFINE g == [go \in GoType |-> ReadingsBy(f, go)]
  <2>2. ASSUME NEW go \in GoType, Depth[go] < n + 1 PROVE g[go] = ReadingsBy(g, go)
    <3>1. Agree(GoType, Depth, go, f, g)
      BY <2>1, <2>2 DEF Agree, ReadingsUpto
    <3> QED
      BY <3>1, ReadingsLocal
  <2>3. ReadingsUpto(g, n + 1)
    BY <2>2 DEF ReadingsUpto
  <2> QED
    BY <2>3
<1>3. Nat \subseteq G
  <2> HIDE DEF G
  <2> QED
    BY <1>1, <1>2, NatSet
<1> DEFINE h(n) == CHOOSE f : ReadingsUpto(f, n)
           F == [x \in GoType |-> h(Depth[x] + 1)[x]]
<1>4. ASSUME NEW n \in Nat PROVE ReadingsUpto(h(n), n)
  BY <1>3
<1>5. ASSUME NEW x \in GoType PROVE ReadingsUpto(h(Depth[x] + 1), Depth[x] + 1) /\ F[x] = h(Depth[x] + 1)[x]
  BY <1>4
<1>6. ASSUME NEW x \in GoType PROVE F[x] = ReadingsBy(F, x)
  <2> DEFINE k == h(Depth[x] + 1)
  <2>1. ReadingsUpto(k, Depth[x] + 1) /\ F[x] = k[x]
    BY <1>5
  <2> HIDE DEF F
  <2>2. ASSUME NEW y \in GoType, Depth[y] < Depth[x] PROVE F[y] = k[y]
    <3> DEFINE l == h(Depth[y] + 1)
    <3>1. ReadingsUpto(l, Depth[y] + 1) /\ F[y] = l[y]
      BY <1>5
    <3> HIDE DEF k, l, h
    <3>2. ReadingsUpto(k, Depth[y] + 1)
      BY <2>1, <2>2 DEF ReadingsUpto
    <3>3. Depth[y] + 1 \in Nat /\ Depth[y] < Depth[y] + 1
      OBVIOUS
    <3>4. k[y] = l[y]
      BY <3>1, <3>2, <3>3, ReadingsUnique
    <3> QED
      BY <3>1, <3>4
  <2>3. Agree(GoType, Depth, x, F, k)
    BY <2>2 DEF Agree
  <2> HIDE DEF h, k
  <2>4. ReadingsBy(F, x) = ReadingsBy(k, x)
    BY <2>3, ReadingsLocal
  <2>5. Depth[x] < Depth[x] + 1
    OBVIOUS
  <2> QED
    BY <2>1, <2>4, <2>5 DEF ReadingsUpto
<1>7. F = [go \in GoType |-> ReadingsBy(F, go)]
  <2>1. F = [go \in GoType |-> F[go]]
    OBVIOUS
  <2> HIDE DEF F
  <2> QED
    BY <1>6, <2>1
<1> HIDE DEF F
<1> QED
  BY <1>7 DEF Readings, ReadingsBy

ScalarT == {"bool", "i8", "double", "i16", "i32", "i64", "string", "struct", "enum"}

IsPointerTo(x, go) ==
    /\ go.kind = "ptr" /\ go.elem \in GoType /\ go.elem.kind # "ptr"
    /\ x = [T |-> "pointer", S |-> go, V |-> x.V] /\ x.T = "pointer"
    /\ x.V \in Readings[go.elem]

IsBinary(x, go) ==
    /\ go.kind = "slice" /\ go.elem = Byte
    /\ x = [T |-> "binary", S |-> go] /\ x.T = "binary"

IsListOrSet(x, go) ==
    /\ go.kind = "slice" /\ go.elem \in GoType /\ go.elem # Byte
    /\ x = [T |-> x.T, S |-> go, V |-> x.V] /\ x.T \in {"set", "list"}
    /\ x.V \in Readings[go.elem] /\ IsValueType(x.V)

IsMap(x, go) ==
    /\ go.kind = "map" /\ go.elem \in GoType /\ go.key \in GoType
    /\ x = [T |-> "map", S |-> go, K |-> x.K, V |-> x.V] /\ x.T = "map"
    /\ x.K \in Readings[go.key] /\ IsKeyType(x.K)
    /\ x.V \in Readings[go.elem] /\ IsValueType(x.V)

IsScalar(x, go) ==
    /\ go.kind \in DOMAIN KindTag \ {"map"}
    /\ x = [T |-> x.T, S |-> go] /\ x.T \in ScalarTags(go) /\ x.T \in ScalarT

LEMMA ScalarTagsAre ==
    ASSUME NEW go, go.kind \in DOMAIN KindTag \ {"map"}
    PROVE  ScalarTags(go) \subseteq ScalarT
BY DEF KindTag, ScalarTags, ScalarT

\* A type is a pointer, a list or a set, a map or none of them, as its Go type is.
LEMMA ReadingIs ==
    ASSUME NEW go \in GoType, NEW x \in Readings[go]
    PROVE  /\ x.S = go
           /\ IsPointerTo(x, go) \/ IsBinary(x, go) \/ IsListOrSet(x, go) \/ IsMap(x, go) \/ IsScalar(x, go)
<1>1. x \in ReadingsOf(go, Readings[go.elem], Readings[go.key])
  BY ReadingsUnfold
<1>2. CASE go.kind = "ptr"
  <2>1. x \in {[T |-> "pointer", S |-> go, V |-> v] : v \in IF go.elem.kind = "ptr" THEN {} ELSE Readings[go.elem]}
    BY <1>1, <1>2 DEF ReadingsOf, KindTag
  <2>2. x.S = go /\ IsPointerTo(x, go)
    BY <1>2, <2>1, GoTypeAssumption DEF IsPointerTo
  <2> QED
    BY <2>2
<1>3. CASE go.kind = "slice"
  <2>1. CASE go.elem = Byte
    <3>1. x \in {[T |-> "binary", S |-> go]}
      BY <1>1, <1>3, <2>1 DEF ReadingsOf, KindTag
    <3> QED
      BY <1>3, <2>1, <3>1 DEF IsBinary
  <2>2. CASE go.elem # Byte
    <3>1. x \in {[T |-> t, S |-> go, V |-> v] : t \in {"set", "list"}, v \in {v \in Readings[go.elem] : IsValueType(v)}}
      BY <1>1, <1>3, <2>2 DEF ReadingsOf, KindTag
    <3>2. x.S = go /\ IsListOrSet(x, go)
      BY <1>3, <2>2, <3>1, GoTypeAssumption DEF IsListOrSet
    <3> QED
      BY <3>2
  <2> QED
    BY <2>1, <2>2
<1>4. CASE go.kind = "map"
  <2>1. x \in {[T |-> "map", S |-> go, K |-> k, V |-> v] :
                  k \in {k \in Readings[go.key] : IsKeyType(k)}, v \in {v \in Readings[go.elem] : IsValueType(v)}}
    BY <1>1, <1>4 DEF ReadingsOf
  <2>2. x.S = go /\ IsMap(x, go)
    BY <1>4, <2>1, GoTypeAssumption DEF IsMap
  <2> QED
    BY <2>2
<1>5. CASE go.kind \in DOMAIN KindTag \ {"map"}
  <2>1. go.kind \notin {"ptr", "slice", "map"}
    BY <1>5 DEF KindTag
  <2>2. x \in {[T |-> t, S |-> go] : t \in ScalarTags(go)}
    BY <1>1, <1>5, <2>1 DEF ReadingsOf
  <2>3. x.S = go /\ IsScalar(x, go)
    BY <1>5, <2>2, ScalarTagsAre DEF IsScalar
  <2> QED
    BY <2>3
<1> QED
  BY <1>1, <1>2, <1>3, <1>4, <1>5 DEF ReadingsOf

\* What is such a pointer, list, set, map or none of them is a type.
LEMMA IsReading ==
    ASSUME NEW go \in GoType, NEW x,
           IsPointerTo(x, go) \/ IsBinary(x, go) \/ IsListOrSet(x, go) \/ IsMap(x, go) \/ IsScalar(x, go)
    PROVE  x \in Readings[go]
<1> SUFFICES x \in ReadingsOf(go, Readings[go.elem], Readings[go.key])
  BY ReadingsUnfold
<1>1. CASE IsPointerTo(x, go)
  BY <1>1 DEF IsPointerTo, ReadingsOf, KindTag
<1>2. CASE IsBinary(x, go)
  BY <1>2 DEF IsBinary, ReadingsOf, KindTag
<1>3. CASE IsListOrSet(x, go)
  BY <1>3 DEF IsListOrSet, ReadingsOf, KindTag
<1>4. CASE IsMap(x, go)
  BY <1>4 DEF IsMap, ReadingsOf
<1>5. CASE IsScalar(x, go)
  <2>1. go.kind \notin {"ptr", "slice", "map"}
    BY <1>5 DEF IsScalar, KindTag
  <2> QED
    BY <1>5, <2>1 DEF IsScalar, ReadingsOf
<1> QED
  BY <1>1, <1>2, <1>3, <1>4, <1>5

LEMMA TypeIs ==
    ASSUME NEW x \in Type
    PROVE  x.S \in GoType /\ x \in Readings[x.S]
BY ReadingIs DEF Type

LEMMA ReadingType ==
    ASSUME NEW go \in GoType, NEW x \in Readings[go]
    PROVE  x \in Type
BY DEF Type

-----------------------------------------------------------------------------
(***************************************************************************)
(* ParseType returns a type that the Go type can stand for                 *)
(***************************************************************************)
Text == Seq(Token)
Done(S) == {Ok(x, i) : x \in S, i \in Nat}
Outcome(S) == {Err, Panic} \cup Done(S)
ParserFor(go) ==
    {f \in [Text \X Nat \X BOOLEAN -> Outcome(Readings[go])] :
        go.kind = "ptr" => \A def \in Text, i \in Nat : f[<<def, i, FALSE>>] = Panic}

LEMMA OutcomeIs ==
    ASSUME NEW S, NEW r \in Outcome(S)
    PROVE  /\ r = Err \/ r = Panic \/ (r = Ok(r.x, r.i) /\ r.x \in S /\ r.i \in Nat)
           /\ r.st = "ok" <=> r \notin {Err, Panic}
           /\ r.st = "ok" => r = Ok(r.x, r.i) /\ r.x \in S /\ r.i \in Nat
BY DEF Outcome, Done, Err, Panic, Ok

LEMMA OkIs == \A x, i : Ok(x, i).st = "ok" /\ Ok(x, i).x = x /\ Ok(x, i).i = i
BY DEF Ok

LEMMA NotOk == Err.st = "err" /\ Panic.st = "panic" /\ Err # Panic
BY DEF Err, Panic

LEMMA ReadTokenIs ==
    ASSUME NEW def \in Text, NEW i \in Nat
    PROVE  /\ i < Len(def) => ReadToken(def, i) = Ok(def[i + 1], i + 1) /\ def[i + 1] \in Token /\ i + 1 \in 1..Len(def)
           /\ i >= Len(def) => ReadToken(def, i) = Err
           /\ ReadToken(def, i) \in Outcome(Token)
<1>1. Len(def) \in Nat
  BY LenProperties DEF Text
<1>2. CASE i < Len(def)
  <2>1. i + 1 \in 1..Len(def)
    BY <1>1, <1>2
  <2>2. def[i + 1] \in Token
    BY <2>1, ElementOfSeq DEF Text
  <2> QED
    BY <1>1, <1>2, <2>1, <2>2 DEF ReadToken, Outcome, Done
<1>3. CASE i >= Len(def)
  BY <1>1, <1>3 DEF ReadToken, Outcome
<1> QED
  BY <1>1, <1>2, <1>3

LEMMA ExpectIs ==
    ASSUME NEW def \in Text, NEW i \in Nat, NEW tok \in Token
    PROVE  /\ def = <<>> => Expect(tok, def, i) = Ok(tok, i)
           /\ def # <<>> /\ i < Len(def) /\ def[i + 1] = tok => Expect(tok, def, i) = Ok(tok, i + 1)
           /\ def # <<>> /\ ~ (i < Len(def) /\ def[i + 1] = tok) => Expect(tok, def, i) = Err
           /\ Expect(tok, def, i) \in Outcome(Token)
<1>1. Len(def) \in Nat
  BY LenProperties DEF Text
<1>2. CASE def = <<>>
  BY <1>2 DEF Expect, Outcome, Done
<1>3. CASE def # <<>> /\ i < Len(def)
  BY <1>3, ReadTokenIs, OkIs DEF Expect, Bind, Outcome, Done
<1>4. CASE def # <<>> /\ ~(i < Len(def))
  BY <1>1, <1>4, ReadTokenIs, NotOk DEF Expect, Bind, Outcome, Done
<1> QED
  BY <1>2, <1>3, <1>4

LEMMA ExpectTyped ==
    ASSUME NEW def \in Text, NEW i \in Nat, NEW tok \in {"<", ":", ">"}
    PROVE  Expect(tok, def, i) \in Outcome(Token)
<1>1. tok \in Token
  BY DEF Token, Punctuation
<1> QED
  BY <1>1, ExpectIs

LEMMA MatchStructTyped ==
    ASSUME NEW vt, NEW def \in Text, NEW i \in Nat, NEW tv
    PROVE  MatchStruct(vt, def, i, tv) \in Outcome(BOOLEAN)
<1> DEFINE next == IF i < Len(def) THEN def[i + 1] ELSE ""
           r == ReadToken(def, i + 1)
<1>1. r \in Outcome(Token)
  BY ReadTokenIs
<1>2. r.st = "ok" => r.i \in Nat
  BY <1>1, OutcomeIs
<1>3. r.st # "ok" => r \in {Err, Panic}
  BY <1>1, OutcomeIs
<1>4. ASSUME NEW b \in BOOLEAN, NEW j \in Nat PROVE Ok(b, j) \in Outcome(BOOLEAN)
  BY DEF Outcome, Done
<1>5. Err \in Outcome(BOOLEAN) /\ Panic \in Outcome(BOOLEAN)
  BY DEF Outcome
<1>6. MatchStruct(vt, def, i, tv) =
          IF vt.kind = "struct" /\ vt.name = "" THEN Ok(TRUE, i)
          ELSE IF next \in {"", ":", ">"} THEN Ok(vt.name = tv, i)
          ELSE IF next # "." THEN Err
          ELSE IF r.st # "ok" THEN r
          ELSE IF r.x \in Punctuation THEN Err ELSE Ok(vt.name = r.x, r.i)
  BY DEF MatchStruct, Bind
<1>7. Ok(TRUE, i) \in Outcome(BOOLEAN) /\ Ok(vt.name = tv, i) \in Outcome(BOOLEAN)
  BY <1>4
<1>8. r.st = "ok" => Ok(vt.name = r.x, r.i) \in Outcome(BOOLEAN)
  BY <1>2, <1>4
<1> QED
  BY <1>3, <1>5, <1>6, <1>7, <1>8

LEMMA MatchTypeTyped ==
    ASSUME NEW vt, NEW tag, NEW def \in Text, NEW i \in Nat
    PROVE  MatchType(vt, tag, def, i) \in Outcome({tag} \cup IF tag = "i64" /\ vt # Int64 THEN {"enum"} ELSE {})
<1> DEFINE r == ReadToken(def, i)
           m == MatchStruct(vt, def, r.i, r.x)
<1>1. r \in Outcome(Token)
  BY ReadTokenIs
<1>2. CASE def = <<>>
  BY <1>2 DEF MatchType, Outcome, Done
<1>3. CASE def # <<>> /\ r.st # "ok"
  BY <1>1, <1>3, OutcomeIs DEF MatchType, Bind, Outcome
<1>4. CASE def # <<>> /\ r.st = "ok"
  <2>1. r.i \in Nat
    BY <1>1, <1>4, OutcomeIs
  <2>2. m \in Outcome(BOOLEAN)
    BY <2>1, MatchStructTyped
  <2>3. MatchType(vt, tag, def, i) =
            IF r.x \in Keyword[tag] THEN Ok(tag, r.i)
            ELSE IF r.x \in Punctuation THEN Err
            ELSE IF m.st # "ok" THEN m
            ELSE IF ~m.x THEN Err
            ELSE Ok(IF tag = "i64" /\ vt # Int64 THEN "enum" ELSE tag, m.i)
    BY <1>4 DEF MatchType, Bind
  <2>4. m.st # "ok" => m \in {Err, Panic}
    BY <2>2, OutcomeIs
  <2>5. m.st = "ok" => m.i \in Nat
    BY <2>2, OutcomeIs
  <2> QED
    BY <2>1, <2>3, <2>4, <2>5 DEF Outcome, Done
<1> QED
  BY <1>2, <1>3, <1>4

\* The steps of doParseSlice, one after the other.
LEMMA SliceSteps ==
    ASSUME NEW elem, NEW vt, NEW def, NEW i
    PROVE  LET r1 == ReadToken(def, i)
               r2 == Expect("<", def, r1.i)
               r3 == elem[<<def, r2.i, TRUE>>]
               r4 == Expect(">", def, r3.i)
           IN  doParseSlice(elem, vt, def, i) =
                 IF r1.st # "ok" THEN r1
                 ELSE IF r1.x \notin {"set", "list"} THEN Err
                 ELSE IF r2.st # "ok" THEN r2
                 ELSE IF r3.st # "ok" THEN r3
                 ELSE IF r4.st # "ok" THEN r4
                 ELSE IF IsValueType(r3.x) THEN Ok([T |-> r1.x, S |-> vt, V |-> r3.x], r4.i) ELSE Err
BY DEF doParseSlice, Bind

LEMMA SliceTyped ==
    ASSUME NEW go \in GoType, go.kind = "slice", go.elem # Byte, NEW elem \in ParserFor(go.elem),
           NEW def \in Text, NEW i \in Nat
    PROVE  doParseSlice(elem, go, def, i) \in Outcome(Readings[go])
<1> DEFINE r1 == ReadToken(def, i)
           r2 == Expect("<", def, r1.i)
           r3 == elem[<<def, r2.i, TRUE>>]
           r4 == Expect(">", def, r3.i)
           x == [T |-> r1.x, S |-> go, V |-> r3.x]
<1>1. r1 \in Outcome(Token)
  BY ReadTokenIs
<1>2. r1.st = "ok" => r1.i \in Nat
  BY <1>1, OutcomeIs
<1>3. r1.st = "ok" => r2 \in Outcome(Token)
  BY <1>2, ExpectTyped
<1>4. r1.st = "ok" /\ r2.st = "ok" => r2.i \in Nat
  BY <1>3, OutcomeIs
<1>5. r1.st = "ok" /\ r2.st = "ok" => r3 \in Outcome(Readings[go.elem])
  BY <1>4 DEF ParserFor
<1>6. r1.st = "ok" /\ r2.st = "ok" /\ r3.st = "ok" => r3.i \in Nat /\ r3.x \in Readings[go.elem]
  BY <1>5, OutcomeIs
<1>7. r1.st = "ok" /\ r2.st = "ok" /\ r3.st = "ok" => r4 \in Outcome(Token)
  BY <1>6, ExpectTyped
<1>8. r1.st = "ok" /\ r2.st = "ok" /\ r3.st = "ok" /\ r4.st = "ok" => r4.i \in Nat
  BY <1>7, OutcomeIs
<1>9. ASSUME r1.x \in {"set", "list"}, r3.x \in Readings[go.elem], IsValueType(r3.x) PROVE x \in Readings[go]
  <2>1. IsListOrSet(x, go)
    BY <1>9, GoTypeAssumption DEF IsListOrSet
  <2> QED
    BY <2>1, IsReading
<1>10. \A S, T : \A r \in Outcome(S) : r.st # "ok" => r \in Outcome(T)
  BY OutcomeIs DEF Outcome
<1>11. Err \in Outcome(Readings[go]) /\ \A y \in Readings[go], j \in Nat : Ok(y, j) \in Outcome(Readings[go])
  BY DEF Outcome, Done
<1> HIDE DEF r1, r2, r3, r4, x
<1>12. doParseSlice(elem, go, def, i) =
         IF r1.st # "ok" THEN r1
         ELSE IF r1.x \notin {"set", "list"} THEN Err
         ELSE IF r2.st # "ok" THEN r2
         ELSE IF r3.st # "ok" THEN r3
         ELSE IF r4.st # "ok" THEN r4
         ELSE IF IsValueType(r3.x) THEN Ok(x, r4.i) ELSE Err
  BY SliceSteps DEF r1, r2, r3, r4, x
<1> QED
  BY <1>1, <1>3, <1>5, <1>6, <1>7, <1>8, <1>9, <1>10, <1>11, <1>12

LEMMA MapSteps ==
    ASSUME NEW key, NEW elem, NEW vt, NEW def, NEW i
    PROVE  LET r1 == Expect("<", def, i)
               r2 == key[<<def, r1.i, TRUE>>]
               r3 == Expect(":", def, r2.i)
               r4 == elem[<<def, r3.i, TRUE>>]
               r5 == Expect(">", def, r4.i)
           IN  ParseMap(key, elem, vt, def, i) =
                 IF r1.st # "ok" THEN r1
                 ELSE IF r2.st # "ok" THEN r2
                 ELSE IF ~IsKeyType(r2.x) THEN Err
                 ELSE IF r3.st # "ok" THEN r3
                 ELSE IF r4.st # "ok" THEN r4
                 ELSE IF r5.st # "ok" THEN r5
                 ELSE IF IsValueType(r4.x)
                      THEN Ok([T |-> "map", S |-> vt, K |-> r2.x, V |-> r4.x], r5.i) ELSE Err
BY DEF ParseMap, Bind

LEMMA MapTyped ==
    ASSUME NEW go \in GoType, go.kind = "map", NEW key \in ParserFor(go.key), NEW elem \in ParserFor(go.elem),
           NEW def \in Text, NEW i \in Nat
    PROVE  ParseMap(key, elem, go, def, i) \in Outcome(Readings[go])
<1> DEFINE r1 == Expect("<", def, i)
           r2 == key[<<def, r1.i, TRUE>>]
           r3 == Expect(":", def, r2.i)
           r4 == elem[<<def, r3.i, TRUE>>]
           r5 == Expect(">", def, r4.i)
           x == [T |-> "map", S |-> go, K |-> r2.x, V |-> r4.x]
           ok(r) == r.st = "ok"
<1>1. r1 \in Outcome(Token)
  BY ExpectTyped
<1>2. ok(r1) => r1.i \in Nat
  BY <1>1, OutcomeIs
<1>3. ok(r1) => r2 \in Outcome(Readings[go.key])
  BY <1>2 DEF ParserFor
<1>4. ok(r1) /\ ok(r2) => r2.i \in Nat /\ r2.x \in Readings[go.key]
  BY <1>3, OutcomeIs
<1>5. ok(r1) /\ ok(r2) => r3 \in Outcome(Token)
  BY <1>4, ExpectTyped
<1>6. ok(r1) /\ ok(r2) /\ ok(r3) => r3.i \in Nat
  BY <1>5, OutcomeIs
<1>7. ok(r1) /\ ok(r2) /\ ok(r3) => r4 \in Outcome(Readings[go.elem])
  BY <1>6 DEF ParserFor
<1>8. ok(r1) /\ ok(r2) /\ ok(r3) /\ ok(r4) => r4.i \in Nat /\ r4.x \in Readings[go.elem]
  BY <1>7, OutcomeIs
<1>9. ok(r1) /\ ok(r2) /\ ok(r3) /\ ok(r4) => r5 \in Outcome(Token)
  BY <1>8, ExpectTyped
<1>10. ok(r1) /\ ok(r2) /\ ok(r3) /\ ok(r4) /\ ok(r5) => r5.i \in Nat
  BY <1>9, OutcomeIs
<1>11. ASSUME r2.x \in Readings[go.key], IsKeyType(r2.x), r4.x \in Readings[go.elem], IsValueType(r4.x)
       PROVE  x \in Readings[go]
  <2>1. IsMap(x, go)
    BY <1>11, GoTypeAssumption DEF IsMap
  <2> QED
    BY <2>1, IsReading
<1>12. \A S, T : \A r \in Outcome(S) : r.st # "ok" => r \in Outcome(T)
  BY OutcomeIs DEF Outcome
<1>13. Err \in Outcome(Readings[go]) /\ \A y \in Readings[go], j \in Nat : Ok(y, j) \in Outcome(Readings[go])
  BY DEF Outcome, Done
<1> HIDE DEF r1, r2, r3, r4, r5, x
<1>14. ParseMap(key, elem, go, def, i) =
         IF r1.st # "ok" THEN r1
         ELSE IF r2.st # "ok" THEN r2
         ELSE IF ~IsKeyType(r2.x) THEN Err
         ELSE IF r3.st # "ok" THEN r3
         ELSE IF r4.st # "ok" THEN r4
         ELSE IF r5.st # "ok" THEN r5
         ELSE IF IsValueType(r4.x) THEN Ok(x, r5.i) ELSE Err
  BY MapSteps DEF r1, r2, r3, r4, r5, x
<1> QED
  BY <1>1, <1>3, <1>4, <1>5, <1>7, <1>8, <1>9, <1>10, <1>11, <1>12, <1>13, <1>14

LEMMA ParserTyped ==
    ASSUME NEW go \in GoType, NEW key, NEW elem,
           go.kind \in {"ptr", "slice", "map"} => elem \in ParserFor(go.elem),
           go.kind = "map" => key \in ParserFor(go.key)
    PROVE  Parser(key, elem, go) \in ParserFor(go)
<1> DEFINE P(def, i, p) == ParseAt(key, elem, go, def, i, p)
<1>0. SUFFICES ASSUME NEW def \in Text, NEW i \in Nat, NEW p \in BOOLEAN
               PROVE  /\ P(def, i, p) \in Outcome(Readings[go])
                      /\ go.kind = "ptr" /\ ~p => P(def, i, p) = Panic
  <2> HIDE DEF P
  <2>1. \A at \in Text \X Nat \X BOOLEAN : P(at[1], at[2], at[3]) \in Outcome(Readings[go])
    BY <1>0
  <2>2. Parser(key, elem, go) = [at \in Text \X Nat \X BOOLEAN |-> P(at[1], at[2], at[3])]
    BY DEF Parser, Text, P
  <2> QED
    BY <1>0, <2>1, <2>2 DEF ParserFor
<1>1. \A S, T : \A r \in Outcome(S) : r.st # "ok" => r \in Outcome(T)
  BY OutcomeIs DEF Outcome
<1>2. /\ Err \in Outcome(Readings[go]) /\ Panic \in Outcome(Readings[go])
      /\ \A y \in Readings[go], j \in Nat : Ok(y, j) \in Outcome(Readings[go])
  BY DEF Outcome, Done
<1>3. CASE go.kind = "ptr"
  <2> DEFINE r == elem[<<def, i, FALSE>>]
             x == [T |-> "pointer", S |-> go, V |-> r.x]
  <2>1. r \in Outcome(Readings[go.elem]) /\ (go.elem.kind = "ptr" => r = Panic)
    BY <1>3 DEF ParserFor
  <2>2. P(def, i, p) = IF ~p THEN Panic ELSE IF r.st = "ok" THEN Ok(x, r.i) ELSE r
    BY <1>3 DEF ParseAt, Bind, KindTag
  <2>3. r.st = "ok" => r.x \in Readings[go.elem] /\ r.i \in Nat /\ go.elem.kind # "ptr"
    BY <2>1, OutcomeIs, NotOk
  <2>4. ASSUME r.x \in Readings[go.elem], go.elem.kind # "ptr" PROVE x \in Readings[go]
    <3>1. IsPointerTo(x, go)
      BY <1>3, <2>4, GoTypeAssumption DEF IsPointerTo
    <3> QED
      BY <3>1, IsReading
  <2> HIDE DEF r, x, P
  <2> QED
    BY <1>1, <1>2, <2>1, <2>2, <2>3, <2>4
<1>4. CASE go.kind = "slice"
  <2> DEFINE r == MatchType(go, "binary", def, i)
             x == [T |-> r.x, S |-> go]
  <2>1. r \in Outcome({"binary"})
    BY MatchTypeTyped
  <2>2. P(def, i, p) =
          IF go.elem = Byte THEN (IF r.st = "ok" THEN Ok(x, r.i) ELSE r)
          ELSE IF def = <<>> THEN Err ELSE doParseSlice(elem, go, def, i)
    BY <1>4 DEF ParseAt, Bind, KindTag
  <2>3. ASSUME go.elem = Byte, r.st = "ok" PROVE x \in Readings[go] /\ r.i \in Nat
    <3>1. r.x = "binary" /\ r.i \in Nat
      BY <2>1, <2>3, OutcomeIs
    <3>2. IsBinary(x, go)
      BY <1>4, <2>3, <3>1 DEF IsBinary
    <3> QED
      BY <3>1, <3>2, IsReading
  <2>4. go.elem # Byte => doParseSlice(elem, go, def, i) \in Outcome(Readings[go])
    BY <1>4, SliceTyped
  <2> HIDE DEF r, x, P
  <2> QED
    BY <1>1, <1>2, <1>4, <2>1, <2>2, <2>3, <2>4
<1>5. CASE go.kind \in DOMAIN KindTag
  <2> DEFINE tag == KindTag[go.kind]
             r == MatchType(go, tag, def, i)
             x == [T |-> r.x, S |-> go]
  <2>1. r \in Outcome({tag} \cup IF tag = "i64" /\ go # Int64 THEN {"enum"} ELSE {})
    BY MatchTypeTyped
  <2>2. P(def, i, p) =
          IF r.st = "ok" THEN (IF r.x = "map" THEN ParseMap(key, elem, go, def, r.i) ELSE Ok(x, r.i)) ELSE r
    BY <1>5 DEF ParseAt, Bind, KindTag
  <2>3. r.st = "ok" => r.i \in Nat
    BY <2>1, OutcomeIs
  <2>4. r.st = "ok" => (r.x = "map" <=> go.kind = "map")
    BY <1>5, <2>1, OutcomeIs DEF KindTag
  <2>5. ASSUME go.kind # "map", r.st = "ok" PROVE x \in Readings[go]
    <3>1. r.x \in ScalarTags(go)
      BY <2>1, <2>5, OutcomeIs DEF ScalarTags
    <3>2. IsScalar(x, go)
      BY <1>5, <2>5, <3>1, ScalarTagsAre DEF IsScalar
    <3> QED
      BY <3>2, IsReading
  <2>6. go.kind = "map" /\ r.st = "ok" => ParseMap(key, elem, go, def, r.i) \in Outcome(Readings[go])
    BY <2>3, MapTyped
  <2>7. go.kind # "ptr"
    BY <1>5 DEF KindTag
  <2> HIDE DEF r, x, P
  <2> QED
    BY <1>1, <1>2, <2>1, <2>2, <2>3, <2>4, <2>5, <2>6, <2>7
<1>6. CASE go.kind \notin {"ptr", "slice"} \cup DOMAIN KindTag
  <2>1. P(def, i, p) = Err
    BY <1>6 DEF ParseAt
  <2> HIDE DEF P
  <2> QED
    BY <1>2, <1>6, <2>1
<1> QED
  BY <1>3, <1>4, <1>5, <1>6

\* A parser asks those of the key and element types only if there are such types.
LEMMA ParserLocal ==
    ASSUME NEW go \in GoType, NEW key1, NEW key2, NEW elem1, NEW elem2,
           go.kind \in {"ptr", "slice", "map"} => elem1 = elem2,
           go.kind = "map" => key1 = key2
    PROVE  Parser(key1, elem1, go) = Parser(key2, elem2, go)
<1> SUFFICES ASSUME NEW def \in Text, NEW i \in Nat, NEW p \in BOOLEAN
             PROVE  ParseAt(key1, elem1, go, def, i, p) = ParseAt(key2, elem2, go, def, i, p)
  BY DEF Parser, Text
<1>1. CASE go.kind = "ptr"
  BY <1>1 DEF ParseAt, KindTag
<1>2. CASE go.kind = "slice"
  BY <1>2 DEF ParseAt, KindTag
<1>3. CASE go.kind = "map"
  BY <1>3
<1>4. CASE go.kind \in DOMAIN KindTag \ {"map"}
  <2> DEFINE tag == KindTag[go.kind]
             r == MatchType(go, tag, def, i)
  <2>1. r \in Outcome({tag} \cup IF tag = "i64" /\ go # Int64 THEN {"enum"} ELSE {})
    BY MatchTypeTyped
  <2>2. r.st = "ok" => r.x # "map"
    BY <1>4, <2>1, OutcomeIs DEF KindTag
  <2>3. ASSUME NEW key, NEW elem
        PROVE  ParseAt(key, elem, go, def, i, p) =
                 IF r.st = "ok" THEN (IF r.x = "map" THEN ParseMap(key, elem, go, def, r.i)
                                      ELSE Ok([T |-> r.x, S |-> go], r.i)) ELSE r
    BY <1>4 DEF ParseAt, Bind, KindTag
  <2> HIDE DEF r
  <2> QED
    BY <2>2, <2>3
<1>5. CASE go.kind \notin {"ptr", "slice"} \cup DOMAIN KindTag
  BY <1>5 DEF ParseAt
<1> QED
  BY <1>1, <1>2, <1>3, <1>4, <1>5

LEMMA ParseUnfold ==
    /\ doParseType = [go \in GoType |-> Parser(doParseType[go.key], doParseType[go.elem], go)]
    /\ \A go \in GoType : doParseType[go] \in ParserFor(go)
<1> DEFINE W == [go \in GoType |-> ParserFor(go)]
           body(f, go) == Parser(f[go.key], f[go.elem], go)
           step == [f \in Product(GoType, W) |-> [go \in GoType |-> body(f, go)]]
<1>0. Depth \in [GoType -> Nat]
  BY GoTypeAssumption
<1>1. ASSUME NEW f, NEW go \in GoType, \A y \in GoType : Depth[y] < Depth[go] => f[y] \in ParserFor(y)
      PROVE  body(f, go) \in ParserFor(go)
  <2>1. go.kind \in {"ptr", "slice", "map"} => f[go.elem] \in ParserFor(go.elem)
    BY <1>1, GoTypeAssumption
  <2>2. go.kind = "map" => f[go.key] \in ParserFor(go.key)
    BY <1>1, GoTypeAssumption
  <2> QED
    BY <2>1, <2>2, ParserTyped
<1>2. ASSUME NEW f, NEW g, NEW go \in GoType, Agree(GoType, Depth, go, f, g)
      PROVE  body(f, go) = body(g, go)
  <2>1. go.kind \in {"ptr", "slice", "map"} => f[go.elem] = g[go.elem]
    BY <1>2, GoTypeAssumption DEF Agree
  <2>2. go.kind = "map" => f[go.key] = g[go.key]
    BY <1>2, GoTypeAssumption DEF Agree
  <2> QED
    BY <2>1, <2>2, ParserLocal
<1>3. ASSUME NEW go \in GoType PROVE W[go] # {}
  <2>1. [at \in Text \X Nat \X BOOLEAN |-> Panic] \in ParserFor(go)
    BY DEF ParserFor, Outcome
  <2> QED
    BY <2>1
<1>4. step \in [Product(GoType, W) -> Product(GoType, W)]
  <2> HIDE DEF body
  <2> QED
    BY <1>1 DEF Product
<1>5. Local(GoType, W, Depth, step)
  <2> HIDE DEF body
  <2> QED
    BY <1>2 DEF Local
<1>6. PICK F \in Product(GoType, W) : F = step[F]
  <2> HIDE DEF W, step
  <2> QED
    BY <1>0, <1>3, <1>4, <1>5, Recursion
<1>7. doParseType = [go \in GoType |-> body(doParseType, go)]
  <2>1. F = [go \in GoType |-> body(F, go)]
    BY <1>6
  <2> QED
    BY <2>1 DEF doParseType
<1>8. \A go \in GoType : doParseType[go] \in ParserFor(go)
  <2> DEFINE G == {go \in GoType : doParseType[go] \in ParserFor(go)}
  <2>1. ASSUME NEW go \in GoType, \A y \in GoType : Depth[y] < Depth[go] => y \in G PROVE go \in G
    <3>1. body(doParseType, go) \in ParserFor(go)
      BY <1>1, <2>1
    <3> QED
      BY <1>7, <3>1
  <2>2. GoType \subseteq G
    <3> HIDE DEF G
    <3> QED
      BY <1>0, <2>1, ByDepth
  <2> QED
    BY <2>2
<1> QED
  BY <1>7, <1>8

\* What ParseType returns for a Go type is one of the types it can stand for.
LEMMA ParseTyped ==
    ASSUME NEW go \in GoType, NEW def \in Text
    PROVE  ParseType(go, def) \in Outcome(Readings[go])
<1>1. <<def, 0, TRUE>> \in Text \X Nat \X BOOLEAN
  OBVIOUS
<1> QED
  BY <1>1, ParseUnfold DEF ParseType, ParserFor

-----------------------------------------------------------------------------
(***************************************************************************)
(* Types and their parts                                                   *)
(***************************************************************************)
TypeDepth == [x \in Type |-> Depth[x.S]]

LEMMA TypeDepthIs == TypeDepth \in [Type -> Nat]
BY GoTypeAssumption, TypeIs DEF TypeDepth

\* The types a type refers to are types, of Go types that nest less deep.
LEMMA PartsSmaller ==
    ASSUME NEW x \in Type
    PROVE  /\ x.T \in {"map", "set", "list", "pointer"} =>
                 x.V \in Type /\ TypeDepth[x.V] < TypeDepth[x]
           /\ x.T = "map" => x.K \in Type /\ TypeDepth[x.K] < TypeDepth[x]
<1> DEFINE go == x.S
<1>1. go \in GoType /\ x \in Readings[go]
  BY TypeIs
<1>2. ASSUME NEW g \in GoType, NEW y \in Readings[g], Depth[g] < Depth[go]
      PROVE  y \in Type /\ TypeDepth[y] < TypeDepth[x]
  BY <1>1, <1>2, ReadingIs, ReadingType DEF TypeDepth
<1>3. CASE IsPointerTo(x, go)
  BY <1>1, <1>2, <1>3, GoTypeAssumption DEF IsPointerTo
<1>4. CASE IsListOrSet(x, go)
  BY <1>1, <1>2, <1>4, GoTypeAssumption DEF IsListOrSet
<1>5. CASE IsMap(x, go)
  BY <1>1, <1>2, <1>5, GoTypeAssumption DEF IsMap
<1>6. CASE IsBinary(x, go) \/ IsScalar(x, go)
  BY <1>6 DEF IsBinary, IsScalar, ScalarT
<1> QED
  BY <1>1, <1>3, <1>4, <1>5, <1>6, ReadingIs

\* What the strings of types are made of.
Piece == {"map", "set", "list", "<", ":", ">", "*", "binary"} \cup ScalarT \cup {go.name : go \in GoType}

StringBy(f, x) ==
    CASE x.T = "struct" -> <<x.S.name>>
      [] x.T = "map" -> <<"map", "<">> \o f[x.K] \o <<":">> \o f[x.V] \o <<">">>
      [] x.T \in {"set", "list"} -> <<x.T, "<">> \o f[x.V] \o <<">">>
      [] x.T = "pointer" -> <<"*">> \o f[x.V]
      [] OTHER -> <<x.T>>

LEMMA TagOfType ==
    ASSUME NEW x \in Type
    PROVE  x.T \in {"pointer", "map", "set", "list", "binary"} \cup ScalarT
BY TypeIs, ReadingIs DEF IsPointerTo, IsBinary, IsListOrSet, IsMap, IsScalar

LEMMA StringTyped ==
    ASSUME NEW f, NEW x \in Type, \A y \in Type : TypeDepth[y] < TypeDepth[x] => f[y] \in Seq(Piece)
    PROVE  StringBy(f, x) \in Seq(Piece)
<1>0. \A w \in Piece : <<w>> \in Seq(Piece)
  BY SingleSeq
<1>1. \A v, w \in Piece : <<v, w>> \in Seq(Piece)
  OBVIOUS
<1>2. \A s, t \in Seq(Piece) : s \o t \in Seq(Piece)
  BY ConcatProperties
<1>3. {"map", "set", "list", "<", ":", ">", "*", "binary"} \subseteq Piece /\ ScalarT \subseteq Piece
  BY DEF Piece
<1>4. CASE x.T = "struct"
  <2>1. x.S.name \in Piece
    BY TypeIs DEF Piece
  <2> QED
    BY <1>0, <1>4, <2>1 DEF StringBy
<1>5. CASE x.T = "map"
  <2>1. f[x.K] \in Seq(Piece) /\ f[x.V] \in Seq(Piece)
    BY <1>5, PartsSmaller
  <2>2. <<"map", "<">> \in Seq(Piece) /\ <<":">> \in Seq(Piece) /\ <<">">> \in Seq(Piece)
    BY <1>0, <1>1, <1>3
  <2>3. <<"map", "<">> \o f[x.K] \o <<":">> \o f[x.V] \o <<">">> \in Seq(Piece)
    BY <1>2, <2>1, <2>2
  <2> QED
    BY <1>5, <2>3 DEF StringBy
<1>6. CASE x.T \in {"set", "list"}
  <2>1. f[x.V] \in Seq(Piece)
    BY <1>6, PartsSmaller
  <2>2. <<x.T, "<">> \in Seq(Piece) /\ <<">">> \in Seq(Piece)
    BY <1>0, <1>1, <1>3, <1>6
  <2>3. <<x.T, "<">> \o f[x.V] \o <<">">> \in Seq(Piece)
    BY <1>2, <2>1, <2>2
  <2> QED
    BY <1>6, <2>3 DEF StringBy
<1>7. CASE x.T = "pointer"
  <2>1. f[x.V] \in Seq(Piece)
    BY <1>7, PartsSmaller
  <2>2. <<"*">> \in Seq(Piece)
    BY <1>0, <1>3
  <2> QED
    BY <1>2, <1>7, <2>1, <2>2 DEF StringBy
<1>8. CASE x.T \notin {"struct", "map", "set", "list", "pointer"}
  BY <1>0, <1>3, <1>8, TagOfType DEF StringBy
<1> QED
  BY <1>4, <1>5, <1>6, <1>7, <1>8

LEMMA StringLocal ==
    ASSUME NEW f, NEW g, NEW x \in Type, Agree(Type, TypeDepth, x, f, g)
    PROVE  StringBy(f, x) = StringBy(g, x)
<1>1. x.T \in {"map", "set", "list", "pointer"} => f[x.V] = g[x.V]
  BY PartsSmaller DEF Agree
<1>2. x.T = "map" => f[x.K] = g[x.K]
  BY PartsSmaller DEF Agree
<1> QED
  BY <1>1, <1>2 DEF StringBy

LEMMA StringUnfold ==
    \A x \in Type : String[x] = StringBy(String, x) /\ String[x] \in Seq(Piece)
<1> DEFINE W == [x \in Type |-> Seq(Piece)]
           step == [f \in Product(Type, W) |-> [x \in Type |-> StringBy(f, x)]]
<1>1. \A x \in Type : W[x] # {}
  <2>1. <<>> \in Seq(Piece)
    OBVIOUS
  <2> QED
    BY <2>1
<1>2. step \in [Product(Type, W) -> Product(Type, W)]
  BY StringTyped DEF Product
<1>3. Local(Type, W, TypeDepth, step)
  BY StringLocal DEF Local
<1>4. PICK F \in Product(Type, W) : F = step[F]
  <2> HIDE DEF W, step
  <2> QED
    BY <1>1, <1>2, <1>3, TypeDepthIs, Recursion
<1>5. F = [x \in Type |-> StringBy(F, x)]
  BY <1>4
<1>6. String = [x \in Type |-> StringBy(String, x)]
  BY <1>5, SMTT(60) DEF String, StringBy
<1>7. ASSUME NEW x \in Type, \A y \in Type : TypeDepth[y] < TypeDepth[x] => String[y] \in Seq(Piece)
      PROVE  String[x] \in Seq(Piece)
  BY <1>6, <1>7, StringTyped
<1>8. \A x \in Type : String[x] \in Seq(Piece)
  <2> DEFINE G == {x \in Type : String[x] \in Seq(Piece)}
  <2>1. ASSUME NEW x \in Type, \A y \in Type : TypeDepth[y] < TypeDepth[x] => y \in G PROVE x \in G
    BY <1>7, <2>1
  <2>2. Type \subseteq G
    <3> HIDE DEF G
    <3> QED
      BY <2>1, TypeDepthIs, ByDepth
  <2> QED
    BY <2>2
<1> QED
  BY <1>6, <1>8

-----------------------------------------------------------------------------
(***************************************************************************)
(* A type is the only one with its key                                     *)
(***************************************************************************)
\* Texts as the provers take them best: nothing but what the lemmas say.
Cat(s, t) == s \o t
One(p) == <<p>>

LEMMA SameHead ==
    ASSUME NEW S, NEW p \in S, NEW q \in S, NEW a \in Seq(S), NEW b \in Seq(S), Cat(One(p), a) = Cat(One(q), b)
    PROVE  p = q /\ a = b
<1>1. <<p>> \in Seq(S) /\ <<q>> \in Seq(S) /\ Len(<<p>>) = 1 /\ Len(<<q>>) = 1
  BY SingleSeq
<1>2. (<<p>> \o a)[1] = p /\ (<<q>> \o b)[1] = q
  BY <1>1, ConcatProperties
<1>3. <<p>> \o a = <<p>> \o b
  BY <1>2 DEF Cat, One
<1> QED
  BY <1>1, <1>2, <1>3, ConcatSimplifications DEF Cat, One

LEMMA CatTyped ==
    /\ \A w \in Piece : One(w) \in Seq(Piece)
    /\ \A s, t \in Seq(Piece) : Cat(s, t) \in Seq(Piece)
<1>1. \A w \in Piece : One(w) \in Seq(Piece)
  BY SingleSeq DEF One
<1>2. \A s, t \in Seq(Piece) : Cat(s, t) \in Seq(Piece)
  BY ConcatProperties DEF Cat
<1> QED
  BY <1>1, <1>2

LEMMA CatCat == \A s, t, u \in Seq(Piece) : Cat(Cat(s, t), u) = Cat(s, Cat(t, u))
BY ConcatAssociative DEF Cat

LEMMA CatHead == \A p, q \in Piece, s, t \in Seq(Piece) : Cat(One(p), s) = Cat(One(q), t) => p = q /\ s = t
BY SameHead

LEMMA Two == \A v, w : <<v, w>> = Cat(One(v), One(w))
<1> SUFFICES ASSUME NEW v, NEW w PROVE <<v, w>> = <<v>> \o <<w>>
  BY DEF Cat, One
<1>1. <<v>> \in Seq({v, w}) /\ <<w>> \in Seq({v, w})
  BY SingleSeq
<1>2. <<v>> \o <<w>> \in Seq({v, w}) /\ Len(<<v>> \o <<w>>) = 2 /\ (<<v>> \o <<w>>)[1] = v /\ (<<v>> \o <<w>>)[2] = w
  BY <1>1, ConcatProperties
<1>3. <<v, w>> \in Seq({v, w}) /\ Len(<<v, w>>) = 2 /\ <<v, w>>[1] = v /\ <<v, w>>[2] = w
  OBVIOUS
<1>4. ASSUME NEW s \in Seq({v, w}), NEW t \in Seq({v, w}), Len(s) = 2, Len(t) = 2, s[1] = t[1], s[2] = t[2]
      PROVE  s = t
  <2>1. \A i \in 1..2 : i = 1 \/ i = 2
    OBVIOUS
  <2> QED
    BY <1>4, <2>1, SeqEqual
<1> QED
  BY <1>2, <1>3, <1>4

LEMMA PieceHas ==
    /\ "map" \in Piece /\ "<" \in Piece /\ ":" \in Piece /\ ">" \in Piece /\ "*" \in Piece /\ "binary" \in Piece
    /\ \A w \in {"set", "list"} \cup ScalarT : w \in Piece
    /\ \A go \in GoType : go.name \in Piece
BY DEF Piece

\* What the string of a type is, followed by other text.
LEMMA StringThen ==
    ASSUME NEW x \in Type, NEW a \in Seq(Piece)
    PROVE  /\ x.T = "map" =>
                 Cat(String[x], a) =
                   Cat(One("map"), Cat(One("<"), Cat(String[x.K], Cat(One(":"), Cat(String[x.V], Cat(One(">"), a))))))
           /\ x.T \in {"set", "list"} =>
                 Cat(String[x], a) = Cat(One(x.T), Cat(One("<"), Cat(String[x.V], Cat(One(">"), a))))
           /\ x.T = "pointer" => Cat(String[x], a) = Cat(One("*"), Cat(String[x.V], a))
           /\ x.T = "struct" => Cat(String[x], a) = Cat(One(x.S.name), a)
           /\ x.T \notin {"struct", "map", "set", "list", "pointer"} => Cat(String[x], a) = Cat(One(x.T), a)
<1>1. String[x] = StringBy(String, x)
  BY StringUnfold
<1>2. \A y \in Type : String[y] \in Seq(Piece)
  BY StringUnfold
<1>3. \A v, w : <<v, w>> = Cat(One(v), One(w))
  BY Two
<1>4. CASE x.T = "map"
  <2>1. String[x.K] \in Seq(Piece) /\ String[x.V] \in Seq(Piece)
    BY <1>2, <1>4, PartsSmaller
  <2>2. String[x] = Cat(Cat(Cat(Cat(<<"map", "<">>, String[x.K]), One(":")), String[x.V]), One(">"))
    BY <1>1, <1>4 DEF StringBy, Cat, One
  <2>3. One("map") \in Seq(Piece) /\ One("<") \in Seq(Piece) /\ One(":") \in Seq(Piece) /\ One(">") \in Seq(Piece)
    BY CatTyped, PieceHas
  <2>4. String[x] = Cat(Cat(Cat(Cat(Cat(One("map"), One("<")), String[x.K]), One(":")), String[x.V]), One(">"))
    BY <1>3, <2>2
  <2>5. Cat(Cat(Cat(Cat(Cat(Cat(One("map"), One("<")), String[x.K]), One(":")), String[x.V]), One(">")), a)
          = Cat(One("map"), Cat(One("<"), Cat(String[x.K], Cat(One(":"), Cat(String[x.V], Cat(One(">"), a))))))
    <3> DEFINE k == String[x.K]
               v == String[x.V]
    <3>1. k \in Seq(Piece) /\ v \in Seq(Piece)
      BY <2>1
    <3> HIDE DEF k, v
    <3> DEFINE p == Cat(One("map"), One("<"))
               q == Cat(p, k)
               r == Cat(q, One(":"))
               s == Cat(r, v)
               t == Cat(One(">"), a)
               u == Cat(v, t)
               w == Cat(One(":"), u)
               z == Cat(k, w)
    <3>2. p \in Seq(Piece) /\ q \in Seq(Piece) /\ r \in Seq(Piece) /\ s \in Seq(Piece)
      BY <2>3, <3>1, CatTyped
    <3>3. t \in Seq(Piece) /\ u \in Seq(Piece) /\ w \in Seq(Piece) /\ z \in Seq(Piece)
      BY <2>3, <3>1, CatTyped
    <3>4. Cat(Cat(s, One(">")), a) = Cat(s, t)
      BY <2>3, <3>2, CatCat
    <3>5. Cat(s, t) = Cat(r, u)
      BY <3>1, <3>2, <3>3, CatCat
    <3>6. Cat(r, u) = Cat(q, w)
      BY <2>3, <3>2, <3>3, CatCat
    <3>7. Cat(q, w) = Cat(p, z)
      BY <3>1, <3>2, <3>3, CatCat
    <3>8. Cat(p, z) = Cat(One("map"), Cat(One("<"), z))
      BY <2>3, <3>3, CatCat
    <3> QED
      BY <3>4, <3>5, <3>6, <3>7, <3>8 DEF k, v
  <2> QED
    BY <1>4, <2>4, <2>5
<1>5. CASE x.T \in {"set", "list"}
  <2>1. String[x.V] \in Seq(Piece)
    BY <1>2, <1>5, PartsSmaller
  <2>2. String[x] = Cat(Cat(<<x.T, "<">>, String[x.V]), One(">"))
    BY <1>1, <1>5 DEF StringBy, Cat, One
  <2>3. One(x.T) \in Seq(Piece) /\ One("<") \in Seq(Piece) /\ One(">") \in Seq(Piece)
    BY <1>5, CatTyped, PieceHas
  <2>4. String[x] = Cat(Cat(Cat(One(x.T), One("<")), String[x.V]), One(">"))
    BY <1>3, <2>2
  <2>5. Cat(Cat(Cat(Cat(One(x.T), One("<")), String[x.V]), One(">")), a)
          = Cat(One(x.T), Cat(One("<"), Cat(String[x.V], Cat(One(">"), a))))
    <3> DEFINE v == String[x.V]
               m == One(x.T)
    <3>1. v \in Seq(Piece) /\ m \in Seq(Piece)
      BY <2>1, <2>3
    <3> HIDE DEF v, m
    <3>2. Cat(m, One("<")) \in Seq(Piece) /\ Cat(Cat(m, One("<")), v) \in Seq(Piece)
      BY <2>3, <3>1, CatTyped
    <3>3. Cat(One(">"), a) \in Seq(Piece) /\ Cat(v, Cat(One(">"), a)) \in Seq(Piece)
      BY <2>3, <3>1, CatTyped
    <3>4. Cat(Cat(Cat(Cat(m, One("<")), v), One(">")), a) = Cat(Cat(Cat(m, One("<")), v), Cat(One(">"), a))
      BY <2>3, <3>2, CatCat
    <3>5. Cat(Cat(Cat(m, One("<")), v), Cat(One(">"), a)) = Cat(Cat(m, One("<")), Cat(v, Cat(One(">"), a)))
      BY <3>1, <3>2, <3>3, CatCat
    <3>6. Cat(Cat(m, One("<")), Cat(v, Cat(One(">"), a))) = Cat(m, Cat(One("<"), Cat(v, Cat(One(">"), a))))
      BY <2>3, <3>1, <3>3, CatCat
    <3> QED
      BY <3>4, <3>5, <3>6 DEF v, m
  <2> QED
    BY <1>5, <2>4, <2>5
<1>6. CASE x.T = "pointer"
  <2>1. String[x.V] \in Seq(Piece) /\ One("*") \in Seq(Piece)
    BY <1>2, <1>6, PartsSmaller, CatTyped, PieceHas
  <2>2. String[x] = Cat(One("*"), String[x.V])
    BY <1>1, <1>6 DEF StringBy, Cat, One
  <2>3. Cat(Cat(One("*"), String[x.V]), a) = Cat(One("*"), Cat(String[x.V], a))
    BY <2>1, CatCat
  <2> QED
    BY <1>6, <2>2, <2>3
<1>7. CASE x.T \notin {"map", "set", "list", "pointer"}
  <2>1. String[x] = One(IF x.T = "struct" THEN x.S.name ELSE x.T)
    BY <1>1, <1>7 DEF StringBy, One
  <2> QED
    BY <1>7, <2>1
<1> QED
  BY <1>4, <1>5, <1>6, <1>7

\* No string of a type of a Go type is the start of that of another of its types.
Distinct(go) ==
    \A x, y \in Readings[go] : \A a, b \in Seq(Piece) : Cat(String[x], a) = Cat(String[y], b) => x = y /\ a = b

LEMMA StringDistinct ==
    ASSUME NEW go \in GoType, \A g \in GoType : Depth[g] < Depth[go] => Distinct(g)
    PROVE  Distinct(go)
<1> SUFFICES ASSUME NEW x \in Readings[go], NEW y \in Readings[go], NEW a \in Seq(Piece), NEW b \in Seq(Piece),
                    Cat(String[x], a) = Cat(String[y], b)
             PROVE  x = y /\ a = b
  BY DEF Distinct
<1>1. x \in Type /\ y \in Type /\ x.S = go /\ y.S = go
  BY ReadingType, ReadingIs
<1>2. \A z \in Type : String[z] \in Seq(Piece)
  BY StringUnfold
<1>3. ASSUME NEW g \in GoType, Distinct(g), NEW v \in Readings[g], NEW w \in Readings[g],
             NEW c \in Seq(Piece), NEW d \in Seq(Piece), Cat(String[v], c) = Cat(String[w], d)
      PROVE  v = w /\ c = d
  BY <1>3 DEF Distinct
<1>7. CASE go.kind = "ptr"
  <2>1. IsPointerTo(x, go) /\ IsPointerTo(y, go)
    BY <1>7, ReadingIs DEF IsPointerTo, IsBinary, IsListOrSet, IsMap, IsScalar, KindTag
  <2>2. x.V \in Type /\ y.V \in Type
    BY <2>1, ReadingType DEF IsPointerTo
  <2>3. String[x.V] \in Seq(Piece) /\ String[y.V] \in Seq(Piece)
    BY <1>2, <2>2
  <2>4. Cat(One("*"), Cat(String[x.V], a)) = Cat(One("*"), Cat(String[y.V], b))
    BY <1>1, <2>1, StringThen DEF IsPointerTo
  <2>5. Cat(String[x.V], a) = Cat(String[y.V], b)
    BY <2>3, <2>4, CatTyped, CatHead, PieceHas
  <2>6. Distinct(go.elem)
    BY <1>7, GoTypeAssumption
  <2>7. x.V = y.V /\ a = b
    BY <1>3, <2>1, <2>5, <2>6 DEF IsPointerTo
  <2> QED
    BY <2>1, <2>7 DEF IsPointerTo
<1>8. CASE go.kind = "slice" /\ go.elem = Byte
  <2>1. IsBinary(x, go) /\ IsBinary(y, go)
    BY <1>8, ReadingIs DEF IsPointerTo, IsBinary, IsListOrSet, IsMap, IsScalar, KindTag
  <2>2. Cat(One("binary"), a) = Cat(One("binary"), b)
    BY <1>1, <2>1, StringThen DEF IsBinary
  <2> QED
    BY <2>1, <2>2, CatTyped, CatHead, PieceHas DEF IsBinary
<1>9. CASE go.kind = "slice" /\ go.elem # Byte
  <2>1. IsListOrSet(x, go) /\ IsListOrSet(y, go)
    BY <1>9, ReadingIs DEF IsPointerTo, IsBinary, IsListOrSet, IsMap, IsScalar, KindTag
  <2>2. x.V \in Type /\ y.V \in Type /\ x.T \in Piece /\ y.T \in Piece
    BY <2>1, ReadingType, PieceHas DEF IsListOrSet
  <2> DEFINE c == Cat(One(">"), a)
             d == Cat(One(">"), b)
             s == Cat(String[x.V], c)
             t == Cat(String[y.V], d)
  <2>3. c \in Seq(Piece) /\ d \in Seq(Piece) /\ s \in Seq(Piece) /\ t \in Seq(Piece)
    BY <1>2, <2>2, CatTyped, CatHead, PieceHas
  <2>4. Cat(One(x.T), Cat(One("<"), s)) = Cat(One(y.T), Cat(One("<"), t))
    BY <1>1, <2>1, StringThen DEF IsListOrSet
  <2>5. x.T = y.T /\ s = t
    <3> HIDE DEF s, t
    <3>1. One("<") \in Seq(Piece) /\ "<" \in Piece
      BY CatTyped, PieceHas
    <3>2. Cat(One("<"), s) \in Seq(Piece) /\ Cat(One("<"), t) \in Seq(Piece)
      BY <2>3, <3>1, CatTyped
    <3>3. x.T = y.T /\ Cat(One("<"), s) = Cat(One("<"), t)
      BY <2>2, <2>4, <3>2, CatHead
    <3> QED
      BY <2>3, <3>1, <3>3, CatHead
  <2>6. go.elem \in GoType /\ Distinct(go.elem)
    BY <1>9, <2>1, GoTypeAssumption DEF IsListOrSet
  <2>7. x.V = y.V /\ c = d
    <3> HIDE DEF c, d
    <3>1. Cat(String[x.V], c) = Cat(String[y.V], d)
      BY <2>5
    <3> QED
      BY <1>3, <2>1, <2>3, <2>6, <3>1 DEF IsListOrSet
  <2>8. a = b
    BY <2>7, CatTyped, CatHead, PieceHas
  <2> QED
    BY <2>1, <2>5, <2>7, <2>8 DEF IsListOrSet
<1>10. CASE go.kind = "map"
  <2>1. IsMap(x, go) /\ IsMap(y, go)
    BY <1>10, ReadingIs DEF IsPointerTo, IsBinary, IsListOrSet, IsMap, IsScalar, KindTag
  <2>2. x.V \in Type /\ y.V \in Type /\ x.K \in Type /\ y.K \in Type
    BY <2>1, ReadingType DEF IsMap
  <2> DEFINE c == Cat(One(">"), a)
             d == Cat(One(">"), b)
             s == Cat(String[x.V], c)
             t == Cat(String[y.V], d)
             e == Cat(One(":"), s)
             f == Cat(One(":"), t)
             g == Cat(String[x.K], e)
             h == Cat(String[y.K], f)
  <2>3. c \in Seq(Piece) /\ d \in Seq(Piece) /\ s \in Seq(Piece) /\ t \in Seq(Piece)
    BY <1>2, <2>2, CatTyped, CatHead, PieceHas
  <2>4. e \in Seq(Piece) /\ f \in Seq(Piece) /\ g \in Seq(Piece) /\ h \in Seq(Piece)
    <3> HIDE DEF s, t
    <3> QED
      BY <1>2, <2>2, <2>3, CatTyped, CatHead, PieceHas
  <2>5. Cat(One("map"), Cat(One("<"), g)) = Cat(One("map"), Cat(One("<"), h))
    BY <1>1, <2>1, StringThen DEF IsMap
  <2>6. g = h
    <3> HIDE DEF g, h
    <3> QED
      BY <2>4, <2>5, CatTyped, CatHead, PieceHas
  <2>7. go.elem \in GoType /\ go.key \in GoType /\ Distinct(go.elem) /\ Distinct(go.key)
    BY <1>10, GoTypeAssumption
  <2>8. x.K = y.K /\ e = f
    <3> HIDE DEF e, f
    <3>1. Cat(String[x.K], e) = Cat(String[y.K], f)
      BY <2>6
    <3> QED
      BY <1>3, <2>1, <2>4, <2>7, <3>1 DEF IsMap
  <2>9. s = t
    <3> HIDE DEF s, t
    <3> QED
      BY <2>3, <2>8, CatTyped, CatHead, PieceHas
  <2>10. x.V = y.V /\ c = d
    <3> HIDE DEF c, d
    <3>1. Cat(String[x.V], c) = Cat(String[y.V], d)
      BY <2>9
    <3> QED
      BY <1>3, <2>1, <2>3, <2>7, <3>1 DEF IsMap
  <2>11. a = b
    BY <2>10, CatTyped, CatHead, PieceHas
  <2> QED
    BY <2>1, <2>8, <2>10, <2>11 DEF IsMap
<1>11. CASE go.kind \in DOMAIN KindTag \ {"map"}
  <2>1. IsScalar(x, go) /\ IsScalar(y, go)
    BY <1>11, ReadingIs DEF IsPointerTo, IsBinary, IsListOrSet, IsMap, IsScalar, KindTag
  <2>2. x.T = "struct" <=> y.T = "struct"
    BY <2>1 DEF IsScalar, ScalarTags
  <2>3. CASE x.T = "struct"
    <3>1. Cat(One(go.name), a) = Cat(One(go.name), b)
      BY <1>1, <2>2, <2>3, StringThen
    <3>2. a = b
      BY <3>1, CatTyped, CatHead, PieceHas
    <3> QED
      BY <2>1, <2>2, <2>3, <3>2 DEF IsScalar
  <2>4. CASE x.T # "struct"
    <3>1. Cat(One(x.T), a) = Cat(One(y.T), b)
      BY <1>1, <2>1, <2>2, <2>4, StringThen DEF IsScalar, ScalarT
    <3>2. x.T = y.T /\ a = b
      BY <2>1, <3>1, CatTyped, CatHead, PieceHas DEF IsScalar
    <3> QED
      BY <2>1, <3>2 DEF IsScalar
  <2> QED
    BY <2>3, <2>4
<1>12. CASE go.kind \notin {"ptr", "slice"} \cup DOMAIN KindTag
  BY <1>12, ReadingIs DEF IsPointerTo, IsBinary, IsListOrSet, IsMap, IsScalar, KindTag
<1> QED
  BY <1>7, <1>8, <1>9, <1>10, <1>11, <1>12

\* The cache does not mix two types up: their keys differ.
LEMMA KeyDistinct == \A x, y \in Type : Key(x) = Key(y) => x = y
<1> DEFINE G == {go \in GoType : Distinct(go)}
<1>1. GoType \subseteq G
  <2>1. Depth \in [GoType -> Nat]
    BY GoTypeAssumption
  <2>2. ASSUME NEW go \in GoType, \A g \in GoType : Depth[g] < Depth[go] => g \in G PROVE go \in G
    BY <2>2, StringDistinct
  <2> HIDE DEF G
  <2> QED
    BY <2>1, <2>2, ByDepth
<1> SUFFICES ASSUME NEW x \in Type, NEW y \in Type, Key(x) = Key(y) PROVE x = y
  OBVIOUS
<1>2. String[x] = String[y] /\ x.S = y.S
  BY DEF Key
<1>3. <<>> \in Seq(Piece)
  OBVIOUS
<1>4. x.S \in GoType /\ x \in Readings[x.S] /\ y \in Readings[x.S]
  BY <1>2, TypeIs
<1>5. Cat(String[x], <<>>) = Cat(String[y], <<>>)
  BY <1>2
<1> QED
  BY <1>1, <1>3, <1>4, <1>5 DEF Distinct

-----------------------------------------------------------------------------
(***************************************************************************)
(* Sorting                                                                 *)
(***************************************************************************)
\* Fields, no two of which have the same id.
Unsorted(ff) ==
    /\ ff \in Seq(ToSet(ff))
    /\ \A i \in DOMAIN ff : ff[i].ID \in Nat
    /\ \A i, j \in DOMAIN ff : ff[i].ID = ff[j].ID => i = j

\* SortedById returns the same fields, each after those of smaller ids.
LEMMA SortedIs ==
    ASSUME NEW ff, Unsorted(ff)
    PROVE  /\ SortedById(ff) \in [1..Len(ff) -> ToSet(ff)]
           /\ ToSet(SortedById(ff)) = ToSet(ff)
           /\ \A i, j \in 1..Len(ff) : i < j => SortedById(ff)[i].ID < SortedById(ff)[j].ID
<1> DEFINE S == ToSet(ff)
           n == Len(ff)
           Before(f) == {g \in S : g.ID < f.ID}
           rank == [f \in S |-> Cardinality(Before(f))]
           t == [m \in 1..n |-> CHOOSE f \in S : Cardinality(Before(f)) = m - 1]
<1>1. n \in Nat /\ DOMAIN ff = 1..n /\ ff \in [1..n -> S]
  BY LenProperties DEF Unsorted
<1>2. S = {ff[i] : i \in 1..n}
  BY <1>1 DEF ToSet
<1>3. /\ \A f \in S : f.ID \in Nat
      /\ \A f, g \in S : f.ID = g.ID => f = g
  BY <1>1, <1>2 DEF Unsorted
<1>4. IsFiniteSet(S) /\ Cardinality(S) = n
  <2>1. ff \in Bijection(1..n, S)
    <3>1. \A i, j \in 1..n : ff[i] = ff[j] => i = j
      BY <1>1 DEF Unsorted
    <3>2. \A f \in S : \E i \in 1..n : ff[i] = f
      BY <1>2
    <3> QED
      BY <1>1, <3>1, <3>2 DEF Bijection, Injection, Surjection, IsInjective
  <2>2. IsFiniteSet(1..n) /\ Cardinality(1..n) = n
    <3>1. 1 \in Int /\ n \in Int
      BY <1>1
    <3> QED
      BY <1>1, <3>1, FS_Interval, SMTT(30)
  <2>3. ExistsBijection(1..n, S)
    BY <2>1 DEF ExistsBijection
  <2> QED
    BY <2>2, <2>3, FS_Bijection
<1>5. ASSUME NEW f \in S
      PROVE  IsFiniteSet(Before(f)) /\ Cardinality(Before(f)) \in 0..(n - 1)
  <2>1. Before(f) \in SUBSET S /\ f \notin Before(f)
    BY <1>3
  <2>2. IsFiniteSet(Before(f)) /\ Cardinality(Before(f)) <= n /\ Cardinality(Before(f)) # n
    BY <1>4, <2>1, FS_Subset
  <2>3. Cardinality(Before(f)) \in Nat
    BY <2>2, FS_CardinalityType
  <2> HIDE DEF Before
  <2> QED
    BY <1>1, <2>2, <2>3
<1>6. ASSUME NEW f \in S, NEW g \in S, f.ID < g.ID
      PROVE  Cardinality(Before(f)) < Cardinality(Before(g))
  <2>1. Before(f) \in SUBSET Before(g) /\ f \in Before(g) /\ f \notin Before(f)
    BY <1>3, <1>6
  <2>2. IsFiniteSet(Before(g)) /\ Cardinality(Before(f)) \in Int /\ Cardinality(Before(g)) \in Int
    <3>1. Cardinality(Before(f)) \in 0..(n - 1) /\ Cardinality(Before(g)) \in 0..(n - 1)
      BY <1>5
    <3> HIDE DEF Before
    <3> QED
      BY <1>1, <1>5, <3>1
  <2>3. Cardinality(Before(f)) <= Cardinality(Before(g)) /\ Cardinality(Before(f)) # Cardinality(Before(g))
    <3> HIDE DEF Before
    <3> QED
      BY <2>1, <2>2, FS_Subset
  <2> HIDE DEF Before
  <2> QED
    BY <2>2, <2>3
<1>7. \A f, g \in S : Cardinality(Before(f)) = Cardinality(Before(g)) => f = g
  <2> SUFFICES ASSUME NEW f \in S, NEW g \in S, Cardinality(Before(f)) = Cardinality(Before(g)), f # g PROVE FALSE
    OBVIOUS
  <2>1. f.ID < g.ID \/ g.ID < f.ID
    BY <1>3
  <2>2. Cardinality(Before(f)) \in Int /\ Cardinality(Before(g)) \in Int
    <3>1. Cardinality(Before(f)) \in 0..(n - 1) /\ Cardinality(Before(g)) \in 0..(n - 1)
      BY <1>5
    <3> HIDE DEF Before
    <3> QED
      BY <1>1, <1>5, <3>1
  <2>3. Cardinality(Before(f)) < Cardinality(Before(g)) \/ Cardinality(Before(g)) < Cardinality(Before(f))
    BY <1>6, <2>1
  <2> HIDE DEF Before
  <2> QED
    BY <2>2, <2>3
<1>8. rank \in Surjection(S, 0..(n - 1))
  <2>1. rank \in Injection(S, 0..(n - 1))
    <3>1. rank \in [S -> 0..(n - 1)]
      BY <1>5
    <3>2. \A f, g \in S : rank[f] = rank[g] => f = g
      BY <1>7
    <3> HIDE DEF rank
    <3> QED
      BY <3>1, <3>2 DEF Injection, IsInjective
  <2>2. IsFiniteSet(0..(n - 1)) /\ Cardinality(0..(n - 1)) = n
    <3>1. 0 \in Int /\ n - 1 \in Int
      BY <1>1
    <3> QED
      BY <1>1, <3>1, FS_Interval, SMTT(30)
  <2> HIDE DEF rank
  <2> QED
    BY <1>4, <2>1, <2>2, FS_Injection
<1>9. ASSUME NEW m \in 1..n PROVE t[m] \in S /\ Cardinality(Before(t[m])) = m - 1
  <2>1. m - 1 \in 0..(n - 1)
    BY <1>1
  <2>2. \E f \in S : rank[f] = m - 1
    <3> HIDE DEF rank
    <3> QED
      BY <1>8, <2>1 DEF Surjection
  <2> HIDE DEF Before
  <2>3. \E f \in S : Cardinality(Before(f)) = m - 1
    BY <2>2
  <2> QED
    BY <2>3
<1>10. SortedById(ff) = t
  BY <1>1 DEF SortedById
<1> HIDE DEF t
<1>11. t \in [1..n -> S]
  BY <1>9 DEF t
<1>12. ASSUME NEW f \in S PROVE \E m \in 1..n : t[m] = f
  <2> DEFINE m == Cardinality(Before(f)) + 1
  <2>1. m \in 1..n /\ m - 1 = Cardinality(Before(f))
    <3>1. Cardinality(Before(f)) \in 0..(n - 1)
      BY <1>5
    <3> HIDE DEF Before
    <3> QED
      BY <1>1, <3>1
  <2>2. t[m] \in S /\ Cardinality(Before(t[m])) = m - 1
    BY <1>9, <2>1
  <2>3. Cardinality(Before(t[m])) = Cardinality(Before(f))
    BY <2>1, <2>2
  <2>4. t[m] = f
    <3> HIDE DEF m, Before
    <3> QED
      BY <1>7, <2>2, <2>3 DEF Before
  <2> QED
    BY <2>1, <2>4
<1>13. ToSet(t) = S
  <2>1. ToSet(t) = {t[m] : m \in 1..n}
    BY <1>11 DEF ToSet
  <2> QED
    BY <1>11, <1>12, <2>1
<1>14. ASSUME NEW i \in 1..n, NEW j \in 1..n, i < j PROVE t[i].ID < t[j].ID
  <2>1. t[i] \in S /\ t[j] \in S /\ Cardinality(Before(t[i])) = i - 1 /\ Cardinality(Before(t[j])) = j - 1
    BY <1>9
  <2>2. t[i].ID \in Nat /\ t[j].ID \in Nat
    BY <1>3, <2>1
  <2>3. ~(t[j].ID < t[i].ID)
    <3> SUFFICES ASSUME t[j].ID < t[i].ID PROVE FALSE
      OBVIOUS
    <3>1. Cardinality(Before(t[j])) < Cardinality(Before(t[i]))
      BY <1>6, <2>1
    <3> HIDE DEF Before
    <3> QED
      BY <1>1, <1>14, <2>1, <3>1
  <2>4. t[i].ID # t[j].ID
    <3> SUFFICES ASSUME t[i].ID = t[j].ID PROVE FALSE
      OBVIOUS
    <3>1. t[i] = t[j]
      BY <1>3, <2>1
    <3> HIDE DEF Before
    <3> QED
      BY <1>1, <1>14, <2>1, <3>1
  <2> QED
    BY <2>2, <2>3, <2>4
<1> QED
  BY <1>10, <1>11, <1>13, <1>14

-----------------------------------------------------------------------------
(***************************************************************************)
(* What DoResolveFields returns                                            *)
(***************************************************************************)
Spec3 == {<<"default">>, <<"required">>, <<"optional">>}

\* A field is of a type that its Go type can stand for.
FieldOf ==
    {x \in [F : DOMAIN Decl, ID : Uint16, Type : Type, NoCopy : BOOLEAN, Spec : Spec3] :
        x.Type \in Readings[Decl[x.F].go]}

\* What a turn of the loop goes on with: no two fields have the same id.
Acc ==
    {Err, Panic} \cup
    {r \in [st : {"ok"}, ids : SUBSET Uint16, ff : Seq(FieldOf)] :
        /\ r.ids = {r.ff[i].ID : i \in DOMAIN r.ff}
        /\ \A i, j \in DOMAIN r.ff : r.ff[i].ID = r.ff[j].ID => i = j}

Start == [st |-> "ok", ids |-> {}, ff |-> <<>>]

LEMMA StartAcc == Start \in Acc
BY DEF Start, Acc

\* A text is the numeral of one id at most.
LEMMA OneId ==
    ASSUME NEW part, NEW m \in ParseUint(part)
    PROVE  m \in Uint16 /\ ParseUint(part) = {m}
BY NumeralAssumption DEF ParseUint

LEMMA ResolveTyped ==
    ASSUME NEW acc \in Acc, NEW f \in DOMAIN Decl
    PROVE  ResolveField(acc, f) \in Acc
<1> DEFINE d == Decl[f]
           ft == lookupStructTag(d)
           id == IF ft = <<>> THEN {} ELSE ParseUint(ft[1])
           pt == ParseType(d.go, Part(ft, 3, <<>>))
           new == [F |-> f, ID |-> CHOOSE n \in id : TRUE, Type |-> pt.x,
                   NoCopy |-> Options(ft) # <<>>, Spec |-> Requiredness(ft)]
           next == [st |-> "ok", ids |-> acc.ids \cup id, ff |-> Append(acc.ff, new)]
<1>1. Err \in Acc /\ Panic \in Acc
  BY DEF Acc
<1>2. ASSUME acc.st = "ok", Tagged(d), id # {}, ~(\E n \in id : Used(acc.ids, n)), Requiredness(ft) \in Spec3
      PROVE  /\ pt.st # "ok" => pt \in {Err, Panic}
             /\ pt.st = "ok" => next \in Acc
  <2>1. pt \in Outcome(Readings[d.go])
    <3>1. d.go \in GoType /\ Part(ft, 3, <<>>) \in Text
      BY <1>2, DeclAssumption DEF Text
    <3> QED
      BY <3>1, ParseTyped
  <2>2. ASSUME pt.st = "ok" PROVE next \in Acc
    <3>1. pt.x \in Readings[d.go] /\ pt.x \in Type
      BY <2>1, <2>2, OutcomeIs, ReadingType, DeclAssumption
    <3>2. PICK m \in id : TRUE
      BY <1>2
    <3>3. m \in Uint16 /\ id = {m}
      BY <1>2, <3>2, OneId
    <3>4. m \notin acc.ids
      BY <1>2, <3>3 DEF Used
    <3> HIDE DEF id, pt
    <3>5. new = [F |-> f, ID |-> m, Type |-> pt.x, NoCopy |-> Options(ft) # <<>>, Spec |-> Requiredness(ft)]
      BY <3>3
    <3> HIDE DEF new
    <3>6. new \in FieldOf /\ new.ID = m
      <4>1. (Options(ft) # <<>>) \in BOOLEAN
        OBVIOUS
      <4> QED
        BY <1>2, <3>1, <3>3, <3>5, <4>1 DEF FieldOf
    <3>7. /\ acc \in [st : {"ok"}, ids : SUBSET Uint16, ff : Seq(FieldOf)]
          /\ acc.ids = {acc.ff[i].ID : i \in DOMAIN acc.ff}
          /\ \A i, j \in DOMAIN acc.ff : acc.ff[i].ID = acc.ff[j].ID => i = j
      BY <1>2, NotOk DEF Acc
    <3> DEFINE ff == acc.ff
               gg == Append(ff, new)
               n == Len(ff)
    <3>8. ff \in Seq(FieldOf) /\ n \in Nat /\ DOMAIN ff = 1..n
      BY <3>7, LenProperties
    <3> HIDE DEF ff, n
    <3>9. /\ gg \in Seq(FieldOf) /\ DOMAIN gg = 1..(n + 1)
          /\ \A i \in 1..n : gg[i] = ff[i]
          /\ gg[n + 1] = new
      BY <3>6, <3>8, AppendProperties, LenProperties DEF n
    <3>10. \A i \in 1..n : ff[i].ID \in acc.ids
      BY <3>7, <3>8 DEF ff
    <3>11. acc.ids = {ff[i].ID : i \in 1..n} /\ \A i, j \in 1..n : ff[i].ID = ff[j].ID => i = j
      BY <3>7, <3>8 DEF ff
    <3>12. next = [st |-> "ok", ids |-> acc.ids \cup {m}, ff |-> gg]
      BY <3>3, <3>7 DEF ff
    <3> HIDE DEF gg, next
    <3>13. \A i \in 1..(n + 1) : i \in 1..n \/ i = n + 1
      BY <3>8
    <3>14. acc.ids \cup {m} = {gg[i].ID : i \in DOMAIN gg}
      <4>1. \A i \in 1..n : i \in 1..(n + 1)
        BY <3>8
      <4>2. n + 1 \in 1..(n + 1)
        BY <3>8
      <4> QED
        BY <3>6, <3>9, <3>11, <3>13, <4>1, <4>2
    <3>15. \A i, j \in DOMAIN gg : gg[i].ID = gg[j].ID => i = j
      BY <3>4, <3>6, <3>9, <3>10, <3>11, <3>13
    <3>16. acc.ids \cup {m} \in SUBSET Uint16
      BY <3>3, <3>7
    <3>17. next \in [st : {"ok"}, ids : SUBSET Uint16, ff : Seq(FieldOf)] /\ next.ids = acc.ids \cup {m} /\ next.ff = gg
      BY <3>9, <3>12, <3>16
    <3> QED
      BY <3>14, <3>15, <3>17 DEF Acc
  <2> QED
    BY <2>1, <2>2, OutcomeIs
<1>3. ResolveField(acc, f) \in {acc, Err} \cup (IF /\ acc.st = "ok" /\ Tagged(d) /\ id # {}
                                                   /\ ~(\E n \in id : Used(acc.ids, n)) /\ Requiredness(ft) \in Spec3
                                                THEN {IF pt.st # "ok" THEN pt ELSE next} ELSE {})
  <2> HIDE DEF next
  <2> QED
    BY DEF ResolveField, Spec3, next
<1> HIDE DEF next, pt, id
<1> QED
  BY <1>1, <1>2, <1>3

\* The turns of the loop, one for each declaration.
TurnsAre(T, s) ==
    /\ T \in [0..Len(s) -> Acc]
    /\ T = [n \in 0..Len(s) |-> IF n = 0 THEN Start ELSE ResolveField(T[n - 1], s[n])]

LEMMA ResolverTurns ==
    ASSUME NEW s \in Seq(DOMAIN Decl)
    PROVE  \E T : /\ TurnsAre(T, s)
                  /\ DoResolveFields(s) = LET r == T[Len(s)]
                                          IN  IF r.st = "ok" THEN [r EXCEPT !.ff = SortedById(@)] ELSE r
<1> DEFINE N == Len(s)
           Is(T) == T = [n \in 0..N |-> IF n = 0 THEN Start ELSE ResolveField(T[n - 1], s[n])]
           T == CHOOSE T : Is(T)
           step == [p \in Acc \X (1..N) |-> ResolveField(p[1], s[p[2]])]
<1>1. N \in Nat /\ \A n \in 1..N : s[n] \in DOMAIN Decl
  BY LenProperties, ElementOfSeq
<1>2. \A acc \in Acc, n \in 1..N : step[<<acc, n>>] \in Acc
  BY <1>1, ResolveTyped
<1>3. PICK F : Turns(F, Acc, N, Start, step)
  <2> HIDE DEF step, N
  <2> QED
    BY <1>1, <1>2, StartAcc, Turning
<1>4. Is(F)
  <2>1. ASSUME NEW n \in 0..N, n # 0 PROVE step[<<F[n - 1], n>>] = ResolveField(F[n - 1], s[n])
    <3>1. n \in 1..N /\ n - 1 \in 0..N
      BY <1>1, <2>1
    <3>2. F[n - 1] \in Acc
      BY <1>3, <3>1 DEF Turns
    <3> QED
      BY <3>1, <3>2
  <2> HIDE DEF step, N
  <2> QED
    BY <1>3, <2>1 DEF Turns
<1>5. Is(T)
  <2> HIDE DEF Is
  <2> QED
    BY <1>4
<1>6. T \in [0..N -> Acc]
  <2> DEFINE G == {n \in Nat : n \in 0..N => T[n] \in Acc}
  <2> HIDE DEF T
  <2>1. 0 \in G
    BY <1>5, StartAcc
  <2>2. ASSUME NEW n \in Nat, n \in G PROVE n + 1 \in G
    <3> SUFFICES ASSUME n + 1 \in 0..N PROVE T[n + 1] \in Acc
      OBVIOUS
    <3>1. n \in 0..N /\ n + 1 \in 1..N /\ n + 1 # 0 /\ (n + 1) - 1 = n
      BY <1>1
    <3>2. T[n + 1] = ResolveField(T[n], s[n + 1])
      BY <1>5, <3>1
    <3> QED
      BY <1>1, <2>2, <3>1, <3>2, ResolveTyped
  <2>3. Nat \subseteq G
    <3> HIDE DEF G
    <3> QED
      BY <2>1, <2>2, NatSet
  <2>4. \A n \in 0..N : T[n] \in Acc
    BY <1>1, <2>3
  <2> QED
    BY <1>5, <2>4
<1>7. DoResolveFields(s) = LET r == T[N] IN IF r.st = "ok" THEN [r EXCEPT !.ff = SortedById(@)] ELSE r
  BY DEF DoResolveFields, Start
<1> HIDE DEF T
<1> QED
  BY <1>5, <1>6, <1>7 DEF TurnsAre

\* The fields it returns, in order of their ids.
SortedFields ==
    {ff \in Seq(FieldOf) : \A i, j \in DOMAIN ff : i < j => ff[i].ID < ff[j].ID}

LEMMA SortedTyped ==
    ASSUME NEW ff \in Seq(FieldOf), \A i, j \in DOMAIN ff : ff[i].ID = ff[j].ID => i = j
    PROVE  SortedById(ff) \in SortedFields /\ ToSet(SortedById(ff)) = ToSet(ff)
<1>1. Len(ff) \in Nat /\ DOMAIN ff = 1..Len(ff) /\ ff \in [1..Len(ff) -> FieldOf]
  BY LenProperties
<1>2. ff \in Seq(ToSet(ff))
  <2>1. ff \in [1..Len(ff) -> ToSet(ff)]
    BY <1>1 DEF ToSet
  <2> QED
    BY <1>1, <2>1, SeqDef
<1>3. \A i \in DOMAIN ff : ff[i].ID \in Nat
  BY <1>1, IdCountAssumption DEF FieldOf, Uint16
<1>4. ToSet(ff) \subseteq FieldOf
  BY <1>1 DEF ToSet
<1> DEFINE t == SortedById(ff)
<1>5. t \in [1..Len(ff) -> ToSet(ff)] /\ ToSet(t) = ToSet(ff) /\ \A i, j \in 1..Len(ff) : i < j => t[i].ID < t[j].ID
  BY <1>2, <1>3, SortedIs DEF Unsorted
<1> HIDE DEF t
<1>6. t \in [1..Len(ff) -> FieldOf]
  BY <1>4, <1>5
<1>7. t \in Seq(FieldOf) /\ DOMAIN t = 1..Len(ff)
  BY <1>1, <1>6, SeqDef
<1>8. t \in SortedFields /\ ToSet(t) = ToSet(ff)
  BY <1>5, <1>7 DEF SortedFields
<1> QED
  BY <1>8 DEF t

LEMMA ResolvedTyped ==
    ASSUME NEW s \in Seq(DOMAIN Decl)
    PROVE  LET r == DoResolveFields(s)
           IN  /\ r.st \in {"ok", "err", "panic"}
               /\ r.st = "ok" => r.ff \in SortedFields
<1>1. PICK T : /\ TurnsAre(T, s)
               /\ DoResolveFields(s) = LET r == T[Len(s)]
                                       IN  IF r.st = "ok" THEN [r EXCEPT !.ff = SortedById(@)] ELSE r
  BY ResolverTurns
<1> DEFINE t == T[Len(s)]
<1>2. t \in Acc
  <2>1. Len(s) \in 0..Len(s)
    BY LenProperties
  <2> QED
    BY <1>1, <2>1 DEF TurnsAre
<1>3. CASE t.st # "ok"
  <2>1. t \in {Err, Panic}
    BY <1>2, <1>3 DEF Acc
  <2> QED
    BY <1>1, <1>3, <2>1, NotOk
<1>4. CASE t.st = "ok"
  <2>1. t \in [st : {"ok"}, ids : SUBSET Uint16, ff : Seq(FieldOf)] /\ \A i, j \in DOMAIN t.ff : t.ff[i].ID = t.ff[j].ID => i = j
    BY <1>2, <1>4, NotOk DEF Acc
  <2>2. SortedById(t.ff) \in SortedFields
    BY <2>1, SortedTyped
  <2>3. [t EXCEPT !.ff = SortedById(@)] = [st |-> "ok", ids |-> t.ids, ff |-> SortedById(t.ff)]
    BY <2>1
  <2> QED
    BY <1>1, <1>4, <2>2, <2>3
<1> QED
  BY <1>3, <1>4

-----------------------------------------------------------------------------
(***************************************************************************)
(* The cache                                                               *)
(***************************************************************************)
Container == {"map", "set", "list", "pointer"}

\* What a type refers to.
LEMMA PartsIs ==
    ASSUME NEW x \in Type
    PROVE  /\ x.T = "map" => Len(Parts(x)) = 2 /\ DOMAIN Parts(x) = {1, 2} /\ Parts(x)[1] = x.K /\ Parts(x)[2] = x.V
           /\ x.T \in {"set", "list", "pointer"} =>
                Len(Parts(x)) = 1 /\ DOMAIN Parts(x) = {1} /\ Parts(x)[1] = x.V
           /\ x.T \notin Container => Len(Parts(x)) = 0 /\ DOMAIN Parts(x) = {}
           /\ Parts(x) \in Seq(Type)
           /\ \A i \in DOMAIN Parts(x) : Parts(x)[i] \in Type /\ TypeDepth[Parts(x)[i]] < TypeDepth[x]
<1>1. CASE x.T = "map"
  BY <1>1, PartsSmaller DEF Parts, Container
<1>2. CASE x.T \in {"set", "list", "pointer"}
  BY <1>2, PartsSmaller DEF Parts, Container
<1>3. CASE x.T \notin Container
  BY <1>3 DEF Parts, Container
<1> QED
  BY <1>1, <1>2, <1>3 DEF Container

LEMMA PointeeIs ==
    ASSUME NEW x \in Type
    PROVE  Pointee(x) \in Type /\ Pointee(x).T \in {"map", "set", "list", "binary"} \cup ScalarT
<1>1. CASE x.T = "pointer"
  <2>1. IsPointerTo(x, x.S) /\ x.S \in GoType
    BY <1>1, TypeIs, ReadingIs DEF IsPointerTo, IsBinary, IsListOrSet, IsMap, IsScalar, ScalarT
  <2>2. x.V \in Readings[x.S.elem] /\ x.S.elem \in GoType /\ x.S.elem.kind # "ptr"
    BY <2>1 DEF IsPointerTo
  <2>3. x.V \in Type
    BY <2>2, ReadingType
  <2>4. x.V.T # "pointer"
    BY <2>2, ReadingIs DEF IsPointerTo, IsBinary, IsListOrSet, IsMap, IsScalar, ScalarT
  <2>5. Pointee(x) = x.V
    BY <1>1 DEF Pointee
  <2> QED
    BY <2>3, <2>4, <2>5, TagOfType
<1>2. CASE x.T # "pointer"
  BY <1>2, TagOfType DEF Pointee
<1> QED
  BY <1>1, <1>2

LEMMA MadeTyped ==
    ASSUME NEW x \in Type
    PROVE  Made(x) \in TType
<1>1. DOMAIN typeToSize = {"bool", "i8", "double", "i16", "i32", "i64", "enum"}
  BY DEF typeToSize
<1>2. x.T \in Tags
  BY <1>1, TagOfType DEF Tags, ScalarT
<1>3. Tag(x) \in Tags
  BY <1>1, PointeeIs DEF Tag, Tags, ScalarT
<1>4. x.S \in GoType
  BY TypeIs
<1>5. [i \in DOMAIN Parts(x) |-> Key(Parts(x)[i])] \in Seq(Keys)
  <2>1. \A i \in DOMAIN Parts(x) : Key(Parts(x)[i]) \in Keys
    BY PartsIs DEF Keys
  <2>2. DOMAIN Parts(x) = 1..Len(Parts(x)) /\ Len(Parts(x)) \in Nat
    BY PartsIs, LenProperties
  <2> QED
    BY <2>1, <2>2, SeqDef
<1>6. IsEnum(x) => "enum" \in Tags
  BY <1>1 DEF Tags
<1> QED
  BY <1>2, <1>3, <1>4, <1>5, <1>6 DEF Made, TType

NewResult == [c : Cache, ok : BOOLEAN]

\* What newTType leaves, from the cache after its part types are made.
Entered(c, x) == [c |-> [c EXCEPT ![Key(x)] = Made(x)], ok |-> TRUE]
KeyMade(f, c, x) == IF x.T = "map" THEN f[x.K][Entered(c, x).c] ELSE Entered(c, x)
PartsMade(f, c, x) ==
    IF x.T \in {"map", "set", "list", "pointer"} /\ KeyMade(f, c, x).ok THEN f[x.V][KeyMade(f, c, x).c]
    ELSE KeyMade(f, c, x)
WithAppender(c, x) == [c EXCEPT ![Key(x)].AppendFunc = TRUE]
NewBy(f, x) == [c \in Cache |->
    IF c[Key(x)] # Nil THEN [c |-> c, ok |-> TRUE]
    ELSE IF ~PartsMade(f, c, x).ok \/ NoAppendFunc(Made(x)) THEN [c |-> PartsMade(f, c, x).c, ok |-> FALSE]
    ELSE [c |-> WithAppender(PartsMade(f, c, x).c, x), ok |-> TRUE]]

LEMMA CacheEntry ==
    ASSUME NEW c \in Cache, NEW k \in Keys
    PROVE  c[k] \in TType \cup {Nil} /\ DOMAIN c = Keys
BY DEF Cache

LEMMA EnteredTyped ==
    ASSUME NEW x \in Type, NEW c \in Cache
    PROVE  Entered(c, x) \in NewResult
<1>1. Key(x) \in Keys
  BY DEF Keys
<1> QED
  BY <1>1, MadeTyped DEF Entered, NewResult, Cache

\* An appender changes no more than that.
LEMMA WithAppenderIs ==
    ASSUME NEW x \in Type, NEW c \in Cache, c[Key(x)] # Nil
    PROVE  /\ WithAppender(c, x) \in Cache
           /\ \A k \in Keys : k # Key(x) => WithAppender(c, x)[k] = c[k]
           /\ \A f \in {"T", "WT", "Tag", "RT", "IsPointer", "parts"} : WithAppender(c, x)[Key(x)][f] = c[Key(x)][f]
           /\ WithAppender(c, x)[Key(x)] \in TType
<1>1. Key(x) \in Keys
  BY DEF Keys
<1>2. c[Key(x)] \in TType
  BY <1>1, CacheEntry
<1> DEFINE t == c[Key(x)]
           u == [t EXCEPT !.AppendFunc = TRUE]
<1>3. u \in TType /\ \A f \in {"T", "WT", "Tag", "RT", "IsPointer", "parts"} : u[f] = t[f]
  BY <1>2 DEF TType
<1>4. WithAppender(c, x) = [c EXCEPT ![Key(x)] = u]
  BY DEF WithAppender
<1> HIDE DEF u, t
<1>5. WithAppender(c, x)[Key(x)] = u /\ WithAppender(c, x) \in Cache /\ \A k \in Keys : k # Key(x) => WithAppender(c, x)[k] = c[k]
  BY <1>1, <1>3, <1>4 DEF Cache
<1> QED
  BY <1>3, <1>5 DEF t

LEMMA PartsMadeTyped ==
    ASSUME NEW f, NEW x \in Type, NEW c \in Cache,
           \A y \in Type : TypeDepth[y] < TypeDepth[x] => f[y] \in [Cache -> NewResult]
    PROVE  KeyMade(f, c, x) \in NewResult /\ PartsMade(f, c, x) \in NewResult
<1>1. Entered(c, x) \in NewResult
  BY EnteredTyped
<1>2. x.T = "map" => f[x.K] \in [Cache -> NewResult]
  BY PartsSmaller
<1>3. x.T \in {"map", "set", "list", "pointer"} => f[x.V] \in [Cache -> NewResult]
  BY PartsSmaller
<1>4. KeyMade(f, c, x) \in NewResult
  BY <1>1, <1>2 DEF KeyMade, NewResult
<1>5. PartsMade(f, c, x) \in NewResult
  BY <1>3, <1>4 DEF PartsMade, NewResult
<1> QED
  BY <1>4, <1>5

LEMMA WithAppenderTyped ==
    ASSUME NEW x \in Type, NEW c \in Cache
    PROVE  WithAppender(c, x) \in Cache
<1>1. CASE c[Key(x)] # Nil
  BY <1>1, WithAppenderIs
<1>2. CASE c[Key(x)] = Nil
  <2>1. Key(x) \in Keys
    BY DEF Keys
  <2>2. [Nil EXCEPT !.AppendFunc = TRUE] = Nil
    BY DEF Nil
  <2>3. WithAppender(c, x) = c
    BY <1>2, <2>1, <2>2 DEF WithAppender, Cache
  <2> QED
    BY <2>3
<1> QED
  BY <1>1, <1>2

LEMMA NewByTyped ==
    ASSUME NEW f, NEW x \in Type,
           \A y \in Type : TypeDepth[y] < TypeDepth[x] => f[y] \in [Cache -> NewResult]
    PROVE  NewBy(f, x) \in [Cache -> NewResult]
<1> SUFFICES ASSUME NEW c \in Cache PROVE NewBy(f, x)[c] \in NewResult
  BY DEF NewBy
<1>1. PartsMade(f, c, x) \in NewResult
  BY PartsMadeTyped
<1>2. WithAppender(PartsMade(f, c, x).c, x) \in Cache /\ PartsMade(f, c, x).c \in Cache
  BY <1>1, WithAppenderTyped DEF NewResult
<1> QED
  BY <1>2 DEF NewBy, NewResult

LEMMA NewByLocal ==
    ASSUME NEW f, NEW g, NEW x \in Type, Agree(Type, TypeDepth, x, f, g)
    PROVE  NewBy(f, x) = NewBy(g, x)
<1>1. x.T \in {"map", "set", "list", "pointer"} => f[x.V] = g[x.V]
  BY PartsSmaller DEF Agree
<1>2. x.T = "map" => f[x.K] = g[x.K]
  BY PartsSmaller DEF Agree
<1>3. \A c : KeyMade(f, c, x) = KeyMade(g, c, x)
  BY <1>2 DEF KeyMade
<1>4. \A c : PartsMade(f, c, x) = PartsMade(g, c, x)
  BY <1>1, <1>3 DEF PartsMade
<1>5. ASSUME NEW c \in Cache PROVE NewBy(f, x)[c] = NewBy(g, x)[c]
  <2>1. PartsMade(f, c, x) = PartsMade(g, c, x)
    BY <1>4
  <2> QED
    BY <2>1 DEF NewBy
<1>6. NewBy(f, x) = [c \in Cache |-> NewBy(f, x)[c]] /\ NewBy(g, x) = [c \in Cache |-> NewBy(g, x)[c]]
  BY DEF NewBy
<1> QED
  BY <1>5, <1>6

LEMMA NewUnfold ==
    /\ newTType = [x \in Type |-> NewBy(newTType, x)]
    /\ \A x \in Type : newTType[x] \in [Cache -> NewResult]
<1> DEFINE W == [x \in Type |-> [Cache -> NewResult]]
           step == [f \in Product(Type, W) |-> [x \in Type |-> NewBy(f, x)]]
<1>1. \A x \in Type : W[x] # {}
  <2>1. [c \in Cache |-> [c |-> c, ok |-> TRUE]] \in [Cache -> NewResult]
    BY DEF NewResult
  <2> QED
    BY <2>1
<1>2. step \in [Product(Type, W) -> Product(Type, W)]
  BY NewByTyped DEF Product
<1>3. Local(Type, W, TypeDepth, step)
  BY NewByLocal DEF Local
<1>4. PICK F \in Product(Type, W) : F = step[F]
  <2> HIDE DEF W, step
  <2> QED
    BY <1>1, <1>2, <1>3, TypeDepthIs, Recursion
<1>5. F = [x \in Type |-> NewBy(F, x)]
  BY <1>4
<1>6. newTType = [x \in Type |-> NewBy(newTType, x)]
  BY <1>5, ZenonT(60) DEF newTType, NewBy, Entered, KeyMade, PartsMade, WithAppender
<1>7. \A x \in Type : newTType[x] \in [Cache -> NewResult]
  <2> DEFINE G == {x \in Type : newTType[x] \in [Cache -> NewResult]}
  <2>1. ASSUME NEW x \in Type, \A y \in Type : TypeDepth[y] < TypeDepth[x] => y \in G PROVE x \in G
    <3>1. NewBy(newTType, x) \in [Cache -> NewResult]
      BY <2>1, NewByTyped
    <3> QED
      BY <1>6, <3>1
  <2>2. Type \subseteq G
    <3> HIDE DEF G
    <3> QED
      BY <2>1, TypeDepthIs, ByDepth
  <2> QED
    BY <2>2
<1> QED
  BY <1>6, <1>7

\* Whatever appender it has, the entry is that of x.
EntryOf(t, x) ==
    LET m == Made(x)
    IN  /\ t \in TType
        /\ t.T = m.T /\ t.WT = m.WT /\ t.Tag = m.Tag /\ t.RT = m.RT /\ t.IsPointer = m.IsPointer /\ t.parts = m.parts

Cached(c, x) == c[Key(x)] # Nil
PartsCached(c, x) == \A i \in DOMAIN Parts(x) : Cached(c, Parts(x)[i])

\* The entry of each cached type is its own.
Describing(c) == \A x \in Type : Cached(c, x) => EntryOf(c[Key(x)], x)
\* A type comes with those it refers to.
Closed(c) == \A x \in Type : Cached(c, x) => PartsCached(c, x)

Grown(c, d) == \A x \in Type : Cached(c, x) => Cached(d, x)
ComeWithParts(c, d) == \A x \in Type : Cached(d, x) => Cached(c, x) \/ PartsCached(d, x)

\* What a call of newTType leaves of the cache c: the appenders of maps do not panic
\* but for a pointer to a map.
Keeps(c, x, r) ==
    /\ r \in NewResult
    /\ Describing(r.c)
    /\ Grown(c, r.c)
    /\ ComeWithParts(c, r.c)
    /\ Cached(r.c, x)
    /\ r.ok \/ (x.T = "pointer" /\ x.V.T = "map")

LEMMA EnteredKeeps ==
    ASSUME NEW x \in Type, NEW c \in Cache, Describing(c)
    PROVE  LET e == Entered(c, x).c
           IN  /\ e \in Cache
               /\ Describing(e) /\ Grown(c, e) /\ Cached(e, x)
               /\ \A y \in Type : Cached(e, y) => Cached(c, y) \/ y = x
<1> DEFINE e == Entered(c, x).c
<1>1. e \in Cache
  BY EnteredTyped DEF NewResult
<1>2. e = [c EXCEPT ![Key(x)] = Made(x)] /\ Key(x) \in Keys
  BY DEF Entered, Keys
<1> HIDE DEF e
<1>3. e[Key(x)] = Made(x)
  BY <1>2 DEF Cache
<1>4. ASSUME NEW y \in Type, y # x PROVE e[Key(y)] = c[Key(y)]
  <2>1. Key(y) # Key(x) /\ Key(y) \in Keys
    BY <1>4, KeyDistinct DEF Keys
  <2> QED
    BY <1>2, <2>1 DEF Cache
<1>5. EntryOf(e[Key(x)], x)
  BY <1>3, MadeTyped DEF EntryOf
<1>6. Made(x) # Nil
  BY DEF Made, Nil
<1>7. Cached(e, x)
  BY <1>3, <1>6 DEF Cached
<1>8. Describing(e)
  BY <1>4, <1>5 DEF Describing, Cached
<1>9. Grown(c, e)
  BY <1>4, <1>7 DEF Grown, Cached
<1>10. \A y \in Type : Cached(e, y) => Cached(c, y) \/ y = x
  BY <1>4 DEF Cached
<1> QED
  BY <1>1, <1>7, <1>8, <1>9, <1>10 DEF e

LEMMA WithAppenderKeeps ==
    ASSUME NEW x \in Type, NEW c \in Cache, Cached(c, x)
    PROVE  LET d == WithAppender(c, x)
           IN  /\ d \in Cache
               /\ Describing(c) => Describing(d)
               /\ \A y \in Type : Cached(d, y) <=> Cached(c, y)
<1> DEFINE d == WithAppender(c, x)
<1>1. /\ d \in Cache
      /\ \A k \in Keys : k # Key(x) => d[k] = c[k]
      /\ \A f \in {"T", "WT", "Tag", "RT", "IsPointer", "parts"} : d[Key(x)][f] = c[Key(x)][f]
      /\ d[Key(x)] \in TType
  BY WithAppenderIs DEF Cached
<1> HIDE DEF d
<1>2. ASSUME NEW y \in Type, y # x PROVE d[Key(y)] = c[Key(y)]
  <2>1. Key(y) # Key(x) /\ Key(y) \in Keys
    BY <1>2, KeyDistinct DEF Keys
  <2> QED
    BY <1>1, <2>1
<1>3. EntryOf(c[Key(x)], x) => EntryOf(d[Key(x)], x)
  BY <1>1 DEF EntryOf
<1>4. Nil \notin TType
  BY DEF Nil, TType
<1>5. Cached(d, x)
  BY <1>1, <1>4 DEF Cached
<1>6. \A y \in Type : Cached(d, y) <=> Cached(c, y)
  BY <1>2, <1>5 DEF Cached
<1>7. Describing(c) => Describing(d)
  BY <1>2, <1>3, <1>6 DEF Describing
<1> QED
  BY <1>1, <1>6, <1>7 DEF d

\* No part of a type is a pointer to a map.
LEMMA PartsMakeAppenders ==
    ASSUME NEW x \in Type
    PROVE  /\ x.T \in Container => ~(x.V.T = "pointer" /\ x.V.V.T = "map")
           /\ x.T = "map" => ~(x.K.T = "pointer" /\ x.K.V.T = "map")
<1>1. x.S \in GoType /\ x \in Readings[x.S]
  BY TypeIs
<1>2. CASE IsPointerTo(x, x.S)
  <2>1. x.V.T # "pointer"
    BY <1>2, ReadingIs DEF IsPointerTo, IsBinary, IsListOrSet, IsMap, IsScalar, ScalarT
  <2> QED
    BY <1>2, <2>1 DEF IsPointerTo
<1>3. CASE IsListOrSet(x, x.S)
  BY <1>3 DEF IsListOrSet, IsValueType
<1>4. CASE IsMap(x, x.S)
  BY <1>4 DEF IsMap, IsValueType, IsKeyType, PointsTo
<1>5. CASE IsBinary(x, x.S) \/ IsScalar(x, x.S)
  BY <1>5 DEF IsBinary, IsScalar, ScalarT, Container
<1> QED
  BY <1>1, <1>2, <1>3, <1>4, <1>5, ReadingIs

\* The types a type is made with are cached, and come with those they refer to.
LEMMA PartsMadeKeeps ==
    ASSUME NEW f, NEW x \in Type, NEW c \in Cache, Describing(c),
           \A y \in Type : TypeDepth[y] < TypeDepth[x] =>
               \A d \in Cache : Describing(d) => Keeps(d, y, f[y][d])
    PROVE  LET r == PartsMade(f, c, x)
           IN  /\ r \in NewResult /\ r.ok
               /\ Describing(r.c) /\ Grown(c, r.c) /\ Cached(r.c, x) /\ PartsCached(r.c, x)
               /\ \A y \in Type : Cached(r.c, y) => Cached(c, y) \/ y = x \/ PartsCached(r.c, y)
<1> DEFINE e == Entered(c, x)
           k == KeyMade(f, c, x)
           r == PartsMade(f, c, x)
<1>1. e \in NewResult /\ e.ok
  BY EnteredTyped DEF Entered
<1>2. /\ Describing(e.c) /\ Grown(c, e.c) /\ Cached(e.c, x)
      /\ \A y \in Type : Cached(e.c, y) => Cached(c, y) \/ y = x
  BY EnteredKeeps
<1>3. k = IF x.T = "map" THEN f[x.K][e.c] ELSE e
  BY DEF KeyMade
<1>4. r = IF x.T \in Container /\ k.ok THEN f[x.V][k.c] ELSE k
  BY DEF PartsMade, Container
<1> HIDE DEF e, k, r
<1>5. e.c \in Cache
  BY <1>1 DEF NewResult
<1>6. CASE x.T = "map"
  <2>1. x.K \in Type /\ TypeDepth[x.K] < TypeDepth[x] /\ x.V \in Type /\ TypeDepth[x.V] < TypeDepth[x]
    BY <1>6, PartsSmaller
  <2>2. Keeps(e.c, x.K, k) /\ k.ok
    <3>1. Keeps(e.c, x.K, k)
      BY <1>2, <1>3, <1>5, <1>6, <2>1
    <3> QED
      BY <1>6, <3>1, PartsMakeAppenders DEF Keeps
  <2>3. k.c \in Cache /\ Describing(k.c)
    BY <2>2 DEF Keeps, NewResult
  <2>4. Keeps(k.c, x.V, r) /\ r.ok
    <3>1. Keeps(k.c, x.V, r)
      BY <1>4, <1>6, <2>1, <2>2, <2>3 DEF Container
    <3> QED
      BY <1>6, <3>1, PartsMakeAppenders DEF Keeps, Container
  <2>5. Grown(c, r.c) /\ Cached(r.c, x)
    BY <1>2, <2>2, <2>4 DEF Keeps, Grown
  <2>6. PartsCached(r.c, x)
    <3>1. Cached(r.c, x.K) /\ Cached(r.c, x.V)
      BY <2>1, <2>2, <2>4 DEF Keeps, Grown
    <3> QED
      BY <1>6, <3>1, PartsIs DEF PartsCached
  <2>7. ASSUME NEW y \in Type, Cached(r.c, y) PROVE Cached(c, y) \/ y = x \/ PartsCached(r.c, y)
    <3>1. Cached(k.c, y) \/ PartsCached(r.c, y)
      BY <2>4, <2>7 DEF Keeps, ComeWithParts
    <3>2. Cached(k.c, y) => Cached(e.c, y) \/ PartsCached(k.c, y)
      BY <2>2 DEF Keeps, ComeWithParts
    <3>3. PartsCached(k.c, y) => PartsCached(r.c, y)
      BY <2>4, PartsIs DEF Keeps, Grown, PartsCached
    <3> QED
      BY <1>2, <3>1, <3>2, <3>3
  <2> QED
    BY <2>4, <2>5, <2>6, <2>7 DEF Keeps, r
<1>7. CASE x.T \in {"set", "list", "pointer"}
  <2>1. x.V \in Type /\ TypeDepth[x.V] < TypeDepth[x]
    BY <1>7, PartsSmaller
  <2>2. k = e
    BY <1>3, <1>7
  <2>3. Keeps(e.c, x.V, r) /\ r.ok
    <3>1. Keeps(e.c, x.V, r)
      BY <1>1, <1>2, <1>4, <1>5, <1>7, <2>1, <2>2 DEF Container
    <3> QED
      BY <1>7, <3>1, PartsMakeAppenders DEF Keeps, Container
  <2>4. Grown(c, r.c) /\ Cached(r.c, x)
    BY <1>2, <2>3 DEF Keeps, Grown
  <2>5. PartsCached(r.c, x)
    BY <1>7, <2>3, PartsIs DEF PartsCached, Keeps
  <2>6. ASSUME NEW y \in Type, Cached(r.c, y) PROVE Cached(c, y) \/ y = x \/ PartsCached(r.c, y)
    BY <1>2, <2>3, <2>6 DEF Keeps, ComeWithParts
  <2> QED
    BY <2>3, <2>4, <2>5, <2>6 DEF Keeps, r
<1>8. CASE x.T \notin Container
  <2>1. r = e
    BY <1>3, <1>4, <1>8 DEF Container
  <2>2. PartsCached(r.c, x)
    BY <1>8, PartsIs DEF PartsCached
  <2> QED
    BY <1>1, <1>2, <2>1, <2>2 DEF r
<1> QED
  BY <1>6, <1>7, <1>8 DEF Container

LEMMA NewKeeps ==
    \A x \in Type : \A c \in Cache : Describing(c) => Keeps(c, x, newTType[x][c])
<1> DEFINE G == {x \in Type : \A c \in Cache : Describing(c) => Keeps(c, x, newTType[x][c])}
<1>1. ASSUME NEW x \in Type, \A y \in Type : TypeDepth[y] < TypeDepth[x] => y \in G PROVE x \in G
  <2> SUFFICES ASSUME NEW c \in Cache, Describing(c) PROVE Keeps(c, x, newTType[x][c])
    OBVIOUS
  <2> DEFINE r == PartsMade(newTType, c, x)
             q == newTType[x][c]
  <2>1. q = IF Cached(c, x) THEN [c |-> c, ok |-> TRUE]
            ELSE IF ~r.ok \/ NoAppendFunc(Made(x)) THEN [c |-> r.c, ok |-> FALSE]
            ELSE [c |-> WithAppender(r.c, x), ok |-> TRUE]
    BY NewUnfold DEF NewBy, Cached
  <2>2. /\ r \in NewResult /\ r.ok
        /\ Describing(r.c) /\ Grown(c, r.c) /\ Cached(r.c, x) /\ PartsCached(r.c, x)
        /\ \A y \in Type : Cached(r.c, y) => Cached(c, y) \/ y = x \/ PartsCached(r.c, y)
    BY <1>1, PartsMadeKeeps
  <2> HIDE DEF r, q
  <2>3. CASE Cached(c, x)
    <3>1. q = [c |-> c, ok |-> TRUE]
      BY <2>1, <2>3
    <3>2. q \in NewResult /\ q.c = c /\ q.ok
      BY <3>1 DEF NewResult
    <3>3. Keeps(c, x, q)
      BY <2>3, <3>2 DEF Keeps, Grown, ComeWithParts
    <3> QED
      BY <3>3 DEF q
  <2>4. ComeWithParts(c, r.c)
    BY <2>2 DEF ComeWithParts
  <2>5. CASE ~Cached(c, x) /\ NoAppendFunc(Made(x))
    <3>1. q = [c |-> r.c, ok |-> FALSE]
      BY <2>1, <2>5
    <3>2. q \in NewResult /\ q.c = r.c
      BY <2>2, <3>1 DEF NewResult
    <3>3. x.T = "pointer" /\ x.V.T = "map"
      <4>1. ~IsEnum(x) /\ Tag(x) = "map"
        BY <2>5 DEF NoAppendFunc, Made
      <4>2. Pointee(x).T = "map"
        BY <4>1 DEF Tag
      <4>3. Len(Made(x).parts) = Len(Parts(x))
        <5>1. Parts(x) \in Seq(Type) /\ Len(Parts(x)) \in Nat /\ DOMAIN Parts(x) = 1..Len(Parts(x))
          BY PartsIs, LenProperties
        <5>2. Made(x).parts = [i \in 1..Len(Parts(x)) |-> Key(Parts(x)[i])]
          BY <5>1 DEF Made
        <5> QED
          BY <5>1, <5>2
      <4>4. x.T # "map"
        BY <2>5, <4>3, PartsIs DEF NoAppendFunc
      <4> QED
        BY <4>2, <4>4 DEF Pointee
    <3>4. Keeps(c, x, q)
      BY <2>2, <2>4, <3>2, <3>3 DEF Keeps
    <3> QED
      BY <3>4 DEF q
  <2>6. CASE ~Cached(c, x) /\ ~NoAppendFunc(Made(x))
    <3>1. q = [c |-> WithAppender(r.c, x), ok |-> TRUE]
      BY <2>1, <2>2, <2>6
    <3>2. r.c \in Cache
      BY <2>2 DEF NewResult
    <3>3. q \in NewResult /\ q.ok /\ Describing(q.c) /\ \A y \in Type : Cached(q.c, y) <=> Cached(r.c, y)
      BY <2>2, <3>1, <3>2, WithAppenderKeeps DEF NewResult
    <3>4. Grown(c, q.c) /\ Cached(q.c, x)
      BY <2>2, <3>3 DEF Grown
    <3>5. ComeWithParts(c, q.c)
      BY <2>4, <3>3, PartsIs DEF ComeWithParts, PartsCached
    <3>6. Keeps(c, x, q)
      BY <3>3, <3>4, <3>5 DEF Keeps
    <3> QED
      BY <3>6 DEF q
  <2> QED
    BY <2>3, <2>5, <2>6
<1>2. Type \subseteq G
  <2> HIDE DEF G
  <2> QED
    BY <1>1, TypeDepthIs, ByDepth
<1> QED
  BY <1>2

\* What the cache is like between two calls.
GoodCache(c) == c \in Cache /\ Describing(c) /\ Closed(c)

LEMMA NewGood ==
    ASSUME NEW x \in Type, NEW c, GoodCache(c)
    PROVE  LET r == newTType[x][c]
           IN  r \in NewResult /\ GoodCache(r.c) /\ Grown(c, r.c) /\ Cached(r.c, x)
<1> DEFINE r == newTType[x][c]
<1>1. Keeps(c, x, r)
  BY NewKeeps DEF GoodCache
<1> HIDE DEF r
<1>2. ASSUME NEW y \in Type, Cached(r.c, y) PROVE PartsCached(r.c, y)
  <2>1. Cached(c, y) => PartsCached(c, y)
    BY DEF GoodCache, Closed
  <2>2. PartsCached(c, y) => PartsCached(r.c, y)
    BY <1>1, PartsIs DEF Keeps, Grown, PartsCached
  <2> QED
    BY <1>1, <1>2, <2>1, <2>2 DEF Keeps, ComeWithParts
<1>3. GoodCache(r.c)
  BY <1>1, <1>2 DEF Keeps, GoodCache, Closed, NewResult
<1> QED
  BY <1>1, <1>3 DEF Keeps, r

\* The cache after the types of fields are made: if none panics, it has them all.
LEMMA NewTypesGood ==
    ASSUME NEW c, GoodCache(c), NEW ff \in Seq(FieldOf)
    PROVE  LET r == NewTypes(c, ff)
           IN  /\ r \in NewResult
               /\ GoodCache(r.c)
               /\ r.ok => \A i \in DOMAIN ff : Cached(r.c, ff[i].Type)
<1> DEFINE N == Len(ff)
           start == [c |-> c, ok |-> TRUE]
           Turn(r, n) == IF r.ok THEN newTType[ff[n].Type][r.c] ELSE r
           Is(T) == T = [n \in 0..N |-> IF n = 0 THEN start ELSE Turn(T[n - 1], n)]
           T == CHOOSE T : Is(T)
           Good == {r \in NewResult : GoodCache(r.c)}
           step == [p \in Good \X (1..N) |-> Turn(p[1], p[2])]
<1>1. N \in Nat /\ DOMAIN ff = 1..N /\ \A n \in 1..N : ff[n].Type \in Type
  BY LenProperties, ElementOfSeq DEF FieldOf
<1>2. start \in Good
  BY DEF NewResult, GoodCache
<1>3. ASSUME NEW r \in Good, NEW n \in 1..N
      PROVE  /\ Turn(r, n) \in Good
             /\ Grown(r.c, Turn(r, n).c)
             /\ Turn(r, n).ok => r.ok /\ Cached(Turn(r, n).c, ff[n].Type)
  <2>1. CASE r.ok
    BY <1>1, <2>1, NewGood
  <2>2. CASE ~r.ok
    BY <2>2 DEF Grown
  <2> QED
    BY <2>1, <2>2
<1> HIDE DEF Turn
<1>4. \A r \in Good, n \in 1..N : step[<<r, n>>] = Turn(r, n)
  OBVIOUS
<1>5. \A r \in Good, n \in 1..N : step[<<r, n>>] \in Good
  BY <1>3, <1>4
<1> HIDE DEF step
<1>6. PICK F : Turns(F, Good, N, start, step)
  <2> HIDE DEF N, start, Good
  <2> QED
    BY <1>1, <1>2, <1>5, Turning
<1>7. Is(F)
  <2>1. ASSUME NEW n \in 0..N, n # 0 PROVE step[<<F[n - 1], n>>] = Turn(F[n - 1], n)
    <3>1. n \in 1..N /\ n - 1 \in 0..N
      BY <1>1, <2>1
    <3>2. F[n - 1] \in Good
      BY <1>6, <3>1 DEF Turns
    <3> QED
      BY <1>4, <3>1, <3>2
  <2> HIDE DEF N, start, Good
  <2> QED
    BY <1>6, <2>1 DEF Turns
<1>8. Is(T)
  <2> HIDE DEF Is
  <2> QED
    BY <1>7
<1>9. NewTypes(c, ff) = T[N]
  BY DEF NewTypes, Turn
<1> DEFINE Done1(n) == T[n] \in Good /\ (T[n].ok => \A i \in 1..n : Cached(T[n].c, ff[i].Type))
<1> HIDE DEF T
<1>10. \A n \in 0..N : Done1(n)
  <2> DEFINE G == {n \in Nat : n \in 0..N => Done1(n)}
  <2>1. 0 \in G
    BY <1>2, <1>8
  <2>2. ASSUME NEW n \in Nat, n \in G PROVE n + 1 \in G
    <3> SUFFICES ASSUME n + 1 \in 0..N PROVE Done1(n + 1)
      OBVIOUS
    <3>1. n \in 0..N /\ n + 1 \in 1..N /\ n + 1 # 0 /\ (n + 1) - 1 = n
      BY <1>1
    <3>2. T[n + 1] = Turn(T[n], n + 1)
      BY <1>8, <3>1
    <3>3. Done1(n)
      BY <2>2, <3>1
    <3>4. \A i \in 1..(n + 1) : i \in 1..n \/ i = n + 1
      OBVIOUS
    <3>5. /\ T[n + 1] \in Good /\ Grown(T[n].c, T[n + 1].c)
          /\ T[n + 1].ok => T[n].ok /\ Cached(T[n + 1].c, ff[n + 1].Type)
      BY <1>3, <3>1, <3>2, <3>3
    <3>6. ASSUME T[n + 1].ok, NEW i \in 1..(n + 1) PROVE Cached(T[n + 1].c, ff[i].Type)
      <4>1. CASE i = n + 1
        BY <3>5, <3>6, <4>1
      <4>2. CASE i \in 1..n
        <5>1. i \in 1..N
          BY <1>1, <3>1, <4>2
        <5>2. ff[i].Type \in Type
          BY <1>1, <5>1
        <5>3. Cached(T[n].c, ff[i].Type)
          BY <3>3, <3>5, <3>6, <4>2
        <5> QED
          BY <3>5, <5>2, <5>3 DEF Grown
      <4> QED
        BY <3>4, <4>1, <4>2
    <3> QED
      BY <3>5, <3>6
  <2>3. Nat \subseteq G
    <3> HIDE DEF G
    <3> QED
      BY <2>1, <2>2, NatSet
  <2> QED
    BY <1>1, <2>3
<1>11. N \in 0..N
  BY <1>1
<1> QED
  BY <1>1, <1>9, <1>10, <1>11

-----------------------------------------------------------------------------
(***************************************************************************)
(* The inductive invariant                                                 *)
(***************************************************************************)
\* The descriptor is that of the fields resolved, and the cache has their types.
Described ==
    outcome = "ok" =>
        /\ resolved.ff \in SortedFields
        /\ \A i \in DOMAIN resolved.ff : Cached(ttypes, resolved.ff[i].Type)
        /\ desc = fromDefsFields(resolved.ff, ttypes, struct.init)

DInv == GoodCache(ttypes) /\ Described

LEMMA NewStructDescKeeps ==
    ASSUME DInv, NEW s \in Structs, newStructDesc(s)
    PROVE  DInv'
<1> DEFINE r == DoResolveFields(s.decls)
           types == IF r.st = "ok" THEN NewTypes(ttypes, r.ff) ELSE [c |-> ttypes, ok |-> TRUE]
<1>1. /\ struct' = s
      /\ resolved' = r
      /\ ttypes' = types.c
      /\ outcome' = IF r.st = "ok" /\ ~types.ok THEN "panic" ELSE r.st
      /\ desc' = IF outcome' = "ok" THEN fromDefsFields(r.ff, types.c, s.init) ELSE desc
  BY DEF newStructDesc, Finish, Types
<1>2. r.st = "ok" => r.ff \in SortedFields /\ r.ff \in Seq(FieldOf)
  <2>1. s.decls \in Seq(DOMAIN Decl)
    BY StructsAssumption
  <2> QED
    BY <2>1, ResolvedTyped DEF SortedFields
<1>3. GoodCache(ttypes)
  BY DEF DInv
<1> HIDE DEF r
<1>4. /\ GoodCache(types.c)
      /\ r.st = "ok" /\ types.ok => \A i \in DOMAIN r.ff : Cached(types.c, r.ff[i].Type)
  BY <1>2, <1>3, NewTypesGood
<1> HIDE DEF types
<1>5. GoodCache(ttypes')
  BY <1>1, <1>4
<1>6. ASSUME outcome' = "ok"
      PROVE  /\ r.ff \in SortedFields
             /\ \A i \in DOMAIN r.ff : Cached(types.c, r.ff[i].Type)
             /\ desc' = fromDefsFields(r.ff, types.c, s.init)
  BY <1>1, <1>2, <1>4, <1>6
<1>7. Described'
  BY <1>1, <1>6 DEF Described
<1>8. GoodCache(ttypes)'
  BY <1>5
<1> QED
  BY <1>7, <1>8 DEF DInv

LEMMA DInvStays ==
    ASSUME DInv, UNCHANGED descVars
    PROVE  DInv'
<1>1. ttypes' = ttypes /\ struct' = struct /\ resolved' = resolved /\ outcome' = outcome /\ desc' = desc
  BY DEF descVars
<1>2. Described' <=> Described
  BY <1>1 DEF Described
<1>3. GoodCache(ttypes)' <=> GoodCache(ttypes)
  BY <1>1
<1> QED
  BY <1>2, <1>3 DEF DInv

LEMMA InitGood ==
    ASSUME InitD
    PROVE  DInv
<1>1. ttypes = [k \in Keys |-> Nil] /\ outcome = "none"
  BY DEF InitD
<1>2. \A x \in Type : ~Cached(ttypes, x)
  BY <1>1 DEF Cached, Keys
<1>3. GoodCache(ttypes)
  BY <1>1, <1>2 DEF GoodCache, Cache, Describing, Closed
<1> QED
  BY <1>1, <1>3 DEF DInv, Described

\* The cache and the descriptor of the last struct are always so.
THEOREM CacheStaysGood == SpecD => []DInv
<1>1. InitD => DInv
  BY InitGood
<1>2. DInv /\ [NextD]_<<vars, descVars>> => DInv'
  <2> SUFFICES ASSUME DInv, [NextD]_<<vars, descVars>> PROVE DInv'
    OBVIOUS
  <2>1. ASSUME Describe PROVE DInv'
    BY <2>1, NewStructDescKeeps DEF Describe
  <2>2. CASE UNCHANGED descVars
    BY <2>2, DInvStays
  <2> QED
    BY <2>1, <2>2 DEF NextD
<1> QED
  BY <1>1, <1>2, PTL DEF SpecD

-----------------------------------------------------------------------------
(***************************************************************************)
(* Cached types, unfolded                                                  *)
(***************************************************************************)
TypeOf(k) == CHOOSE x \in Type : Key(x) = k

LEMMA KeyOf ==
    /\ \A k \in Keys : TypeOf(k) \in Type /\ Key(TypeOf(k)) = k
    /\ \A x \in Type : Key(x) \in Keys /\ TypeOf(Key(x)) = x
<1>1. \A k \in Keys : TypeOf(k) \in Type /\ Key(TypeOf(k)) = k
  BY DEF Keys, TypeOf
<1>2. \A x \in Type : Key(x) \in Keys
  BY DEF Keys
<1> QED
  BY <1>1, <1>2, KeyDistinct

\* What the entry of a cached type says.
LEMMA EntryIs ==
    ASSUME GoodCache(ttypes), NEW x \in Type, Cached(ttypes, x)
    PROVE  LET t == ttypes[Key(x)]
           IN  /\ t \in TType /\ t # Nil
               /\ t.T = (IF IsEnum(x) THEN "enum" ELSE Tag(x)) /\ t.WT = Tag(x)
               /\ t.Tag = x.T /\ t.RT = x.S /\ (t.IsPointer <=> x.T = "pointer")
               /\ Len(t.parts) = Len(Parts(x)) /\ DOMAIN t.parts = DOMAIN Parts(x)
               /\ \A i \in DOMAIN Parts(x) :
                    /\ t.parts[i] = Key(Parts(x)[i]) /\ Parts(x)[i] \in Type
                    /\ Cached(ttypes, Parts(x)[i])
<1> DEFINE t == ttypes[Key(x)]
           n == Len(Parts(x))
<1>1. EntryOf(t, x) /\ PartsCached(ttypes, x) /\ t # Nil
  BY DEF GoodCache, Describing, Closed, Cached
<1> HIDE DEF t
<1>2. Parts(x) \in Seq(Type) /\ n \in Nat /\ DOMAIN Parts(x) = 1..n
  BY PartsIs, LenProperties
<1>3. t.parts = [i \in 1..n |-> Key(Parts(x)[i])]
  BY <1>1, <1>2 DEF EntryOf, Made
<1>4. Len(t.parts) = n /\ DOMAIN t.parts = 1..n /\ \A i \in 1..n : t.parts[i] = Key(Parts(x)[i])
  BY <1>2, <1>3
<1>5. \A i \in 1..n : Parts(x)[i] \in Type /\ Cached(ttypes, Parts(x)[i])
  BY <1>1, <1>2, ElementOfSeq DEF PartsCached
<1>6. t.T = (IF IsEnum(x) THEN "enum" ELSE Tag(x)) /\ t.WT = Tag(x) /\ t.Tag = x.T /\ t.RT = x.S /\ (t.IsPointer <=> x.T = "pointer")
  BY <1>1 DEF EntryOf, Made
<1> QED
  BY <1>1, <1>2, <1>4, <1>5, <1>6 DEF EntryOf, t

UnfoldedBy(f, k) ==
    LET t == ttypes[k]
    IN  IF t = Nil THEN Nil
        ELSE CASE t.Tag = "map" ->
                    [T |-> t.Tag, S |-> t.RT, K |-> f[t.parts[1]], V |-> f[t.parts[2]]]
               [] t.Tag \in {"set", "list", "pointer"} -> [T |-> t.Tag, S |-> t.RT, V |-> f[t.parts[1]]]
               [] OTHER -> [T |-> t.Tag, S |-> t.RT]

LEMMA UnfoldedOf ==
    ASSUME GoodCache(ttypes), NEW x \in Type, Cached(ttypes, x), NEW f,
           \A y \in Type : TypeDepth[y] < TypeDepth[x] /\ Cached(ttypes, y) => f[Key(y)] = y
    PROVE  UnfoldedBy(f, Key(x)) = x
<1> DEFINE t == ttypes[Key(x)]
<1>1. /\ t # Nil /\ t.Tag = x.T /\ t.RT = x.S
      /\ \A i \in DOMAIN Parts(x) : t.parts[i] = Key(Parts(x)[i]) /\ Cached(ttypes, Parts(x)[i])
  BY EntryIs
<1>2. \A i \in DOMAIN Parts(x) : f[t.parts[i]] = Parts(x)[i]
  BY <1>1, PartsIs
<1>3. UnfoldedBy(f, Key(x)) =
        CASE t.Tag = "map" -> [T |-> t.Tag, S |-> t.RT, K |-> f[t.parts[1]], V |-> f[t.parts[2]]]
          [] t.Tag \in {"set", "list", "pointer"} -> [T |-> t.Tag, S |-> t.RT, V |-> f[t.parts[1]]]
          [] OTHER -> [T |-> t.Tag, S |-> t.RT]
  BY <1>1 DEF UnfoldedBy
<1> HIDE DEF t
<1>4. IsPointerTo(x, x.S) \/ IsBinary(x, x.S) \/ IsListOrSet(x, x.S) \/ IsMap(x, x.S) \/ IsScalar(x, x.S)
  BY TypeIs, ReadingIs
<1>5. CASE x.T = "map"
  <2>1. x = [T |-> x.T, S |-> x.S, K |-> x.K, V |-> x.V]
    BY <1>4, <1>5 DEF IsPointerTo, IsBinary, IsListOrSet, IsMap, IsScalar, ScalarT
  <2>2. f[t.parts[1]] = x.K /\ f[t.parts[2]] = x.V
    BY <1>2, <1>5, PartsIs
  <2> QED
    BY <1>1, <1>3, <1>5, <2>1, <2>2
<1>6. CASE x.T \in {"set", "list", "pointer"}
  <2>1. x = [T |-> x.T, S |-> x.S, V |-> x.V]
    BY <1>4, <1>6 DEF IsPointerTo, IsBinary, IsListOrSet, IsMap, IsScalar, ScalarT
  <2>2. f[t.parts[1]] = x.V
    BY <1>2, <1>6, PartsIs
  <2> QED
    BY <1>1, <1>3, <1>6, <2>1, <2>2
<1>7. CASE x.T \notin {"map", "set", "list", "pointer"}
  <2>1. x = [T |-> x.T, S |-> x.S]
    BY <1>4, <1>7 DEF IsPointerTo, IsBinary, IsListOrSet, IsMap, IsScalar, ScalarT
  <2> QED
    BY <1>1, <1>3, <1>7, <2>1
<1> QED
  BY <1>5, <1>6, <1>7

\* A cached type unfolds to the type whose key it has.
LEMMA UnfoldedIs ==
    ASSUME GoodCache(ttypes)
    PROVE  \A x \in Type : Cached(ttypes, x) => Unfolded[Key(x)] = x
<1> DEFINE Is(f) == f = [k \in Keys |-> UnfoldedBy(f, k)]
           F == [k \in Keys |-> IF ttypes[k] = Nil THEN Nil ELSE TypeOf(k)]
<1>1. Is(F)
  <2>1. ASSUME NEW k \in Keys PROVE F[k] = UnfoldedBy(F, k)
    <3>1. CASE ttypes[k] = Nil
      BY <3>1 DEF UnfoldedBy
    <3>2. CASE ttypes[k] # Nil
      <4>1. TypeOf(k) \in Type /\ Key(TypeOf(k)) = k /\ Cached(ttypes, TypeOf(k))
        BY <3>2, KeyOf DEF Cached
      <4>2. \A y \in Type : Cached(ttypes, y) => F[Key(y)] = y
        BY KeyOf DEF Cached
      <4>3. F[k] = TypeOf(k)
        BY <3>2
      <4> HIDE DEF F
      <4>4. UnfoldedBy(F, Key(TypeOf(k))) = TypeOf(k)
        BY <4>1, <4>2, UnfoldedOf
      <4> QED
        BY <4>1, <4>3, <4>4
    <3> QED
      BY <3>1, <3>2
  <2>2. F = [k \in Keys |-> F[k]]
    OBVIOUS
  <2> HIDE DEF F
  <2> QED
    BY <2>1, <2>2
<1>2. Unfolded = CHOOSE f : Is(f)
  BY DEF Unfolded, UnfoldedBy
<1>3. Is(Unfolded)
  <2> HIDE DEF Is, F
  <2> QED
    BY <1>1, <1>2
<1> DEFINE G == {x \in Type : Cached(ttypes, x) => Unfolded[Key(x)] = x}
<1>4. ASSUME NEW x \in Type, \A y \in Type : TypeDepth[y] < TypeDepth[x] => y \in G PROVE x \in G
  <2> SUFFICES ASSUME Cached(ttypes, x) PROVE Unfolded[Key(x)] = x
    OBVIOUS
  <2>1. UnfoldedBy(Unfolded, Key(x)) = x
    BY <1>4, UnfoldedOf
  <2>2. Key(x) \in Keys
    BY KeyOf
  <2> QED
    BY <1>3, <2>1, <2>2
<1>5. Type \subseteq G
  <2> HIDE DEF G
  <2> QED
    BY <1>4, TypeDepthIs, ByDepth
<1> QED
  BY <1>5

LEMMA FieldIs ==
    ASSUME NEW x, NEW c, NEW init
    PROVE  LET f == fromDefsField(x, c, init)
           IN  /\ f.ID = x.ID /\ f.F = x.F /\ f.Type = Key(x.Type) /\ f.Spec = x.Spec
               /\ f.CanSkipEncodeIfNil \/ f.CanSkipIfDefault => x.Spec = <<"optional">>
BY DEF fromDefsField

\* The fields of the descriptor, and the types they have in the cache.
LEMMA FieldsAre ==
    ASSUME DInv, outcome = "ok"
    PROVE  LET ff == resolved.ff
           IN  /\ ff \in Seq(FieldOf)
               /\ DOMAIN desc.fields = DOMAIN ff
               /\ \A i \in DOMAIN ff :
                    /\ ff[i] \in FieldOf /\ ff[i].Type \in Type /\ Cached(ttypes, ff[i].Type)
                    /\ desc.fields[i] = fromDefsField(ff[i], ttypes, struct.init)
                    /\ desc.fields[i].Type = Key(ff[i].Type) /\ desc.fields[i].F = ff[i].F
<1> DEFINE ff == resolved.ff
<1>1. ff \in Seq(FieldOf) /\ \A i \in DOMAIN ff : Cached(ttypes, ff[i].Type)
  BY DEF DInv, Described, SortedFields
<1>2. desc.fields = [i \in DOMAIN ff |-> fromDefsField(ff[i], ttypes, struct.init)]
  BY DEF DInv, Described, fromDefsFields
<1> HIDE DEF ff
<1>3. \A i \in DOMAIN ff : ff[i] \in FieldOf
  BY <1>1, LenProperties, ElementOfSeq
<1>4. \A i \in DOMAIN ff : ff[i].Type \in Type
  BY <1>3 DEF FieldOf
<1>5. \A i \in DOMAIN ff : desc.fields[i] = fromDefsField(ff[i], ttypes, struct.init)
  BY <1>2
<1>6. ASSUME NEW i \in DOMAIN ff PROVE desc.fields[i].Type = Key(ff[i].Type) /\ desc.fields[i].F = ff[i].F
  BY <1>5, <1>6, FieldIs
<1> QED
  BY <1>1, <1>2, <1>3, <1>4, <1>5, <1>6 DEF ff

\* A type from the cache is the field's own, through all of its elements:
\* CacheKeepsTypesApart, for all declarations and Go types, and whatever structs
\* were described before.
THEOREM KeepsTypesApart == SpecD => []CacheKeepsTypesApart
<1>1. DInv => CacheKeepsTypesApart
  <2> SUFFICES ASSUME DInv, outcome = "ok", NEW i \in DOMAIN desc.fields
               PROVE  Unfolded[desc.fields[i].Type] = resolved.ff[i].Type
    BY DEF CacheKeepsTypesApart
  <2>1. resolved.ff[i].Type \in Type /\ Cached(ttypes, resolved.ff[i].Type) /\ desc.fields[i].Type = Key(resolved.ff[i].Type)
    BY FieldsAre
  <2> QED
    BY <2>1, UnfoldedIs DEF DInv
<1> QED
  BY <1>1, CacheStaysGood, PTL

-----------------------------------------------------------------------------
(***************************************************************************)
(* The sizes of fields                                                     *)
(***************************************************************************)
\* A field that has a size is never skipped, and has that of its type.
LEMMA FixedFieldIs ==
    ASSUME DInv, outcome = "ok", NEW i \in DOMAIN resolved.ff, FieldSize(desc.fields[i], ttypes) > 0
    PROVE  LET f == desc.fields[i]
           IN  /\ ~(f.CanSkipEncodeIfNil \/ f.CanSkipIfDefault)
               /\ FieldSize(f, ttypes) = 3 + FixedSize(Pointee(resolved.ff[i].Type).T)
<1> DEFINE f == desc.fields[i]
           x == resolved.ff[i].Type
           t == ttypes[Key(x)]
<1>1. /\ x \in Type /\ Cached(ttypes, x) /\ f.Type = Key(x)
      /\ f = fromDefsField(resolved.ff[i], ttypes, struct.init)
  BY FieldsAre
<1>2. t.T = (IF IsEnum(x) THEN "enum" ELSE Tag(x)) /\ (t.IsPointer <=> x.T = "pointer")
  BY <1>1, EntryIs DEF DInv
<1>3. FieldSize(f, ttypes) =
        IF t.IsPointer \/ f.Spec = <<"optional">> \/ FixedSize(t.T) = 0 THEN -1 ELSE 3 + FixedSize(t.T)
  BY <1>1 DEF FieldSize
<1>4. /\ f.Spec = resolved.ff[i].Spec
      /\ f.CanSkipEncodeIfNil \/ f.CanSkipIfDefault => f.Spec = <<"optional">>
  BY <1>1, FieldIs
<1> HIDE DEF f, t
<1>5. ~t.IsPointer /\ f.Spec # <<"optional">> /\ FixedSize(t.T) # 0 /\ FieldSize(f, ttypes) = 3 + FixedSize(t.T)
  BY <1>3 DEF f
<1>6. Pointee(x) = x
  BY <1>2, <1>5 DEF Pointee
<1>7. FixedSize("string") = 0
  BY DEF FixedSize, typeToSize
<1>8. t.T = x.T
  BY <1>2, <1>5, <1>6, <1>7 DEF IsEnum, Tag
<1> QED
  BY <1>4, <1>5, <1>6, <1>8 DEF f

\* EncodedSize counts a field without looking at it only if it is always written, and
\* counts what is written: CountedUnseenIsWritten, for all declarations.
THEOREM CountsWhatIsWritten == SpecD => []CountedUnseenIsWritten
<1>1. DInv => CountedUnseenIsWritten
  <2> SUFFICES ASSUME DInv, outcome = "ok" PROVE CountedUnseenIsWritten
    BY DEF CountedUnseenIsWritten
  <2> DEFINE ff == resolved.ff
             fields == desc.fields
             fixed == {i \in DOMAIN ff : FieldSize(fields[i], ttypes) > 0}
             counted == DOMAIN desc.fields \ desc.varLenFields
             size(i) == 3 + FixedSize(Pointee(ff[i].Type).T)
  <2>1. /\ desc.fixedLenFieldSize = SumFunctionOnSet([i \in fixed |-> FieldSize(fields[i], ttypes)], fixed)
        /\ desc.varLenFields = DOMAIN ff \ fixed
    <3> DEFINE fs == [i \in DOMAIN ff |-> fromDefsField(ff[i], ttypes, struct.init)]
               fx == {i \in DOMAIN ff : FieldSize(fs[i], ttypes) > 0}
    <3>1. desc = fromDefsFields(ff, ttypes, struct.init)
      BY DEF DInv, Described
    <3>2. /\ desc.fields = fs
          /\ desc.fixedLenFieldSize = SumFunctionOnSet([i \in fx |-> FieldSize(fs[i], ttypes)], fx)
          /\ desc.varLenFields = DOMAIN ff \ fx
      BY <3>1 DEF fromDefsFields
    <3> HIDE DEF fs
    <3> QED
      BY <3>2
  <2>2. DOMAIN fields = DOMAIN ff
    BY FieldsAre
  <2>3. counted = fixed
    BY <2>1, <2>2
  <2>4. \A i \in fixed : /\ ~(fields[i].CanSkipEncodeIfNil \/ fields[i].CanSkipIfDefault)
                         /\ FieldSize(fields[i], ttypes) = size(i)
    BY FixedFieldIs
  <2> HIDE DEF fixed, counted
  <2>5. [i \in fixed |-> FieldSize(fields[i], ttypes)] = [i \in counted |-> size(i)]
    BY <2>3, <2>4
  <2>6. desc.fixedLenFieldSize = SumFunctionOnSet([i \in counted |-> size(i)], counted)
    BY <2>1, <2>3, <2>5
  <2>7. \A i \in counted : ~(fields[i].CanSkipEncodeIfNil \/ fields[i].CanSkipIfDefault)
    BY <2>3, <2>4
  <2> QED
    BY <2>6, <2>7 DEF CountedUnseenIsWritten, counted
<1> QED
  BY <1>1, CacheStaysGood, PTL

-----------------------------------------------------------------------------
(***************************************************************************)
(* The memory of values                                                    *)
(***************************************************************************)
\* What layouts are made of.
Item == {"*", "slice", "map", "8 bits", "16 bits", "32 bits", "64 bits", "struct", "string", "nil"}
          \cup {go.kind : go \in GoType} \cup {go.pkg : go \in GoType} \cup {go.name : go \in GoType}

LEMMA ItemHas ==
    /\ "*" \in Item /\ "slice" \in Item /\ "map" \in Item /\ "8 bits" \in Item /\ "16 bits" \in Item
    /\ "32 bits" \in Item /\ "64 bits" \in Item /\ "struct" \in Item /\ "string" \in Item /\ "nil" \in Item
    /\ \A go \in GoType : go.kind \in Item /\ go.pkg \in Item /\ go.name \in Item
BY DEF Item

LEMMA Items ==
    /\ \A p \in Item : <<p>> \in Seq(Item)
    /\ \A p, q \in Item : <<p, q>> \in Seq(Item)
    /\ \A p, q, r \in Item : <<p, q, r>> \in Seq(Item)
    /\ \A s, t \in Seq(Item) : s \o t \in Seq(Item)
<1>1. \A p \in Item : <<p>> \in Seq(Item)
  BY SingleSeq
<1>2. \A p, q \in Item : <<p, q>> \in Seq(Item)
  OBVIOUS
<1>3. \A p, q, r \in Item : <<p, q, r>> \in Seq(Item)
  OBVIOUS
<1>4. \A s, t \in Seq(Item) : s \o t \in Seq(Item)
  BY ConcatProperties
<1> QED
  BY <1>1, <1>2, <1>3, <1>4

LayoutBy(f, go) ==
    CASE go.kind = "ptr" -> <<"*">> \o f[go.elem]
      [] go.kind = "slice" -> <<"slice">> \o f[go.elem]
      [] go.kind = "map" -> <<"map">> \o f[go.key] \o f[go.elem]
      [] go.kind \in {"bool", "int8", "uint8"} -> <<"8 bits">>
      [] go.kind = "int16" -> <<"16 bits">>
      [] go.kind = "int32" -> <<"32 bits">>
      [] go.kind \in {"int", "int64", "float64"} -> <<"64 bits">>
      [] go.kind = "struct" -> <<"struct", go.pkg, go.name>>
      [] OTHER -> <<go.kind>>

LEMMA LayoutByTyped ==
    ASSUME NEW f, NEW go \in GoType, \A g \in GoType : Depth[g] < Depth[go] => f[g] \in Seq(Item)
    PROVE  LayoutBy(f, go) \in Seq(Item)
<1>1. go.kind \in {"ptr", "slice", "map"} => f[go.elem] \in Seq(Item)
  BY GoTypeAssumption
<1>2. go.kind = "map" => f[go.key] \in Seq(Item)
  BY GoTypeAssumption
<1>3. /\ <<"*">> \in Seq(Item) /\ <<"slice">> \in Seq(Item) /\ <<"map">> \in Seq(Item) /\ <<"8 bits">> \in Seq(Item)
      /\ <<"16 bits">> \in Seq(Item) /\ <<"32 bits">> \in Seq(Item) /\ <<"64 bits">> \in Seq(Item)
      /\ <<"struct", go.pkg, go.name>> \in Seq(Item) /\ <<go.kind>> \in Seq(Item)
  BY ItemHas, Items
<1>4. CASE go.kind = "ptr"
  BY <1>1, <1>3, <1>4, Items DEF LayoutBy
<1>5. CASE go.kind = "slice"
  BY <1>1, <1>3, <1>5, Items DEF LayoutBy
<1>6. CASE go.kind = "map"
  <2>1. <<"map">> \o f[go.key] \in Seq(Item)
    BY <1>2, <1>3, <1>6, Items
  <2>2. (<<"map">> \o f[go.key]) \o f[go.elem] \in Seq(Item)
    BY <1>1, <1>6, <2>1, Items
  <2> QED
    BY <1>6, <2>2 DEF LayoutBy
<1>7. CASE go.kind \notin {"ptr", "slice", "map"}
  <2>1. LayoutBy(f, go) \in {<<"8 bits">>, <<"16 bits">>, <<"32 bits">>, <<"64 bits">>, <<"struct", go.pkg, go.name>>, <<go.kind>>}
    BY <1>7 DEF LayoutBy
  <2> HIDE DEF LayoutBy
  <2> QED
    BY <1>3, <2>1
<1> QED
  BY <1>4, <1>5, <1>6, <1>7

LEMMA LayoutByLocal ==
    ASSUME NEW f, NEW g, NEW go \in GoType, Agree(GoType, Depth, go, f, g)
    PROVE  LayoutBy(f, go) = LayoutBy(g, go)
<1>1. go.kind \in {"ptr", "slice", "map"} => f[go.elem] = g[go.elem]
  BY GoTypeAssumption DEF Agree
<1>2. go.kind = "map" => f[go.key] = g[go.key]
  BY GoTypeAssumption DEF Agree
<1> QED
  BY <1>1, <1>2 DEF LayoutBy

LEMMA LayoutUnfold ==
    \A go \in GoType : Layout[go] = LayoutBy(Layout, go) /\ Layout[go] \in Seq(Item)
<1> DEFINE W == [go \in GoType |-> Seq(Item)]
           step == [f \in Product(GoType, W) |-> [go \in GoType |-> LayoutBy(f, go)]]
<1>0. Depth \in [GoType -> Nat]
  BY GoTypeAssumption
<1>1. \A go \in GoType : W[go] # {}
  <2>1. <<>> \in Seq(Item)
    OBVIOUS
  <2> QED
    BY <2>1
<1>2. step \in [Product(GoType, W) -> Product(GoType, W)]
  BY LayoutByTyped DEF Product
<1>3. Local(GoType, W, Depth, step)
  BY LayoutByLocal DEF Local
<1>4. PICK F \in Product(GoType, W) : F = step[F]
  <2> HIDE DEF W, step
  <2> QED
    BY <1>0, <1>1, <1>2, <1>3, Recursion
<1>5. F = [go \in GoType |-> LayoutBy(F, go)]
  BY <1>4
<1>6. Layout = [go \in GoType |-> LayoutBy(Layout, go)]
  BY <1>5 DEF Layout, LayoutBy
<1>7. \A go \in GoType : Layout[go] \in Seq(Item)
  <2> DEFINE G == {go \in GoType : Layout[go] \in Seq(Item)}
  <2>1. ASSUME NEW go \in GoType, \A y \in GoType : Depth[y] < Depth[go] => y \in G PROVE go \in G
    BY <1>6, <2>1, LayoutByTyped
  <2>2. GoType \subseteq G
    <3> HIDE DEF G
    <3> QED
      BY <1>0, <2>1, ByDepth
  <2> QED
    BY <2>2
<1> QED
  BY <1>6, <1>7

\* What the appenders take the memory of a value for, by what they take its elements for.
ElementBy(f, t, i) ==
    IF i > Len(t.parts) \/ ttypes[t.parts[i]] = Nil THEN <<"nil">>
    ELSE IF ttypes[t.parts[i]].IsPointer /\ ~Inline(t, ttypes[t.parts[i]]) THEN <<"*">> \o f[t.parts[i]]
    ELSE f[t.parts[i]]
Struct(t) == IF t.IsPointer THEN t.RT.elem ELSE t.RT
ValueBy(f, k) ==
    LET t == ttypes[k]
    IN  IF t = Nil THEN <<"nil">>
        ELSE CASE t.T \in {"bool", "i8"} -> <<"8 bits">>
               [] t.T = "i16" -> <<"16 bits">>
               [] t.T = "i32" -> <<"32 bits">>
               [] t.T \in {"enum", "i64", "double"} -> <<"64 bits">>
               [] t.T = "string" -> IF t.Tag = "binary" THEN <<"slice", "8 bits">> ELSE <<"string">>
               [] t.T \in {"list", "set"} -> <<"slice">> \o ElementBy(f, t, 1)
               [] t.T = "map" -> <<"map">> \o ElementBy(f, t, 1) \o ElementBy(f, t, 2)
               [] OTHER -> <<"struct", Struct(t).pkg, Struct(t).name>>

KeyDepth == [k \in Keys |-> TypeDepth[TypeOf(k)]]

LEMMA KeyDepthIs == KeyDepth \in [Keys -> Nat] /\ \A x \in Type : KeyDepth[Key(x)] = TypeDepth[x]
BY KeyOf, TypeDepthIs DEF KeyDepth

\* The parts of a cached entry are less deep.
LEMMA PartsLess ==
    ASSUME GoodCache(ttypes), NEW k \in Keys, ttypes[k] # Nil, NEW i \in {1, 2}, ~(i > Len(ttypes[k].parts))
    PROVE  ttypes[k].parts[i] \in Keys /\ KeyDepth[ttypes[k].parts[i]] < KeyDepth[k]
<1> DEFINE x == TypeOf(k)
<1>1. x \in Type /\ Key(x) = k
  BY KeyOf
<1> HIDE DEF x
<1>2. Cached(ttypes, x)
  BY <1>1 DEF Cached
<1>3. Len(ttypes[k].parts) = Len(Parts(x)) /\ Parts(x) \in Seq(Type)
  BY <1>1, <1>2, EntryIs, PartsIs
<1>4. i \in DOMAIN Parts(x)
  BY <1>3, LenProperties
<1>5. ttypes[k].parts[i] = Key(Parts(x)[i]) /\ Parts(x)[i] \in Type /\ TypeDepth[Parts(x)[i]] < TypeDepth[x]
  BY <1>1, <1>2, <1>4, EntryIs, PartsIs
<1> QED
  BY <1>1, <1>5, KeyDepthIs, KeyOf

LEMMA ValueByTyped ==
    ASSUME GoodCache(ttypes), NEW f, NEW k \in Keys, \A j \in Keys : KeyDepth[j] < KeyDepth[k] => f[j] \in Seq(Item)
    PROVE  ValueBy(f, k) \in Seq(Item)
<1> DEFINE t == ttypes[k]
<1>1. CASE t = Nil
  BY <1>1, ItemHas, Items DEF ValueBy
<1>2. CASE t # Nil
  <2>1. PICK x \in Type : Key(x) = k
    BY KeyOf
  <2>2. Cached(ttypes, x)
    BY <1>2, <2>1 DEF Cached
  <2>3. t.RT = x.S /\ (t.IsPointer <=> x.T = "pointer")
    BY <2>1, <2>2, EntryIs
  <2>4. Struct(t) \in GoType
    <3>1. x.T = "pointer" => x.S.elem \in GoType
      BY TypeIs, ReadingIs DEF IsPointerTo, IsBinary, IsListOrSet, IsMap, IsScalar, ScalarT
    <3>2. x.S \in GoType
      BY TypeIs
    <3> HIDE DEF t
    <3> QED
      BY <2>3, <3>1, <3>2 DEF Struct
  <2>5. ASSUME NEW i \in {1, 2} PROVE ElementBy(f, t, i) \in Seq(Item)
    <3>1. ~(i > Len(t.parts)) => f[t.parts[i]] \in Seq(Item)
      BY <1>2, PartsLess
    <3>2. <<"nil">> \in Seq(Item) /\ <<"*">> \in Seq(Item)
      BY ItemHas, Items
    <3>3. ~(i > Len(t.parts)) => <<"*">> \o f[t.parts[i]] \in Seq(Item)
      BY <3>1, <3>2, Items
    <3> HIDE DEF t
    <3> QED
      BY <3>1, <3>2, <3>3 DEF ElementBy
  <2>6. <<"slice">> \o ElementBy(f, t, 1) \in Seq(Item)
    BY <2>5, ItemHas, Items
  <2>7. <<"map">> \o ElementBy(f, t, 1) \o ElementBy(f, t, 2) \in Seq(Item)
    <3>1. <<"map">> \o ElementBy(f, t, 1) \in Seq(Item)
      BY <2>5, ItemHas, Items
    <3> QED
      BY <2>5, <3>1, Items
  <2>8. /\ <<"8 bits">> \in Seq(Item) /\ <<"16 bits">> \in Seq(Item) /\ <<"32 bits">> \in Seq(Item)
        /\ <<"64 bits">> \in Seq(Item) /\ <<"slice", "8 bits">> \in Seq(Item) /\ <<"string">> \in Seq(Item)
        /\ <<"struct", Struct(t).pkg, Struct(t).name>> \in Seq(Item)
    BY <2>4, ItemHas, Items
  <2>9. ValueBy(f, k) \in {<<"8 bits">>, <<"16 bits">>, <<"32 bits">>, <<"64 bits">>, <<"slice", "8 bits">>, <<"string">>,
                           <<"slice">> \o ElementBy(f, t, 1), <<"map">> \o ElementBy(f, t, 1) \o ElementBy(f, t, 2),
                           <<"struct", Struct(t).pkg, Struct(t).name>>}
    BY <1>2 DEF ValueBy
  <2> HIDE DEF t
  <2> QED
    BY <2>6, <2>7, <2>8, <2>9
<1> QED
  BY <1>1, <1>2

LEMMA ValueByLocal ==
    ASSUME GoodCache(ttypes), NEW f, NEW g, NEW k \in Keys, Agree(Keys, KeyDepth, k, f, g)
    PROVE  ValueBy(f, k) = ValueBy(g, k)
<1>1. CASE ttypes[k] = Nil
  BY <1>1 DEF ValueBy
<1>2. CASE ttypes[k] # Nil
  <2>1. ASSUME NEW i \in {1, 2} PROVE ElementBy(f, ttypes[k], i) = ElementBy(g, ttypes[k], i)
    <3>1. ~(i > Len(ttypes[k].parts)) => f[ttypes[k].parts[i]] = g[ttypes[k].parts[i]]
      BY <1>2, PartsLess DEF Agree
    <3> QED
      BY <3>1 DEF ElementBy
  <2> QED
    BY <2>1 DEF ValueBy
<1> QED
  BY <1>1, <1>2

LEMMA ValueUnfold ==
    ASSUME GoodCache(ttypes)
    PROVE  \A k \in Keys : Value[k] = ValueBy(Value, k)
<1> DEFINE W == [k \in Keys |-> Seq(Item)]
           step == [f \in Product(Keys, W) |-> [k \in Keys |-> ValueBy(f, k)]]
<1>1. \A k \in Keys : W[k] # {}
  <2>1. <<>> \in Seq(Item)
    OBVIOUS
  <2> QED
    BY <2>1
<1>2. step \in [Product(Keys, W) -> Product(Keys, W)]
  BY ValueByTyped DEF Product
<1>3. Local(Keys, W, KeyDepth, step)
  BY ValueByLocal DEF Local
<1>4. PICK F \in Product(Keys, W) : F = step[F]
  <2> HIDE DEF W, step
  <2> QED
    BY <1>1, <1>2, <1>3, KeyDepthIs, Recursion
<1>5. F = [k \in Keys |-> ValueBy(F, k)]
  BY <1>4
<1>6. Value = [k \in Keys |-> ValueBy(Value, k)]
  BY <1>5 DEF Value, ValueBy, ElementBy, Struct
<1> QED
  BY <1>6

\* Layouts and values, kind by kind.
LEMMA LayoutByIs ==
    ASSUME NEW f, NEW go
    PROVE  /\ go.kind = "ptr" => LayoutBy(f, go) = <<"*">> \o f[go.elem]
           /\ go.kind = "slice" => LayoutBy(f, go) = <<"slice">> \o f[go.elem]
           /\ go.kind = "map" => LayoutBy(f, go) = <<"map">> \o f[go.key] \o f[go.elem]
           /\ go.kind \in {"bool", "int8", "uint8"} => LayoutBy(f, go) = <<"8 bits">>
           /\ go.kind = "int16" => LayoutBy(f, go) = <<"16 bits">>
           /\ go.kind = "int32" => LayoutBy(f, go) = <<"32 bits">>
           /\ go.kind \in {"int", "int64", "float64"} => LayoutBy(f, go) = <<"64 bits">>
           /\ go.kind = "struct" => LayoutBy(f, go) = <<"struct", go.pkg, go.name>>
           /\ go.kind = "string" => LayoutBy(f, go) = <<"string">>
<1>1. go.kind = "ptr" => LayoutBy(f, go) = <<"*">> \o f[go.elem]
  BY DEF LayoutBy
<1>2. go.kind = "slice" => LayoutBy(f, go) = <<"slice">> \o f[go.elem]
  BY DEF LayoutBy
<1>3. go.kind = "map" => LayoutBy(f, go) = <<"map">> \o f[go.key] \o f[go.elem]
  BY DEF LayoutBy
<1>4. go.kind \in {"bool", "int8", "uint8"} => LayoutBy(f, go) = <<"8 bits">>
  BY DEF LayoutBy
<1>5. go.kind = "int16" => LayoutBy(f, go) = <<"16 bits">>
  BY DEF LayoutBy
<1>6. go.kind = "int32" => LayoutBy(f, go) = <<"32 bits">>
  BY DEF LayoutBy
<1>7. go.kind \in {"int", "int64", "float64"} => LayoutBy(f, go) = <<"64 bits">>
  BY DEF LayoutBy
<1>8. go.kind = "struct" => LayoutBy(f, go) = <<"struct", go.pkg, go.name>>
  BY DEF LayoutBy
<1>9. go.kind = "string" => LayoutBy(f, go) = <<"string">>
  BY DEF LayoutBy
<1> QED
  BY <1>1, <1>2, <1>3, <1>4, <1>5, <1>6, <1>7, <1>8, <1>9

LEMMA LayoutIs ==
    ASSUME NEW go \in GoType
    PROVE  Layout[go] = LayoutBy(Layout, go)
BY LayoutUnfold

LEMMA ValueByIs ==
    ASSUME NEW f, NEW k, ttypes[k] # Nil
    PROVE  LET t == ttypes[k]
           IN  /\ t.T \in {"bool", "i8"} => ValueBy(f, k) = <<"8 bits">>
               /\ t.T = "i16" => ValueBy(f, k) = <<"16 bits">>
               /\ t.T = "i32" => ValueBy(f, k) = <<"32 bits">>
               /\ t.T \in {"enum", "i64", "double"} => ValueBy(f, k) = <<"64 bits">>
               /\ t.T = "string" => ValueBy(f, k) = IF t.Tag = "binary" THEN <<"slice", "8 bits">> ELSE <<"string">>
               /\ t.T \in {"list", "set"} => ValueBy(f, k) = <<"slice">> \o ElementBy(f, t, 1)
               /\ t.T = "map" => ValueBy(f, k) = <<"map">> \o ElementBy(f, t, 1) \o ElementBy(f, t, 2)
               /\ t.T = "struct" => ValueBy(f, k) = <<"struct", Struct(t).pkg, Struct(t).name>>
<1> DEFINE t == ttypes[k]
<1>1. t.T \in {"bool", "i8"} => ValueBy(f, k) = <<"8 bits">>
  BY DEF ValueBy
<1>2. t.T = "i16" => ValueBy(f, k) = <<"16 bits">>
  BY DEF ValueBy
<1>3. t.T = "i32" => ValueBy(f, k) = <<"32 bits">>
  BY DEF ValueBy
<1>4. t.T \in {"enum", "i64", "double"} => ValueBy(f, k) = <<"64 bits">>
  BY DEF ValueBy
<1>5. t.T = "string" => ValueBy(f, k) = IF t.Tag = "binary" THEN <<"slice", "8 bits">> ELSE <<"string">>
  BY DEF ValueBy
<1>6. t.T \in {"list", "set"} => ValueBy(f, k) = <<"slice">> \o ElementBy(f, t, 1)
  BY DEF ValueBy
<1>7. t.T = "map" => ValueBy(f, k) = <<"map">> \o ElementBy(f, t, 1) \o ElementBy(f, t, 2)
  BY DEF ValueBy
<1>8. t.T = "struct" => ValueBy(f, k) = <<"struct", Struct(t).pkg, Struct(t).name>>
  BY DEF ValueBy
<1> QED
  BY <1>1, <1>2, <1>3, <1>4, <1>5, <1>6, <1>7, <1>8

\* What a pointer points to, of a type that is no pointer to a container.
LEMMA PointeeScalar ==
    ASSUME NEW x \in Type, x.T = "pointer", ~PointsToContainer(x.S)
    PROVE  /\ x.S.kind = "ptr" /\ Pointee(x) = x.V /\ x.V.S = x.S.elem /\ x.S.elem \in GoType
           /\ IsScalar(x.V, x.V.S)
<1>1. IsPointerTo(x, x.S) /\ x.S \in GoType
  BY TypeIs, ReadingIs DEF IsPointerTo, IsBinary, IsListOrSet, IsMap, IsScalar, ScalarT
<1>2. x.V \in Readings[x.S.elem] /\ x.S.elem \in GoType /\ x.S.kind = "ptr" /\ x.S.elem.kind # "ptr"
  BY <1>1 DEF IsPointerTo
<1>3. x.S.elem.kind \notin {"slice", "map"}
  BY <1>2 DEF PointsToContainer
<1>4. x.V.S = x.S.elem /\ IsScalar(x.V, x.V.S)
  BY <1>2, <1>3, ReadingIs DEF IsPointerTo, IsBinary, IsListOrSet, IsMap
<1> QED
  BY <1>2, <1>4 DEF Pointee

\* A type is a pointer exactly if its Go type is.
LEMMA PointerKind ==
    ASSUME NEW x \in Type
    PROVE  x.T = "pointer" <=> x.S.kind = "ptr"
BY TypeIs, ReadingIs DEF IsPointerTo, IsBinary, IsListOrSet, IsMap, IsScalar, ScalarT, KindTag

\* An element or a key that is a pointer points to a struct.
LEMMA PartPointsToStruct ==
    ASSUME NEW x \in Type, x.T \in {"map", "set", "list"}, NEW i \in DOMAIN Parts(x), Parts(x)[i].T = "pointer"
    PROVE  Parts(x)[i].V.T = "struct"
<1>1. IsListOrSet(x, x.S) \/ IsMap(x, x.S)
  BY TypeIs, ReadingIs DEF IsPointerTo, IsBinary, IsListOrSet, IsMap, IsScalar, ScalarT
<1>2. Parts(x)[i] = x.V \/ (x.T = "map" /\ Parts(x)[i] = x.K)
  BY PartsIs
<1>3. IsValueType(x.V) /\ (x.T = "map" => IsKeyType(x.K))
  BY <1>1 DEF IsListOrSet, IsMap
<1> QED
  BY <1>2, <1>3 DEF IsValueType, IsKeyType, PointsTo

\* How an element is read, if what it refers to is read as it is laid out.
LEMMA ElementAsLaidOut ==
    ASSUME GoodCache(ttypes), NEW x \in Type, Cached(ttypes, x), x.T \in {"map", "set", "list"},
           NEW i \in DOMAIN Parts(x), NEW f,
           ~PointsToContainer(Parts(x)[i].S) => f[Key(Parts(x)[i])] = Layout[Pointee(Parts(x)[i]).S]
    PROVE  ElementBy(f, ttypes[Key(x)], i) = Layout[Parts(x)[i].S]
<1> DEFINE t == ttypes[Key(x)]
           y == Parts(x)[i]
           e == ttypes[Key(y)]
<1>1. y \in Type /\ Cached(ttypes, y) /\ t.parts[i] = Key(y) /\ ~(i > Len(t.parts))
  <2>1. Len(t.parts) = Len(Parts(x)) /\ t.parts[i] = Key(y) /\ y \in Type /\ Cached(ttypes, y)
    BY EntryIs
  <2>2. i \in 1..Len(Parts(x)) /\ Len(Parts(x)) \in Nat
    BY PartsIs, LenProperties
  <2> QED
    BY <2>1, <2>2
<1>2. e # Nil /\ e.T = (IF IsEnum(y) THEN "enum" ELSE Tag(y)) /\ (e.IsPointer <=> y.T = "pointer")
  BY <1>1, EntryIs
<1>3. ElementBy(f, t, i) = IF e.IsPointer /\ ~Inline(t, e) THEN <<"*">> \o f[Key(y)] ELSE f[Key(y)]
  BY <1>1, <1>2 DEF ElementBy
<1>4. y.S \in GoType /\ (y.T = "pointer" => y.V.T = "struct")
  BY <1>1, TypeIs, PartPointsToStruct
<1> HIDE DEF t, e, y
<1>5. CASE y.T = "pointer"
  <2>1. Pointee(y) = y.V /\ y.V.T = "struct"
    BY <1>4, <1>5 DEF Pointee
  <2>2. e.T = "struct"
    BY <1>2, <2>1 DEF IsEnum, Tag
  <2>3. ~Inline(t, e)
    BY <2>2 DEF Inline, typeToSize
  <2>4. ~PointsToContainer(y.S)
    <3>1. IsPointerTo(y, y.S)
      BY <1>1, <1>5, TypeIs, ReadingIs DEF IsPointerTo, IsBinary, IsListOrSet, IsMap, IsScalar, ScalarT
    <3>2. y.V \in Readings[y.S.elem] /\ y.S.elem \in GoType
      BY <3>1 DEF IsPointerTo
    <3>3. IsScalar(y.V, y.S.elem)
      BY <2>1, <3>2, ReadingIs DEF IsPointerTo, IsBinary, IsListOrSet, IsMap
    <3> QED
      BY <3>3 DEF IsScalar, KindTag, PointsToContainer
  <2>5. y.S.kind = "ptr" /\ y.V.S = y.S.elem
    BY <1>1, <1>5, <2>4, PointeeScalar
  <2>6. Layout[y.S] = <<"*">> \o Layout[y.S.elem]
    BY <1>4, <2>5, LayoutIs, LayoutByIs
  <2>7. f[Key(y)] = Layout[y.V.S]
    BY <2>1, <2>4 DEF y
  <2> QED
    BY <1>2, <1>3, <1>5, <2>3, <2>5, <2>6, <2>7 DEF t, y
<1>6. CASE y.T # "pointer"
  <2>1. Pointee(y) = y /\ ~PointsToContainer(y.S)
    BY <1>1, <1>6, PointerKind DEF Pointee, PointsToContainer
  <2>2. f[Key(y)] = Layout[y.S]
    BY <2>1 DEF y
  <2> QED
    BY <1>2, <1>3, <1>6, <2>2 DEF t, y
<1> QED
  BY <1>5, <1>6

\* A value that is no container is read as it is laid out.
LEMMA ScalarAsLaidOut ==
    ASSUME GoodCache(ttypes), NEW x \in Type, Cached(ttypes, x), NEW f,
           IsScalar(Pointee(x), Pointee(x).S), Pointee(x).S = (IF x.T = "pointer" THEN x.S.elem ELSE x.S),
           Pointee(x).S \in GoType, x.T = "pointer" \/ Pointee(x) = x
    PROVE  ValueBy(f, Key(x)) = Layout[Pointee(x).S]
<1> DEFINE t == ttypes[Key(x)]
           p == Pointee(x)
           g == p.S
<1>1. /\ t # Nil /\ t.T = (IF IsEnum(x) THEN "enum" ELSE Tag(x)) /\ t.Tag = x.T /\ t.RT = x.S
      /\ (t.IsPointer <=> x.T = "pointer")
  BY EntryIs
<1>2. p.T \in ScalarTags(g) /\ p.T \in ScalarT /\ g.kind \in DOMAIN KindTag \ {"map"}
  BY DEF IsScalar
<1>3. t.T = p.T
  BY <1>1, <1>2 DEF IsEnum, Tag, ScalarT
<1>4. Layout[g] = LayoutBy(Layout, g)
  BY LayoutUnfold
<1>5. t.Tag # "binary"
  BY <1>1, <1>2 DEF ScalarT
<1>6. Struct(t) = g
  BY <1>1 DEF Struct
<1> HIDE DEF t, p
<1>8. CASE p.T \in {"bool", "i8"}
  <2>1. g.kind \in {"bool", "int8"}
    BY <1>2, <1>8 DEF ScalarTags, KindTag
  <2> QED
    BY <1>1, <1>3, <1>4, <1>8, <2>1, LayoutByIs, ValueByIs, ZenonT(60) DEF p, t
<1>9. CASE p.T = "i16"
  <2>1. g.kind = "int16"
    BY <1>2, <1>9 DEF ScalarTags, KindTag
  <2> QED
    BY <1>1, <1>3, <1>4, <1>9, <2>1, LayoutByIs, ValueByIs, ZenonT(60) DEF p, t
<1>10. CASE p.T = "i32"
  <2>1. g.kind = "int32"
    BY <1>2, <1>10 DEF ScalarTags, KindTag
  <2> QED
    BY <1>1, <1>3, <1>4, <1>10, <2>1, LayoutByIs, ValueByIs, ZenonT(60) DEF p, t
<1>11. CASE p.T \in {"i64", "enum", "double"}
  <2>1. g.kind \in {"int", "int64", "float64"}
    BY <1>2, <1>11 DEF ScalarTags, KindTag
  <2> QED
    BY <1>1, <1>3, <1>4, <1>11, <2>1, LayoutByIs, ValueByIs, ZenonT(60) DEF p, t
<1>12. CASE p.T = "string"
  <2>1. g.kind = "string"
    BY <1>2, <1>12 DEF ScalarTags, KindTag
  <2> QED
    BY <1>1, <1>3, <1>4, <1>5, <1>12, <2>1, LayoutByIs, ValueByIs, ZenonT(60) DEF p, t
<1>13. CASE p.T = "struct"
  <2>1. g.kind = "struct"
    BY <1>2, <1>13 DEF ScalarTags, KindTag
  <2> QED
    BY <1>1, <1>3, <1>4, <1>6, <1>13, <2>1, LayoutByIs, ValueByIs, ZenonT(60) DEF p, t
<1> QED
  BY <1>2, <1>8, <1>9, <1>10, <1>11, <1>12, <1>13 DEF ScalarT

\* A value of a cached type is read as it is laid out, if those of smaller types are.
LEMMA ValueAsLaidOut ==
    ASSUME GoodCache(ttypes), NEW x \in Type, Cached(ttypes, x), ~PointsToContainer(x.S), NEW f,
           \A y \in Type : TypeDepth[y] < TypeDepth[x] /\ Cached(ttypes, y) /\ ~PointsToContainer(y.S) =>
                f[Key(y)] = Layout[Pointee(y).S]
    PROVE  ValueBy(f, Key(x)) = Layout[Pointee(x).S]
<1> DEFINE t == ttypes[Key(x)]
           go == x.S
<1>1. x \in Readings[go] /\ go \in GoType
  BY TypeIs
<1>2. CASE x.T = "pointer"
  BY <1>2, PointeeScalar, ScalarAsLaidOut
<1>3. ASSUME x.T # "pointer" PROVE Pointee(x) = x
  BY <1>3 DEF Pointee
<1>4. CASE IsScalar(x, go)
  BY <1>1, <1>2, <1>3, <1>4, ScalarAsLaidOut
<1>5. t # Nil /\ t.T = (IF IsEnum(x) THEN "enum" ELSE Tag(x)) /\ t.Tag = x.T
  BY EntryIs
<1>6. Layout[go] = LayoutBy(Layout, go)
  BY <1>1, LayoutUnfold
<1>7. CASE IsBinary(x, go)
  <2>1. go.kind = "slice" /\ go.elem = Byte /\ Byte \in GoType /\ x.T = "binary"
    BY <1>1, <1>7, GoTypeAssumption DEF IsBinary
  <2>2. t.T = "string" /\ t.Tag = "binary"
    BY <1>3, <1>5, <2>1 DEF IsEnum, Tag
  <2>3. ValueBy(f, Key(x)) = <<"slice", "8 bits">>
    BY <1>5, <2>2, ValueByIs
  <2>4. Layout[Byte] = <<"8 bits">>
    BY <2>1, LayoutIs, LayoutByIs DEF Byte
  <2>5. Layout[go] = <<"slice">> \o <<"8 bits">>
    BY <1>6, <2>1, <2>4, LayoutByIs
  <2> QED
    BY <1>3, <2>1, <2>3, <2>5, Two DEF Cat, One
<1>8. ASSUME x.T \in {"map", "set", "list"}, NEW i \in DOMAIN Parts(x)
      PROVE  ElementBy(f, t, i) = Layout[Parts(x)[i].S]
  <2>1. Parts(x)[i] \in Type /\ Cached(ttypes, Parts(x)[i]) /\ TypeDepth[Parts(x)[i]] < TypeDepth[x]
    BY <1>8, EntryIs, PartsIs
  <2> QED
    BY <1>8, <2>1, ElementAsLaidOut
<1> HIDE DEF t
<1>9. CASE IsListOrSet(x, go)
  <2>1. go.kind = "slice" /\ go.elem \in GoType /\ x.T \in {"set", "list"} /\ x.V.S = go.elem
    BY <1>9, ReadingIs DEF IsListOrSet
  <2>2. t.T \in {"set", "list"}
    BY <1>3, <1>5, <2>1 DEF IsEnum, Tag
  <2>3. ElementBy(f, t, 1) = Layout[go.elem]
    BY <1>8, <2>1, PartsIs
  <2>4. ValueBy(f, Key(x)) = <<"slice">> \o ElementBy(f, t, 1)
    BY <1>5, <2>2, ValueByIs DEF t
  <2>5. Layout[go] = <<"slice">> \o Layout[go.elem]
    BY <1>6, <2>1, LayoutByIs
  <2> QED
    BY <1>3, <2>1, <2>3, <2>4, <2>5
<1>10. CASE IsMap(x, go)
  <2>1. go.kind = "map" /\ x.T = "map" /\ x.V.S = go.elem /\ x.K.S = go.key
    BY <1>10, ReadingIs DEF IsMap
  <2>2. t.T = "map"
    BY <1>3, <1>5, <2>1 DEF IsEnum, Tag
  <2>3. ElementBy(f, t, 1) = Layout[go.key] /\ ElementBy(f, t, 2) = Layout[go.elem]
    BY <1>8, <2>1, PartsIs
  <2>4. ValueBy(f, Key(x)) = <<"map">> \o ElementBy(f, t, 1) \o ElementBy(f, t, 2)
    BY <1>5, <2>2, ValueByIs DEF t
  <2>5. Layout[go] = <<"map">> \o Layout[go.key] \o Layout[go.elem]
    BY <1>6, <2>1, LayoutByIs
  <2> QED
    BY <1>3, <2>1, <2>3, <2>4, <2>5
<1>11. CASE IsPointerTo(x, go)
  BY <1>2, <1>11 DEF IsPointerTo
<1> QED
  BY <1>1, <1>4, <1>7, <1>9, <1>10, <1>11, ReadingIs

LEMMA ValueIs ==
    ASSUME GoodCache(ttypes)
    PROVE  \A x \in Type : Cached(ttypes, x) /\ ~PointsToContainer(x.S) => Value[Key(x)] = Layout[Pointee(x).S]
<1> DEFINE G == {x \in Type : Cached(ttypes, x) /\ ~PointsToContainer(x.S) => Value[Key(x)] = Layout[Pointee(x).S]}
<1>1. ASSUME NEW x \in Type, \A y \in Type : TypeDepth[y] < TypeDepth[x] => y \in G PROVE x \in G
  <2> SUFFICES ASSUME Cached(ttypes, x), ~PointsToContainer(x.S) PROVE Value[Key(x)] = Layout[Pointee(x).S]
    OBVIOUS
  <2>1. ValueBy(Value, Key(x)) = Layout[Pointee(x).S]
    BY <1>1, ValueAsLaidOut
  <2> QED
    BY <2>1, KeyOf, ValueUnfold
<1>2. Type \subseteq G
  <2> HIDE DEF G
  <2> QED
    BY <1>1, TypeDepthIs, ByDepth
<1> QED
  BY <1>2

\* The encoder and the decoder take the memory of a field for what its Go type makes
\* it, at every depth: ReadAsLaidOut, for all declarations and Go types.
THEOREM ReadsAsLaidOut == SpecD => []ReadAsLaidOut
<1>1. DInv => ReadAsLaidOut
  <2> SUFFICES ASSUME DInv, outcome = "ok", NEW f \in ToSet(desc.fields), ~PointsToContainer(Decl[f.F].go)
               PROVE  Access(f.Type) = Layout[Decl[f.F].go]
    BY DEF ReadAsLaidOut
  <2>1. PICK i \in DOMAIN desc.fields : f = desc.fields[i]
    BY DEF ToSet
  <2> DEFINE x == resolved.ff[i].Type
  <2>2. /\ x \in Type /\ Cached(ttypes, x) /\ f.Type = Key(x)
        /\ resolved.ff[i] \in FieldOf /\ f.F = resolved.ff[i].F
    BY <2>1, FieldsAre
  <2>3. GoodCache(ttypes)
    BY DEF DInv
  <2>4. Decl[f.F].go \in GoType /\ x.S = Decl[f.F].go
    BY <2>2, DeclAssumption, ReadingIs DEF FieldOf
  <2> HIDE DEF x
  <2>5. Value[Key(x)] = Layout[Pointee(x).S]
    BY <2>2, <2>3, <2>4, ValueIs
  <2>6. ttypes[Key(x)].IsPointer <=> x.T = "pointer"
    BY <2>2, <2>3, EntryIs
  <2>7. CASE x.T = "pointer"
    <3>1. x.S.kind = "ptr" /\ Pointee(x) = x.V /\ x.V.S = x.S.elem
      BY <2>2, <2>4, <2>7, PointeeScalar
    <3>2. Layout[x.S] = <<"*">> \o Layout[x.S.elem]
      BY <2>4, <3>1, LayoutIs, LayoutByIs, ZenonT(60)
    <3> QED
      BY <2>2, <2>4, <2>5, <2>6, <2>7, <3>1, <3>2 DEF Access
  <2>8. CASE x.T # "pointer"
    BY <2>2, <2>4, <2>5, <2>6, <2>8 DEF Access, Pointee
  <2> QED
    BY <2>7, <2>8
<1> QED
  BY <1>1, CacheStaysGood, PTL

-----------------------------------------------------------------------------
(***************************************************************************)
(* The tables of ids: GetField finds what it is to find, and no two ids    *)
(* share a bit                                                             *)
(***************************************************************************)
\* A table that was built has an entry for each id up to the largest, and GetField
\* looks no further.
Table ==
    /\ pc \in {"new", "built", "panic"}
    /\ ids \subseteq Uint16
    /\ pc # "built" => fid = -1 /\ got = -1
    /\ pc = "built" =>
          /\ maxID \in Nat
          /\ \A id \in ids : id <= maxID
          /\ fieldIdx = [x \in 0..maxID |-> IF x \in ids THEN Index(ids, x) ELSE -1]

IInv == Table /\ FoundById

\* The words of a bitset, and what they hold.
Bits ==
    /\ DOMAIN data = Word
    /\ marked \subseteq Uint16
    /\ BitsAreIds

-----------------------------------------------------------------------------
\* A non-empty set of ids has a largest, and Max is it.
LEMMA Largest ==
    ASSUME NEW S \in SUBSET Uint16, S # {}
    PROVE  Max(S) \in S /\ \A y \in S : Max(S) >= y
<1> DEFINE T == {n \in Nat : IdCount - n \in S}
<1>1. PICK s \in S : TRUE OBVIOUS
<1>2. IdCount - s \in T BY <1>1, IdCountAssumption, SMT DEF Uint16
<1>3. PICK n \in T : \A m \in T : ~ (<<m, n>> \in OpToRel(<, Nat))
    BY <1>2, NatLessThanWellFounded, WFMin, Zenon
<1>4. ASSUME NEW m \in T PROVE n <= m
    <2>1. ~ (m < n) BY <1>3, <1>4 DEF OpToRel
    <2> QED BY <2>1, SMT
<1>5. \A y \in S : IdCount - n >= y
    <2> SUFFICES ASSUME NEW y \in S PROVE IdCount - n >= y OBVIOUS
    <2>1. IdCount - y \in T BY IdCountAssumption, SMT DEF Uint16
    <2>2. n <= IdCount - y BY <1>4, <2>1
    <2> QED BY <2>2, IdCountAssumption, SMT DEF Uint16
<1>6. IdCount - n \in S OBVIOUS
<1> QED BY <1>5, <1>6, Zenon DEF Max

\* fromDefsFields, if it does not panic, leaves an entry for each id up to maxID.
LEMMA BuildTable ==
    ASSUME IInv, NEW S \in SUBSET Uint16, Build(S)
    PROVE  IInv'
<1> DEFINE max == IF S = {} THEN 0 ELSE Max(S)
           n == TableLen(max)
<1>1. S \subseteq Uint16 OBVIOUS
<1>2. max \in Uint16 /\ \A id \in S : id <= max
    <2>1. CASE S = {} BY <2>1, IdCountAssumption, SMT DEF Uint16
    <2>2. CASE S # {}
        <3>1. max \in S /\ \A y \in S : max >= y BY <2>2, <1>1, Largest, Zenon
        <3>2. \A a, c \in Uint16 : a >= c => c <= a BY IdCountAssumption, SMT DEF Uint16
        <3> QED BY <3>1, <3>2, <1>1, Zenon
    <2> QED BY <2>1, <2>2
<1>3. /\ pc = "new" /\ fid' = fid /\ got' = got /\ ids' = S /\ maxID' = max
      /\ pc' = IF \A id \in S : id < n THEN "built" ELSE "panic"
      /\ fieldIdx' = [x \in 0..(n - 1) |-> IF x \in S THEN Index(S, x) ELSE -1]
    BY DEF Build
<1>4. fid' = -1 /\ got' = -1 /\ -1 \notin S
    BY <1>1, <1>3, IdCountAssumption, SMT DEF IInv, Table, Uint16
<1>5. CASE \A id \in S : id < n
    <2>1. n = max + 1
        <3>1. CASE max + 1 < IdCount
            BY <3>1, <1>2, IdCountAssumption, SMT DEF TableLen, Uint16
        <3>2. CASE max + 1 = IdCount
            <4>1. n = 0 BY <3>2, IdCountAssumption, SMT DEF TableLen
            <4>2. S = {} BY <1>1, <1>5, <4>1, IdCountAssumption, SMT DEF Uint16
            <4> QED BY <4>2, <3>2, IdCountAssumption, SMT
        <3> QED BY <3>1, <3>2, <1>2, IdCountAssumption, SMT DEF Uint16
    <2>2. n - 1 = max BY <2>1, <1>2, IdCountAssumption, SMT DEF Uint16
    <2>3. fieldIdx' = [x \in 0..max |-> IF x \in S THEN Index(S, x) ELSE -1] BY <1>3, <2>2
    <2>4. max \in Nat BY <1>2, IdCountAssumption, SMT DEF Uint16
    <2>5. pc' = "built" BY <1>3, <1>5
    <2>6. Table' BY <1>1, <1>2, <1>3, <2>3, <2>4, <2>5 DEF Table
    <2> QED BY <1>3, <1>4, <2>6 DEF IInv, FoundById
<1>6. CASE ~ \A id \in S : id < n
    BY <1>1, <1>3, <1>4, <1>6 DEF IInv, Table, FoundById
<1> QED BY <1>5, <1>6

\* GetField asks for an id first whether the table has an entry for it.
LEMMA GetFieldFinds ==
    ASSUME IInv, NEW x \in Uint16, GetField(x)
    PROVE  IInv'
<1>1. /\ pc = "built" /\ UNCHANGED <<pc, ids, maxID, fieldIdx>> /\ fid' = x
      /\ got' = IF Outside(x) THEN -1 ELSE fieldIdx[x]
    BY DEF GetField
<1>2. Table' BY <1>1 DEF IInv, Table
<1>3. /\ maxID \in Nat /\ \A id \in ids : id <= maxID
      /\ fieldIdx = [y \in 0..maxID |-> IF y \in ids THEN Index(ids, y) ELSE -1]
    BY <1>1 DEF IInv, Table
<1>4. CASE x > maxID
    <2>1. x \notin ids BY <1>3, <1>4, IdCountAssumption, SMT DEF Uint16
    <2> QED BY <1>1, <1>2, <1>4, <2>1 DEF IInv, FoundById, Outside
<1>5. CASE ~ (x > maxID)
    <2>1. x \in 0..maxID BY <1>3, <1>5, IdCountAssumption, SMT DEF Uint16
    <2>2. got' = IF x \in ids THEN Index(ids, x) ELSE -1
        BY <1>1, <1>3, <1>5, <2>1 DEF Outside
    <2> QED BY <1>1, <1>2, <2>2 DEF IInv, FoundById
<1> QED BY <1>4, <1>5

\* For every message id GetField's answer is the field that has it, or none: FoundById,
\* for any ids and any width of an id.
THEOREM FindsById == Spec => []FoundById
<1>1. Init => IInv
    BY IdCountAssumption, SMT DEF Init, IInv, Table, FoundById, Uint16
<1>2. IInv /\ [Next]_vars => IInv'
    <2> SUFFICES ASSUME IInv, [Next]_vars PROVE IInv' OBVIOUS
    <2>1. ASSUME NEW S \in SUBSET Ids, Build(S) PROVE IInv'
        BY <2>1, BuildTable, IdsAssumption DEF Uint16
    <2>2. ASSUME NEW x \in Uint16, GetField(x) PROVE IInv' BY <2>2, GetFieldFinds
    <2>3. CASE UNCHANGED <<pc, ids, maxID, fieldIdx, fid, got>>
        BY <2>3 DEF IInv, Table, FoundById
    <2> QED BY <2>1, <2>2, <2>3 DEF Next, Set, Unset, vars
<1>3. IInv => FoundById BY DEF IInv
<1> QED BY <1>1, <1>2, <1>3, PTL DEF Spec

-----------------------------------------------------------------------------
\* An id is the only one with its word and its bit, and a bitset has its word.
LEMMA OneBit ==
    ASSUME NEW i \in Uint16
    PROVE  /\ WordOf(i) \in Word
           /\ \A j \in Uint16 : WordOf(i) = WordOf(j) /\ BitOf(i) = BitOf(j) => i = j
<1>1. \A j \in Uint16 : j = WordSize * WordOf(j) + BitOf(j) /\ WordOf(j) \in Nat
    BY IdCountAssumption, WordSizeAssumption, SMT DEF Uint16, WordOf, BitOf
<1>2. WordOf(i) <= (IdCount - 1) \div WordSize
    BY IdCountAssumption, WordSizeAssumption, SMT DEF Uint16, WordOf
<1>3. WordOf(i) \in Word
    BY <1>1, <1>2, IdCountAssumption, WordSizeAssumption, SMT DEF Word
<1> QED BY <1>1, <1>3

LEMMA InitBits == ASSUME Init PROVE Bits
<1>1. \A i \in Uint16 : data[WordOf(i)] = {} BY OneBit DEF Init
<1> QED BY <1>1 DEF Init, Bits, BitsAreIds, Test

\* What set and unset change of the bit of another id is nothing.
LEMMA SetBit ==
    ASSUME Bits, NEW i \in Uint16, Set(i)
    PROVE  Bits'
<1>1. ASSUME NEW j \in Uint16 PROVE Test(j)' <=> j \in marked'
    <2>1. CASE WordOf(j) = WordOf(i)
        <3>1. data'[WordOf(j)] = data[WordOf(i)] \cup {BitOf(i)}
            BY <2>1, OneBit DEF Set, Bits
        <3> QED BY <1>1, <2>1, <3>1, OneBit DEF Set, Bits, BitsAreIds, Test
    <2>2. CASE WordOf(j) # WordOf(i)
        <3>1. data'[WordOf(j)] = data[WordOf(j)]
            BY <1>1, <2>2, OneBit DEF Set, Bits
        <3>2. i # j BY <2>2
        <3> QED BY <1>1, <3>1, <3>2 DEF Set, Bits, BitsAreIds, Test
    <2> QED BY <2>1, <2>2
<1> QED BY <1>1 DEF Set, Bits, BitsAreIds

LEMMA UnsetBit ==
    ASSUME Bits, NEW i \in Uint16, Unset(i)
    PROVE  Bits'
<1>1. ASSUME NEW j \in Uint16 PROVE Test(j)' <=> j \in marked'
    <2>1. CASE WordOf(j) = WordOf(i)
        <3>1. data'[WordOf(j)] = data[WordOf(i)] \ {BitOf(i)}
            BY <2>1, OneBit DEF Unset, Bits
        <3> QED BY <1>1, <2>1, <3>1, OneBit DEF Unset, Bits, BitsAreIds, Test
    <2>2. CASE WordOf(j) # WordOf(i)
        <3>1. data'[WordOf(j)] = data[WordOf(j)]
            BY <1>1, <2>2, OneBit DEF Unset, Bits
        <3>2. i # j BY <2>2
        <3> QED BY <1>1, <3>1, <3>2 DEF Unset, Bits, BitsAreIds, Test
    <2> QED BY <2>1, <2>2
<1> QED BY <1>1 DEF Unset, Bits, BitsAreIds

LEMMA SameBits ==
    ASSUME Bits, UNCHANGED <<data, marked>>
    PROVE  Bits'
BY DEF Bits, BitsAreIds, Test

\* A bitset tells the ids that were set from all others: BitsAreIds, for any width of
\* an id and of a word.
THEOREM TellsIds == Spec => []BitsAreIds
<1>1. Bits /\ [Next]_vars => Bits'
    <2> SUFFICES ASSUME Bits, [Next]_vars PROVE Bits' OBVIOUS
    <2>1. \A i \in Ids : i \in Uint16 BY IdsAssumption DEF Uint16
    <2>2. ASSUME NEW i \in Ids, Set(i) \/ Unset(i) PROVE Bits' BY <2>1, <2>2, SetBit, UnsetBit
    <2>3. CASE UNCHANGED <<data, marked>> BY <2>3, SameBits
    <2> QED BY <2>2, <2>3 DEF Next, Build, GetField, vars
<1>2. Bits => BitsAreIds BY DEF Bits
<1> QED BY InitBits, <1>1, <1>2, PTL DEF Spec

-----------------------------------------------------------------------------
(***************************************************************************)
(* The tables of a descriptor                                              *)
(***************************************************************************)
\* A field is where its id comes among those of the descriptor's fields.
LEMMA IndexIs ==
    ASSUME NEW ff \in SortedFields, NEW i \in DOMAIN ff
    PROVE  Index({f.ID : f \in ToSet(ff)}, ff[i].ID) = i - 1
<1> DEFINE S == {f.ID : f \in ToSet(ff)}
           below == {j \in S : j < ff[i].ID}
           nth == [k \in 1..(i - 1) |-> ff[k].ID]
<1>1. Len(ff) \in Nat /\ DOMAIN ff = 1..Len(ff) /\ \A k \in 1..Len(ff) : ff[k] \in FieldOf
    BY LenProperties, ElementOfSeq DEF SortedFields
<1>2. \A k \in 1..Len(ff) : ff[k].ID \in Int
    BY <1>1, IdCountAssumption DEF FieldOf, Uint16
<1>3. S = {ff[k].ID : k \in 1..Len(ff)}
    BY <1>1 DEF ToSet
<1>4. \A k, l \in 1..Len(ff) : k < l => ff[k].ID < ff[l].ID
    BY <1>1 DEF SortedFields
<1>5. i \in 1..Len(ff) /\ i - 1 \in Nat /\ i \in Int /\ 1..(i - 1) \subseteq 1..Len(ff)
    BY <1>1
<1> HIDE DEF S
<1>6. ASSUME NEW j \in below PROVE \E k \in 1..(i - 1) : nth[k] = j
    <2>1. PICK k \in 1..Len(ff) : ff[k].ID = j
        BY <1>3, <1>6
    <2>2. k < i
        <3>1. ~ (i < k)
            BY <1>2, <1>4, <1>5, <1>6, <2>1
        <3>2. k # i
            BY <1>2, <1>5, <1>6, <2>1
        <3> QED BY <1>1, <1>5, <3>1, <3>2
    <2>3. k \in 1..(i - 1)
        BY <1>1, <1>5, <2>2
    <2> QED BY <2>1, <2>3
<1>7. ASSUME NEW k \in 1..(i - 1) PROVE nth[k] \in below
    <2>1. k \in 1..Len(ff) /\ k < i
        BY <1>1, <1>5
    <2> QED BY <1>3, <1>4, <1>5, <2>1
<1>8. ASSUME NEW k \in 1..(i - 1), NEW l \in 1..(i - 1), nth[k] = nth[l] PROVE k = l
    <2>1. k \in 1..Len(ff) /\ l \in 1..Len(ff) /\ ff[k].ID = ff[l].ID
        BY <1>5, <1>8
    <2>2. ~ (k < l) /\ ~ (l < k)
        BY <1>2, <1>4, <2>1
    <2> QED BY <1>1, <2>1, <2>2
<1>9. ExistsBijection(1..(i - 1), below)
    <2> DEFINE A == 1..(i - 1)
    <2>1. nth \in [A -> below]
        BY <1>7
    <2> HIDE DEF below, nth, A
    <2>2. nth \in Bijection(A, below)
        BY <1>6, <1>8, <2>1 DEF Bijection, Injection, Surjection, IsInjective, A
    <2> QED BY <2>2 DEF ExistsBijection, A
<1>10. IsFiniteSet(1..(i - 1)) /\ Cardinality(1..(i - 1)) = i - 1
    <2> DEFINE n == i - 1
    <2>1. n \in Nat /\ n \in Int /\ 1 \in Int
        BY <1>5
    <2> HIDE DEF n
    <2>2. IsFiniteSet(1..n) /\ Cardinality(1..n) = IF 1 > n THEN 0 ELSE n - 1 + 1
        BY <2>1, FS_Interval
    <2>3. Cardinality(1..n) = n
        BY <2>1, <2>2
    <2> QED BY <2>2, <2>3 DEF n
<1> HIDE DEF below
<1>11. Cardinality(below) = i - 1
    BY <1>9, <1>10, FS_Bijection
<1> QED BY <1>11 DEF Index, below, S

\* The tables are those of the descriptor.
TInv ==
    /\ DInv
    /\ IInv
    /\ Bits
    /\ pc # "new" => outcome = "ok" /\ ids = {f.ID : f \in ToSet(resolved.ff)}

LEMMA DescribeKeeps ==
    ASSUME TInv, NEW s \in Structs, newStructDesc(s), UNCHANGED vars, pc = "new"
    PROVE  TInv'
<1>1. DInv'
    BY NewStructDescKeeps DEF TInv
<1>2. IInv'
    BY DEF TInv, IInv, Table, FoundById, vars
<1>3. Bits'
    BY SameBits DEF TInv, vars
<1>4. pc' = "new"
    BY DEF vars
<1> QED BY <1>1, <1>2, <1>3, <1>4 DEF TInv

LEMMA BuildKeeps ==
    ASSUME TInv, NEW s \in Structs, newStructDesc(s), BuildTables
    PROVE  TInv'
<1> DEFINE S == {f.ID : f \in ToSet(resolved'.ff)}
<1>1. newStructDesc(s) /\ outcome' = "ok" /\ Build(S)
    BY DEF BuildTables
<1>2. DInv'
    BY <1>1, NewStructDescKeeps DEF TInv
<1>3. resolved'.ff \in SortedFields
    BY <1>1, <1>2 DEF DInv, Described
<1>4. S \in SUBSET Uint16
    <2>1. \A f \in ToSet(resolved'.ff) : f \in FieldOf
        BY <1>3, LenProperties, ElementOfSeq DEF SortedFields, ToSet
    <2> QED BY <2>1 DEF FieldOf
<1> HIDE DEF S
<1>5. IInv'
    BY <1>1, <1>4, BuildTable DEF TInv
<1>6. ids' = S /\ UNCHANGED <<data, marked>>
    BY <1>1 DEF Build
<1>7. Bits'
    BY <1>6, SameBits DEF TInv
<1> QED BY <1>1, <1>2, <1>5, <1>6, <1>7 DEF TInv, S

LEMMA UseKeeps ==
    ASSUME TInv, UNCHANGED descVars,
           \/ \E x \in Uint16 : GetField(x)
           \/ \E i \in ids : Set(i) \/ Unset(i)
           \/ UNCHANGED vars
    PROVE  TInv'
<1>1. DInv'
    BY DInvStays DEF TInv
<1>2. UNCHANGED <<pc, ids, resolved, outcome>>
    BY DEF GetField, Set, Unset, vars, descVars
<1>3. IInv'
    <2>1. ASSUME NEW x \in Uint16, GetField(x) PROVE IInv'
        BY <2>1, GetFieldFinds DEF TInv
    <2>2. CASE UNCHANGED <<pc, ids, maxID, fieldIdx, fid, got>>
        BY <2>2 DEF TInv, IInv, Table, FoundById
    <2> QED BY <2>1, <2>2 DEF Set, Unset, vars
<1>4. Bits'
    <2>1. ASSUME NEW i \in ids, Set(i) \/ Unset(i) PROVE Bits'
        <3>1. i \in Uint16 BY DEF TInv, IInv, Table
        <3> QED BY <2>1, <3>1, SetBit, UnsetBit DEF TInv
    <2>2. CASE UNCHANGED <<data, marked>>
        BY <2>2, SameBits DEF TInv
    <2> QED BY <2>1, <2>2 DEF GetField, vars
<1>5. (pc # "new" => outcome = "ok" /\ ids = {f.ID : f \in ToSet(resolved.ff)})'
    BY <1>2 DEF TInv
<1> QED BY <1>1, <1>3, <1>4, <1>5 DEF TInv

LEMMA InitTables == ASSUME InitD PROVE TInv
<1>1. DInv
    BY InitGood
<1>2. Init /\ pc = "new"
    BY DEF InitD, Init
<1>3. IInv
    BY <1>2, IdCountAssumption, SMT DEF Init, IInv, Table, FoundById, Uint16
<1> QED BY <1>1, <1>2, <1>3, InitBits DEF TInv

\* GetField answers with the field of the descriptor that has the id of a message, or
\* with none: FieldFound, for all declarations, ids and widths of an id. And the
\* bitset of its ids tells them apart.
THEOREM FindsField == SpecD => []FieldFound /\ []BitsAreIds
<1>1. TInv /\ [NextD]_<<vars, descVars>> => TInv'
    <2> SUFFICES ASSUME TInv, [NextD]_<<vars, descVars>> PROVE TInv' OBVIOUS
    <2>1. ASSUME Describe PROVE TInv' BY <2>1, DescribeKeeps, BuildKeeps DEF Describe
    <2>2. ASSUME NEW x \in Uint16, GetField(x), UNCHANGED descVars PROVE TInv' BY <2>2, UseKeeps
    <2>3. ASSUME NEW i \in ids, Set(i) \/ Unset(i), UNCHANGED descVars PROVE TInv' BY <2>3, UseKeeps
    <2>4. CASE UNCHANGED vars /\ UNCHANGED descVars BY <2>4, UseKeeps
    <2> QED BY <2>1, <2>2, <2>3, <2>4 DEF NextD
<1>2. TInv => FieldFound
    <2> SUFFICES ASSUME TInv, fid # -1 PROVE FieldFound BY DEF FieldFound
    <2> DEFINE ff == resolved.ff
    <2>1. DInv /\ outcome = "ok" /\ ids = {f.ID : f \in ToSet(ff)}
        BY DEF TInv, IInv, Table
    <2>2. got = IF fid \in ids THEN Index(ids, fid) ELSE -1
        BY DEF TInv, IInv, FoundById
    <2>3. ff \in SortedFields /\ DOMAIN desc.fields = DOMAIN ff /\ Len(ff) \in Nat /\ DOMAIN ff = 1..Len(ff)
        BY <2>1, FieldsAre, LenProperties DEF DInv, Described
    <2>4. \A i \in DOMAIN ff : desc.fields[i].ID = ff[i].ID
        BY <2>1, FieldsAre, FieldIs
    <2> HIDE DEF ff
    <2>5. CASE fid \in ids
        <3>1. PICK i \in DOMAIN ff : ff[i].ID = fid
            BY <2>1, <2>5 DEF ToSet
        <3>2. got = i - 1
            BY <2>1, <2>2, <2>3, <2>5, <3>1, IndexIs
        <3>3. got # -1 /\ got + 1 = i
            BY <2>3, <3>2
        <3> QED BY <2>3, <2>4, <3>1, <3>3 DEF FieldFound
    <2>6. CASE fid \notin ids
        <3>1. \A i \in DOMAIN ff : ff[i].ID # fid
            BY <2>1, <2>6 DEF ToSet
        <3>2. \A f \in ToSet(desc.fields) : f.ID # fid
            BY <2>3, <2>4, <3>1 DEF ToSet
        <3> QED BY <2>2, <2>6, <3>2 DEF FieldFound
    <2> QED BY <2>5, <2>6
<1>3. TInv => BitsAreIds
    BY DEF TInv, Bits
<1> QED BY InitTables, <1>1, <1>2, <1>3, PTL DEF SpecD

-----------------------------------------------------------------------------
(***************************************************************************)
(* Texts as segments of the text of a tag                                  *)
(***************************************************************************)
Seg(def, i, n) == SubSeq(def, i + 1, n)

LEMMA SegIs ==
    ASSUME NEW S, NEW def \in Seq(S), NEW i \in 0..Len(def), NEW n \in i..Len(def)
    PROVE  /\ Seg(def, i, n) \in Seq(S) /\ Len(Seg(def, i, n)) = n - i /\ n - i \in Nat /\ i \in Nat /\ n \in Nat
           /\ \A k \in 1..(n - i) : Seg(def, i, n)[k] = def[i + k]
<1>1. Len(def) \in Nat /\ i \in Nat /\ n \in Nat /\ i + 1 \in 1..(Len(def) + 1) /\ n \in (i + 1) - 1 .. Len(def)
  BY LenProperties
<1>2. /\ SubSeq(def, i + 1, n) \in Seq(S)
      /\ Len(SubSeq(def, i + 1, n)) = IF i + 1 <= n THEN n - (i + 1) + 1 ELSE 0
      /\ \A k \in 1..(n - (i + 1) + 1) : SubSeq(def, i + 1, n)[k] = def[(i + 1) + k - 1]
  BY <1>1, SubSeqProperties
<1> QED
  BY <1>1, <1>2 DEF Seg

\* A segment that is one text and then another.
Split(def, i, n, s, t) == \E m \in i..n : Seg(def, i, m) = s /\ Seg(def, m, n) = t

LEMMA SegCat ==
    ASSUME NEW S, NEW def \in Seq(S), NEW i \in 0..Len(def), NEW n \in i..Len(def), NEW s \in Seq(S), NEW t \in Seq(S)
    PROVE  Seg(def, i, n) = Cat(s, t) <=> Split(def, i, n, s, t)
<1>1. Len(def) \in Nat /\ Len(s) \in Nat /\ Len(t) \in Nat
  BY LenProperties
<1>2. s \o t \in Seq(S) /\ Len(s \o t) = Len(s) + Len(t)
      /\ \A k \in 1..(Len(s) + Len(t)) : (s \o t)[k] = IF k <= Len(s) THEN s[k] ELSE t[k - Len(s)]
  BY ConcatProperties
<1>3. /\ Seg(def, i, n) \in Seq(S) /\ Len(Seg(def, i, n)) = n - i
      /\ \A k \in 1..(n - i) : Seg(def, i, n)[k] = def[i + k]
  BY SegIs
<1>4. ASSUME NEW m \in i..n
      PROVE  /\ Seg(def, i, m) \in Seq(S) /\ Len(Seg(def, i, m)) = m - i
             /\ \A k \in 1..(m - i) : Seg(def, i, m)[k] = def[i + k]
             /\ Seg(def, m, n) \in Seq(S) /\ Len(Seg(def, m, n)) = n - m
             /\ \A k \in 1..(n - m) : Seg(def, m, n)[k] = def[m + k]
  <2>1. m \in i..Len(def) /\ m \in 0..Len(def) /\ n \in m..Len(def)
    BY <1>1
  <2> QED
    BY <2>1, SegIs
<1>5. ASSUME Seg(def, i, n) = s \o t
      PROVE  \E m \in i..n : Seg(def, i, m) = s /\ Seg(def, m, n) = t
  <2> DEFINE m == i + Len(s)
  <2>1. n - i = Len(s) + Len(t)
    BY <1>2, <1>3, <1>5
  <2>2. m \in i..n /\ m - i = Len(s) /\ n - m = Len(t)
    BY <1>1, <2>1
  <2>3. \A k \in 1..Len(s) : Seg(def, i, m)[k] = s[k]
    <3> TAKE k \in 1..Len(s)
    <3>1. k \in 1..(Len(s) + Len(t)) /\ k \in 1..(n - i) /\ k <= Len(s)
      BY <1>1, <2>1
    <3> QED
      BY <1>2, <1>3, <1>4, <1>5, <2>2, <3>1
  <2>4. \A k \in 1..Len(t) : Seg(def, m, n)[k] = t[k]
    <3> TAKE k \in 1..Len(t)
    <3>1. k + Len(s) \in 1..(Len(s) + Len(t)) /\ k + Len(s) \in 1..(n - i) /\ ~(k + Len(s) <= Len(s)) /\ (k + Len(s)) - Len(s) = k
      BY <1>1, <2>1
    <3>2. (s \o t)[k + Len(s)] = t[k]
      BY <1>2, <3>1
    <3>3. i + (k + Len(s)) = m + k /\ k \in 1..(n - m)
      BY <1>1, <2>2
    <3>4. Seg(def, m, n)[k] = def[m + k]
      BY <1>4, <2>2, <3>3
    <3>5. (s \o t)[k + Len(s)] = def[i + (k + Len(s))]
      BY <1>3, <1>5, <3>1
    <3> QED
      BY <3>2, <3>3, <3>4, <3>5
  <2> HIDE DEF m
  <2>5. Seg(def, i, m) = s
    BY <1>4, <2>2, <2>3, SeqEqual
  <2>6. Seg(def, m, n) = t
    BY <1>4, <2>2, <2>4, SeqEqual
  <2> QED
    BY <2>2, <2>5, <2>6
<1>6. ASSUME NEW m \in i..n, Seg(def, i, m) = s, Seg(def, m, n) = t
      PROVE  Seg(def, i, n) = s \o t
  <2>1. Len(s) = m - i /\ Len(t) = n - m
    BY <1>4, <1>6
  <2>2. \A k \in 1..(n - i) : Seg(def, i, n)[k] = (s \o t)[k]
    <3> TAKE k \in 1..(n - i)
    <3>1. CASE k <= Len(s)
      <4>1. k \in 1..(m - i) /\ k \in 1..(Len(s) + Len(t))
        BY <1>1, <2>1, <3>1
      <4> QED
        BY <1>2, <1>3, <1>4, <1>6, <3>1, <4>1
    <3>2. CASE ~(k <= Len(s))
      <4>1. k - Len(s) \in 1..(n - m) /\ k \in 1..(Len(s) + Len(t)) /\ m + (k - Len(s)) = i + k
        BY <1>1, <2>1, <3>2
      <4>2. (s \o t)[k] = t[k - Len(s)]
        BY <1>2, <3>2, <4>1
      <4>3. t[k - Len(s)] = def[m + (k - Len(s))]
        BY <1>4, <1>6, <4>1
      <4> QED
        BY <1>3, <4>1, <4>2, <4>3
    <3> QED
      BY <3>1, <3>2
  <2>3. Len(s \o t) = n - i
    BY <1>1, <1>2, <2>1
  <2> QED
    BY <1>2, <1>3, <2>2, <2>3, SeqEqual
<1> QED
  BY <1>5, <1>6 DEF Split, Cat

LEMMA SegOne ==
    ASSUME NEW S, NEW def \in Seq(S), NEW i \in 0..Len(def), NEW n \in i..Len(def), NEW a \in S
    PROVE  Seg(def, i, n) = <<a>> <=> n = i + 1 /\ def[i + 1] = a
<1>1. /\ Seg(def, i, n) \in Seq(S) /\ Len(Seg(def, i, n)) = n - i /\ i \in Nat /\ n \in Nat
      /\ \A k \in 1..(n - i) : Seg(def, i, n)[k] = def[i + k]
  BY SegIs
<1>2. <<a>> \in Seq(S) /\ Len(<<a>>) = 1 /\ <<a>>[1] = a
  BY SingleSeq
<1>3. n = i + 1 => 1 \in 1..(n - i) /\ \A k \in 1..(n - i) : k = 1
  BY <1>1
<1>4. ASSUME n = i + 1, def[i + 1] = a PROVE Seg(def, i, n) = <<a>>
  <2>1. \A k \in 1..(n - i) : Seg(def, i, n)[k] = <<a>>[k]
    BY <1>1, <1>2, <1>3, <1>4
  <2>2. n - i = 1
    BY <1>1, <1>4
  <2> QED
    BY <1>1, <1>2, <2>1, <2>2, SeqEqual
<1>5. ASSUME Seg(def, i, n) = <<a>> PROVE n = i + 1 /\ def[i + 1] = a
  <2>1. n - i = 1
    BY <1>1, <1>2, <1>5
  <2>2. n = i + 1
    BY <1>1, <2>1
  <2>3. Seg(def, i, n)[1] = def[i + 1]
    BY <1>1, <1>3, <2>2
  <2> QED
    BY <1>2, <1>5, <2>2, <2>3
<1> QED
  BY <1>4, <1>5

\* A text and one more token.
LEMMA SegSnoc ==
    ASSUME NEW S, NEW def \in Seq(S), NEW i \in 0..Len(def), NEW n \in i..Len(def), NEW s \in Seq(S), NEW a \in S
    PROVE  Seg(def, i, n) = s \o <<a>> <=> \E m \in i..n : n = m + 1 /\ Seg(def, i, m) = s /\ def[m + 1] = a
<1>1. Len(def) \in Nat /\ <<a>> \in Seq(S)
  BY LenProperties, SingleSeq
<1>2. \A m \in i..n : Seg(def, m, n) = <<a>> <=> n = m + 1 /\ def[m + 1] = a
  <2> TAKE m \in i..n
  <2>1. m \in 0..Len(def) /\ n \in m..Len(def)
    BY <1>1
  <2> QED
    BY <2>1, SegOne
<1>3. Seg(def, i, n) = Cat(s, <<a>>) <=> Split(def, i, n, s, <<a>>)
  <2> DEFINE t == <<a>>
  <2>1. t \in Seq(S)
    BY <1>1
  <2> HIDE DEF t
  <2> QED
    BY <2>1, SegCat DEF t
<1> QED
  BY <1>2, <1>3 DEF Cat, Split

\* One more token and a text.
LEMMA SegCons ==
    ASSUME NEW S, NEW def \in Seq(S), NEW i \in 0..Len(def), NEW n \in i..Len(def), NEW s \in Seq(S), NEW a \in S
    PROVE  Seg(def, i, n) = <<a>> \o s <=> i + 1 <= n /\ def[i + 1] = a /\ Seg(def, i + 1, n) = s
<1>1. Len(def) \in Nat /\ <<a>> \in Seq(S)
  BY LenProperties, SingleSeq
<1>2. \A m \in i..n : Seg(def, i, m) = <<a>> <=> m = i + 1 /\ def[i + 1] = a
  <2> TAKE m \in i..n
  <2>1. m \in i..Len(def)
    BY <1>1
  <2> QED
    BY <2>1, SegOne
<1>3. Seg(def, i, n) = Cat(<<a>>, s) <=> Split(def, i, n, <<a>>, s)
  <2> DEFINE t == <<a>>
  <2>1. t \in Seq(S)
    BY <1>1
  <2> HIDE DEF t
  <2> QED
    BY <2>1, SegCat DEF t
<1>4. i + 1 <= n <=> i + 1 \in i..n
  BY <1>1
<1> QED
  BY <1>2, <1>3, <1>4 DEF Cat, Split

LEMMA SegTwo ==
    ASSUME NEW S, NEW def \in Seq(S), NEW i \in 0..Len(def), NEW n \in i..Len(def), NEW a \in S, NEW b \in S
    PROVE  Seg(def, i, n) = <<a, b>> <=> n = i + 2 /\ def[i + 1] = a /\ def[i + 2] = b
<1>1. Len(def) \in Nat /\ <<b>> \in Seq(S)
  BY LenProperties, SingleSeq
<1>2. <<a, b>> = <<a>> \o <<b>>
  BY Two DEF Cat, One
<1>3. Seg(def, i, n) = <<a>> \o <<b>> <=> i + 1 <= n /\ def[i + 1] = a /\ Seg(def, i + 1, n) = <<b>>
  <2> DEFINE t == <<b>>
  <2>1. t \in Seq(S)
    BY <1>1
  <2> HIDE DEF t
  <2>2. Seg(def, i, n) = <<a>> \o t <=> i + 1 <= n /\ def[i + 1] = a /\ Seg(def, i + 1, n) = t
    BY <2>1, SegCons
  <2> QED
    BY <2>2 DEF t
<1>4. ASSUME i + 1 <= n PROVE Seg(def, i + 1, n) = <<b>> <=> n = (i + 1) + 1 /\ def[(i + 1) + 1] = b
  <2>1. i + 1 \in 0..Len(def) /\ n \in (i + 1)..Len(def)
    BY <1>1, <1>4
  <2> QED
    BY <2>1, SegOne
<1>5. (i + 1) + 1 = i + 2 /\ i \in Nat /\ n \in Nat
  BY <1>1
<1>6. Seg(def, i, n) = <<a, b>> <=> i + 1 <= n /\ def[i + 1] = a /\ n = i + 2 /\ def[i + 2] = b
  BY <1>2, <1>3, <1>4, <1>5
<1> QED
  BY <1>5, <1>6

LEMMA SegThree ==
    ASSUME NEW S, NEW def \in Seq(S), NEW i \in 0..Len(def), NEW n \in i..Len(def), NEW a \in S, NEW b \in S, NEW c \in S
    PROVE  Seg(def, i, n) = <<a, b, c>> <=> n = i + 3 /\ def[i + 1] = a /\ def[i + 2] = b /\ def[i + 3] = c
<1>1. Len(def) \in Nat /\ <<c>> \in Seq(S)
  BY LenProperties, SingleSeq
<1> DEFINE t == <<b, c>>
<1>2. t \in Seq(S) /\ <<a>> \in Seq(S)
  BY SingleSeq
<1>3. <<a, b, c>> = <<a>> \o t
  <2>1. Len(<<a>>) = 1 /\ Len(t) = 2 /\ <<a>>[1] = a /\ t[1] = b /\ t[2] = c
    OBVIOUS
  <2>2. Len(<<a, b, c>>) = 3 /\ <<a, b, c>>[1] = a /\ <<a, b, c>>[2] = b /\ <<a, b, c>>[3] = c /\ <<a, b, c>> \in Seq(S)
    OBVIOUS
  <2>3. <<a>> \o t \in Seq(S) /\ Len(<<a>> \o t) = 3 /\ (<<a>> \o t)[1] = a /\ (<<a>> \o t)[2] = b /\ (<<a>> \o t)[3] = c
    <3> HIDE DEF t
    <3> DEFINE u == <<a>>
    <3>1. u \in Seq(S) /\ Len(u) = 1 /\ u[1] = a
      BY <1>2, <2>1
    <3> HIDE DEF u
    <3>2. /\ u \o t \in Seq(S) /\ Len(u \o t) = Len(u) + Len(t)
          /\ \A k \in 1..(Len(u) + Len(t)) : (u \o t)[k] = IF k <= Len(u) THEN u[k] ELSE t[k - Len(u)]
      BY <1>2, <3>1, ConcatProperties
    <3>3. u \o t \in Seq(S) /\ Len(u \o t) = 3 /\ (u \o t)[1] = a /\ (u \o t)[2] = b /\ (u \o t)[3] = c
      BY <2>1, <3>1, <3>2
    <3> QED
      BY <3>3 DEF u
  <2>4. \A s, u \in Seq(S) : Len(s) = 3 /\ Len(u) = 3 /\ s[1] = u[1] /\ s[2] = u[2] /\ s[3] = u[3] => s = u
    <3> SUFFICES ASSUME NEW s \in Seq(S), NEW u \in Seq(S),
                        Len(s) = 3, Len(u) = 3, s[1] = u[1], s[2] = u[2], s[3] = u[3]
                 PROVE  s = u
      OBVIOUS
    <3>1. \A k \in 1..3 : k = 1 \/ k = 2 \/ k = 3
      OBVIOUS
    <3> QED
      BY <3>1, SeqEqual
  <2> HIDE DEF t
  <2> QED
    BY <2>2, <2>3, <2>4
<1> HIDE DEF t
<1>4. Seg(def, i, n) = <<a>> \o t <=> i + 1 <= n /\ def[i + 1] = a /\ Seg(def, i + 1, n) = t
  BY <1>2, SegCons
<1>5. ASSUME i + 1 <= n PROVE Seg(def, i + 1, n) = t <=> n = (i + 1) + 2 /\ def[(i + 1) + 1] = b /\ def[(i + 1) + 2] = c
  <2>1. i + 1 \in 0..Len(def) /\ n \in (i + 1)..Len(def)
    BY <1>1, <1>5
  <2> QED
    BY <2>1, SegTwo DEF t
<1>6. (i + 1) + 1 = i + 2 /\ (i + 1) + 2 = i + 3 /\ i \in Nat /\ n \in Nat
  BY <1>1
<1>7. Seg(def, i, n) = <<a, b, c>> <=> i + 1 <= n /\ def[i + 1] = a /\ n = i + 3 /\ def[i + 2] = b /\ def[i + 3] = c
  BY <1>3, <1>4, <1>5, <1>6
<1> QED
  BY <1>6, <1>7

\* The text of a list or a set, token by token.
ListSaid(def, i, n, t, vs) ==
    \E m \in (i + 2)..n : /\ def[i + 1] = t /\ def[i + 2] = "<"
                          /\ Seg(def, i + 2, m) \in vs
                          /\ n = m + 1 /\ def[m + 1] = ">"

LEMMA SaidList ==
    ASSUME NEW S, NEW def \in Seq(S), NEW i \in 0..Len(def), NEW n \in i..Len(def),
           NEW t \in S, "<" \in S, ">" \in S, NEW vs \in SUBSET Seq(S)
    PROVE  Seg(def, i, n) \in ListTexts(t, vs) <=> ListSaid(def, i, n, t, vs)
<1>1. Len(def) \in Nat /\ i \in Nat /\ n \in Nat
  BY LenProperties
<1> DEFINE h == <<t, "<">>
<1>2. h \in Seq(S)
  OBVIOUS
<1>3. ASSUME NEW m \in i..n
      PROVE  m \in i..Len(def) /\ m \in 0..Len(def) /\ n \in m..Len(def) /\ \A j \in i..m : j \in 0..Len(def) /\ m \in j..Len(def) /\ j \in i..Len(def)
  BY <1>1
<1>4. ASSUME NEW m \in i..n PROVE Seg(def, i, m) = h <=> m = i + 2 /\ def[i + 1] = t /\ def[i + 2] = "<"
  BY <1>3, SegTwo
<1> HIDE DEF h
<1>5. ASSUME NEW v \in vs
      PROVE  Seg(def, i, n) = h \o v \o <<">">> <=>
               \E m \in i..n : /\ n = m + 1 /\ def[m + 1] = ">"
                               /\ \E j \in i..m : Seg(def, i, j) = h /\ Seg(def, j, m) = v
  <2>1. v \in Seq(S) /\ h \o v \in Seq(S)
    BY <1>2, ConcatProperties
  <2>2. ASSUME NEW m \in i..n PROVE Seg(def, i, m) = h \o v <=> \E j \in i..m : Seg(def, i, j) = h /\ Seg(def, j, m) = v
    <3>1. Seg(def, i, m) = Cat(h, v) <=> Split(def, i, m, h, v)
      BY <1>2, <1>3, <2>1, SegCat
    <3> QED
      BY <3>1 DEF Cat, Split
  <2> DEFINE s == h \o v
  <2>3. s \in Seq(S)
    BY <2>1
  <2> HIDE DEF s
  <2>4. Seg(def, i, n) = s \o <<">">> <=> \E m \in i..n : n = m + 1 /\ Seg(def, i, m) = s /\ def[m + 1] = ">"
    BY <2>3, SegSnoc
  <2> QED
    BY <2>2, <2>4 DEF s
<1>6. Seg(def, i, n) \in ListTexts(t, vs) <=> \E v \in vs : Seg(def, i, n) = h \o v \o <<">">>
  BY DEF ListTexts, h
<1>7. \A m \in i..n : \A j \in i..m : j \in i..n
  BY <1>1
<1>8. ASSUME Seg(def, i, n) \in ListTexts(t, vs)
      PROVE  \E m \in (i + 2)..n : /\ def[i + 1] = t /\ def[i + 2] = "<" /\ Seg(def, i + 2, m) \in vs
                                   /\ n = m + 1 /\ def[m + 1] = ">"
  <2>1. PICK v \in vs : Seg(def, i, n) = h \o v \o <<">">>
    BY <1>6, <1>8
  <2>2. PICK m \in i..n : n = m + 1 /\ def[m + 1] = ">" /\ \E j \in i..m : Seg(def, i, j) = h /\ Seg(def, j, m) = v
    BY <1>5, <2>1
  <2>3. PICK j \in i..m : Seg(def, i, j) = h /\ Seg(def, j, m) = v
    BY <2>2
  <2>4. j = i + 2 /\ def[i + 1] = t /\ def[i + 2] = "<"
    BY <1>4, <1>7, <2>3
  <2>5. m \in (i + 2)..n
    BY <1>1, <2>3, <2>4
  <2> QED
    BY <2>2, <2>3, <2>4, <2>5
<1>9. ASSUME NEW m \in (i + 2)..n, def[i + 1] = t, def[i + 2] = "<", Seg(def, i + 2, m) \in vs, n = m + 1, def[m + 1] = ">"
      PROVE  Seg(def, i, n) \in ListTexts(t, vs)
  <2>1. m \in i..n /\ i + 2 \in i..m /\ i + 2 \in i..n
    BY <1>1
  <2>2. Seg(def, i, i + 2) = h
    BY <1>4, <1>9, <2>1
  <2> QED
    BY <1>5, <1>6, <1>9, <2>1, <2>2
<1> QED
  BY <1>8, <1>9 DEF ListSaid

\* The text of a map.
MapSaid(def, i, n, hs, ks, vs) ==
    \E j \in i..n, k \in i..n, m \in i..n :
        /\ Seg(def, i, j) \in hs /\ def[j + 1] = "<"
        /\ j + 1 <= k /\ Seg(def, j + 1, k) \in ks /\ def[k + 1] = ":"
        /\ k + 1 <= m /\ Seg(def, k + 1, m) \in vs /\ n = m + 1 /\ def[m + 1] = ">"

LEMMA SaidMap ==
    ASSUME NEW S, NEW def \in Seq(S), NEW i \in 0..Len(def), NEW n \in i..Len(def), "<" \in S, ":" \in S, ">" \in S,
           NEW hs \in SUBSET Seq(S), NEW ks \in SUBSET Seq(S), NEW vs \in SUBSET Seq(S)
    PROVE  Seg(def, i, n) \in MapTexts(hs, ks, vs) <=> MapSaid(def, i, n, hs, ks, vs)
<1>1. Len(def) \in Nat /\ i \in Nat /\ n \in Nat
  BY LenProperties
<1>2. ASSUME NEW m \in i..n, NEW s \in Seq(S), NEW a \in S
      PROVE  Seg(def, i, m) = s \o <<a>> <=> \E j \in i..m : m = j + 1 /\ Seg(def, i, j) = s /\ def[j + 1] = a
  <2>1. m \in i..Len(def)
    BY <1>1
  <2> QED
    BY <2>1, SegSnoc
<1>3. ASSUME NEW m \in i..n, NEW s \in Seq(S), NEW u \in Seq(S)
      PROVE  Seg(def, i, m) = Cat(s, u) <=> Split(def, i, m, s, u)
  <2>1. m \in i..Len(def)
    BY <1>1
  <2> QED
    BY <2>1, SegCat
<1> DEFINE s1(h) == h \o <<"<">>
           s2(h, k) == Cat(s1(h), k)
           s3(h, k) == s2(h, k) \o <<":">>
           s4(h, k, v) == Cat(s3(h, k), v)
           s5(h, k, v) == s4(h, k, v) \o <<">">>
<1>4. /\ \A h \in hs : h \in Seq(S) /\ s1(h) \in Seq(S)
      /\ \A h \in hs, k \in ks : k \in Seq(S) /\ s2(h, k) \in Seq(S) /\ s3(h, k) \in Seq(S)
      /\ \A h \in hs, k \in ks, v \in vs : v \in Seq(S) /\ s4(h, k, v) \in Seq(S)
  <2>1. <<"<">> \in Seq(S) /\ <<":">> \in Seq(S)
    BY SingleSeq
  <2>2. ASSUME NEW h \in hs PROVE h \in Seq(S) /\ s1(h) \in Seq(S)
    BY <2>1, ConcatProperties
  <2>3. ASSUME NEW h \in hs, NEW k \in ks PROVE k \in Seq(S) /\ s2(h, k) \in Seq(S)
    <3> HIDE DEF s1
    <3> QED
      BY <2>2, ConcatProperties DEF Cat
  <2>4. ASSUME NEW h \in hs, NEW k \in ks PROVE s3(h, k) \in Seq(S)
    <3> HIDE DEF s2
    <3> QED
      BY <2>1, <2>3, ConcatProperties
  <2>5. ASSUME NEW h \in hs, NEW k \in ks, NEW v \in vs PROVE v \in Seq(S) /\ s4(h, k, v) \in Seq(S)
    <3> HIDE DEF s3
    <3> QED
      BY <2>4, ConcatProperties DEF Cat
  <2> HIDE DEF s1, s2, s3, s4
  <2> QED
    BY <2>2, <2>3, <2>4, <2>5
<1>5. Seg(def, i, n) \in MapTexts(hs, ks, vs) <=> \E h \in hs, k \in ks, v \in vs : Seg(def, i, n) = s5(h, k, v)
  <2> DEFINE w(h, k, v) == h \o <<"<">> \o k \o <<":">> \o v \o <<">">>
  <2>1. \A h, k, v : w(h, k, v) = s5(h, k, v)
    BY DEF Cat
  <2>2. MapTexts(hs, ks, vs) = {w(h, k, v) : h \in hs, k \in ks, v \in vs}
    BY DEF MapTexts
  <2> HIDE DEF w, s1, s2, s3, s4, s5
  <2> QED
    BY <2>1, <2>2
<1>6. ASSUME NEW m \in i..n, NEW j \in i..m PROVE j \in i..n
  BY <1>1
<1>7. ASSUME NEW h \in hs, NEW m \in i..n
      PROVE  Seg(def, i, m) = s1(h) <=> \E j \in i..m : m = j + 1 /\ Seg(def, i, j) = h /\ def[j + 1] = "<"
  BY <1>2, <1>4
<1>8. ASSUME NEW h \in hs, NEW k \in ks, NEW m \in i..n
      PROVE  Seg(def, i, m) = s2(h, k) <=> \E j \in i..m : Seg(def, i, j) = s1(h) /\ Seg(def, j, m) = k
  <2>1. s1(h) \in Seq(S) /\ k \in Seq(S)
    BY <1>4
  <2> HIDE DEF s1
  <2>2. Seg(def, i, m) = Cat(s1(h), k) <=> Split(def, i, m, s1(h), k)
    BY <1>3, <2>1
  <2> QED
    BY <2>2 DEF Split
<1>9. ASSUME NEW h \in hs, NEW k \in ks, NEW m \in i..n
      PROVE  Seg(def, i, m) = s3(h, k) <=> \E j \in i..m : m = j + 1 /\ Seg(def, i, j) = s2(h, k) /\ def[j + 1] = ":"
  <2>1. s2(h, k) \in Seq(S)
    BY <1>4
  <2> HIDE DEF s2
  <2> QED
    BY <1>2, <2>1
<1>10. ASSUME NEW h \in hs, NEW k \in ks, NEW v \in vs, NEW m \in i..n
       PROVE  Seg(def, i, m) = s4(h, k, v) <=> \E j \in i..m : Seg(def, i, j) = s3(h, k) /\ Seg(def, j, m) = v
  <2> HIDE DEF s1, s2, s3, s4
  <2>1. s3(h, k) \in Seq(S) /\ v \in Seq(S)
    BY <1>4
  <2>2. Seg(def, i, m) = Cat(s3(h, k), v) <=> Split(def, i, m, s3(h, k), v)
    BY <1>3, <2>1
  <2> QED
    BY <2>2 DEF Split, s4
<1>11. ASSUME NEW h \in hs, NEW k \in ks, NEW v \in vs, NEW m \in i..n
       PROVE  Seg(def, i, m) = s5(h, k, v) <=> \E j \in i..m : m = j + 1 /\ Seg(def, i, j) = s4(h, k, v) /\ def[j + 1] = ">"
  <2>1. s4(h, k, v) \in Seq(S)
    BY <1>4
  <2> HIDE DEF s4
  <2> QED
    BY <1>2, <2>1
<1> HIDE DEF s1, s2, s3, s4, s5
<1>12. n \in i..n
  BY <1>1
<1>13. ASSUME Seg(def, i, n) \in MapTexts(hs, ks, vs)
       PROVE  \E j \in i..n, k \in i..n, m \in i..n :
                 /\ Seg(def, i, j) \in hs /\ def[j + 1] = "<"
                 /\ j + 1 <= k /\ Seg(def, j + 1, k) \in ks /\ def[k + 1] = ":"
                 /\ k + 1 <= m /\ Seg(def, k + 1, m) \in vs /\ n = m + 1 /\ def[m + 1] = ">"
  <2>1. PICK h \in hs, ky \in ks, v \in vs : Seg(def, i, n) = s5(h, ky, v)
    BY <1>5, <1>13
  <2>2. PICK m \in i..n : n = m + 1 /\ Seg(def, i, m) = s4(h, ky, v) /\ def[m + 1] = ">"
    BY <1>11, <1>12, <2>1
  <2>3. PICK k1 \in i..m : Seg(def, i, k1) = s3(h, ky) /\ Seg(def, k1, m) = v
    BY <1>10, <2>2
  <2>4. k1 \in i..n
    BY <1>6, <2>3
  <2>5. PICK k \in i..k1 : k1 = k + 1 /\ Seg(def, i, k) = s2(h, ky) /\ def[k + 1] = ":"
    BY <1>9, <2>3, <2>4
  <2>6. k \in i..n
    BY <1>6, <2>4
  <2>7. PICK j1 \in i..k : Seg(def, i, j1) = s1(h) /\ Seg(def, j1, k) = ky
    BY <1>8, <2>5, <2>6
  <2>8. j1 \in i..n
    BY <1>6, <2>6
  <2>9. PICK j \in i..j1 : j1 = j + 1 /\ Seg(def, i, j) = h /\ def[j + 1] = "<"
    BY <1>7, <2>7, <2>8
  <2>10. j \in i..n
    BY <1>6, <2>8
  <2>11. j + 1 <= k /\ k + 1 <= m
    BY <1>1, <2>3, <2>5, <2>7, <2>9
  <2> QED
    BY <2>2, <2>3, <2>5, <2>6, <2>7, <2>9, <2>10, <2>11
<1>14. ASSUME NEW j \in i..n, NEW k \in i..n, NEW m \in i..n,
              Seg(def, i, j) \in hs, def[j + 1] = "<", j + 1 <= k, Seg(def, j + 1, k) \in ks, def[k + 1] = ":",
              k + 1 <= m, Seg(def, k + 1, m) \in vs, n = m + 1, def[m + 1] = ">"
       PROVE  Seg(def, i, n) \in MapTexts(hs, ks, vs)
  <2> DEFINE h == Seg(def, i, j)
             ky == Seg(def, j + 1, k)
             v == Seg(def, k + 1, m)
  <2>1. h \in hs /\ ky \in ks /\ v \in vs
    BY <1>14
  <2>2. j + 1 \in i..n /\ k + 1 \in i..n /\ j \in i..(j + 1) /\ j + 1 \in i..k /\ k \in i..(k + 1) /\ k + 1 \in i..m /\ m \in i..n
    BY <1>1, <1>14
  <2> HIDE DEF h, ky, v
  <2>3. Seg(def, i, j + 1) = s1(h)
    BY <1>7, <1>14, <2>1, <2>2 DEF h
  <2>4. Seg(def, i, k) = s2(h, ky)
    BY <1>8, <2>1, <2>2, <2>3 DEF ky
  <2>5. Seg(def, i, k + 1) = s3(h, ky)
    BY <1>9, <1>14, <2>1, <2>2, <2>4
  <2>6. Seg(def, i, m) = s4(h, ky, v)
    BY <1>10, <2>1, <2>2, <2>5 DEF v
  <2>7. Seg(def, i, n) = s5(h, ky, v)
    BY <1>11, <1>12, <1>14, <2>1, <2>2, <2>6
  <2> QED
    BY <1>5, <2>1, <2>7
<1> QED
  BY <1>13, <1>14 DEF MapSaid

-----------------------------------------------------------------------------
(***************************************************************************)
(* The texts of types                                                      *)
(***************************************************************************)
\* What they are made of, and the text of a tag.
Tok == Token \cup {"map", "set", "list"} \cup UNION {Keyword[t] : t \in DOMAIN Keyword}

LEMMA TokHas ==
    /\ Identifiers \subseteq Token /\ Token \subseteq Tok
    /\ "map" \in Tok /\ "set" \in Tok /\ "list" \in Tok
    /\ "<" \in Tok /\ ">" \in Tok /\ ":" \in Tok /\ "." \in Tok
    /\ \A t \in DOMAIN Keyword : Keyword[t] \subseteq Tok
BY DEF Tok, Token, Punctuation

LEMMA TextIs ==
    ASSUME NEW def \in Text
    PROVE  def \in Seq(Tok) /\ Len(def) \in Nat /\ (def = <<>> <=> Len(def) = 0) /\ \A i \in 1..Len(def) : def[i] \in Token
<1>1. def \in Seq(Token) /\ Len(def) \in Nat
  BY LenProperties DEF Text
<1>2. \A i \in 1..Len(def) : def[i] \in Token
  BY <1>1, ElementOfSeq
<1>3. def \in [1..Len(def) -> Token]
  BY <1>1, LenProperties
<1>4. def \in [1..Len(def) -> Tok]
  BY <1>2, <1>3, TokHas
<1>5. def \in Seq(Tok)
  BY <1>1, <1>4, SeqDef
<1>6. def = <<>> <=> Len(def) = 0
  BY <1>1, EmptySeq
<1> QED
  BY <1>1, <1>2, <1>5, <1>6

LEMMA KeywordsAre ==
    ASSUME NEW x
    PROVE  /\ x.T = "enum" => Keywords(x) = Keyword["i64"]
           /\ x.T \in DOMAIN Keyword => Keywords(x) = Keyword[x.T]
           /\ Keywords(x) \subseteq Tok
<1>1. "enum" \notin DOMAIN Keyword /\ "i64" \in DOMAIN Keyword
  BY DEF Keyword
<1>2. Keywords(x) = UNION {Keyword[t] : t \in DOMAIN Keyword \cap {IF x.T = "enum" THEN "i64" ELSE x.T}}
  BY DEF Keywords
<1>3. \A t \in DOMAIN Keyword : Keyword[t] \subseteq Tok
  BY TokHas
<1> QED
  BY <1>1, <1>2, <1>3

LEMMA NamesTyped ==
    ASSUME NEW x
    PROVE  /\ Unqualified(x) \in SUBSET Seq(Tok) /\ Qualified(x) \in SUBSET Seq(Tok)
           /\ Names(x) \in SUBSET Seq(Tok) /\ Words(x) \subseteq Tok
<1>1. Words(x) \subseteq Tok /\ Identifiers \subseteq Tok /\ "." \in Tok
  BY TokHas DEF Words
<1>2. \A n \in Words(x) : <<n>> \in Seq(Tok)
  BY <1>1, SingleSeq
<1>3. \A p \in Words(x), n \in Identifiers : <<p, ".", n>> \in Seq(Tok)
  BY <1>1
<1>4. Unqualified(x) \in SUBSET Seq(Tok)
  BY <1>2 DEF Unqualified
<1>5. Qualified(x) \in SUBSET Seq(Tok)
  <2> SUFFICES ASSUME NEW s \in Qualified(x) PROVE s \in Seq(Tok)
    OBVIOUS
  <2>1. PICK p \in Words(x), n \in Identifiers : s = <<p, ".", n>>
    BY DEF Qualified
  <2> QED
    BY <1>3, <2>1
<1>6. {<<n>> : n \in Words(x)} \in SUBSET Seq(Tok)
  BY <1>2
<1> QED
  BY <1>1, <1>4, <1>5, <1>6 DEF Names

TextsBy(f, x) == TextsOf(x, f[x.K], f[x.V])

LEMMA TextsByIs ==
    ASSUME NEW f, NEW x
    PROVE  /\ x.T = "pointer" => TextsBy(f, x) = f[x.V]
           /\ x.T \in {"set", "list"} => TextsBy(f, x) = ListTexts(x.T, f[x.V])
           /\ x.T = "map" => TextsBy(f, x) = MapTexts({<<"map">>} \cup Qualified(x), f[x.K], f[x.V])
           /\ x.T = "enum" => TextsBy(f, x) = Names(x)
           /\ x.T \notin {"pointer", "set", "list", "map", "enum"} =>
                 TextsBy(f, x) = {<<k>> : k \in Keywords(x)}
                                   \cup IF x.T = "i64" /\ x.S # Int64 THEN {} ELSE Names(x)
<1>1. CASE x.T = "pointer"
  BY <1>1 DEF TextsBy, TextsOf
<1>2. CASE x.T \in {"set", "list"}
  BY <1>2 DEF TextsBy, TextsOf
<1>3. CASE x.T = "map"
  BY <1>3 DEF TextsBy, TextsOf
<1>4. CASE x.T = "enum"
  BY <1>4 DEF TextsBy, TextsOf
<1>5. CASE x.T \notin {"pointer", "set", "list", "map", "enum"}
  BY <1>5 DEF TextsBy, TextsOf
<1> QED
  BY <1>1, <1>2, <1>3, <1>4, <1>5

LEMMA ListTextsTyped ==
    ASSUME NEW t \in Tok, NEW vs \in SUBSET Seq(Tok)
    PROVE  ListTexts(t, vs) \in SUBSET Seq(Tok)
<1> DEFINE h == <<t, "<">>
           e == <<">">>
<1>1. h \in Seq(Tok) /\ e \in Seq(Tok)
  BY TokHas, SingleSeq
<1> HIDE DEF h, e
<1>2. ASSUME NEW v \in vs PROVE h \o v \o e \in Seq(Tok)
  BY <1>1, ConcatProperties
<1>3. ListTexts(t, vs) = {h \o v \o e : v \in vs}
  BY DEF ListTexts, h, e
<1> QED
  BY <1>2, <1>3

LEMMA MapTextsTyped ==
    ASSUME NEW hs \in SUBSET Seq(Tok), NEW ks \in SUBSET Seq(Tok), NEW vs \in SUBSET Seq(Tok)
    PROVE  MapTexts(hs, ks, vs) \in SUBSET Seq(Tok)
<1> DEFINE a == <<"<">>
           c == <<":">>
           e == <<">">>
<1>1. a \in Seq(Tok) /\ c \in Seq(Tok) /\ e \in Seq(Tok)
  BY TokHas, SingleSeq
<1> HIDE DEF a, c, e
<1>2. ASSUME NEW h \in hs, NEW k \in ks, NEW v \in vs PROVE h \o a \o k \o c \o v \o e \in Seq(Tok)
  <2>1. h \o a \in Seq(Tok)
    BY <1>1, ConcatProperties
  <2>2. (h \o a) \o k \in Seq(Tok)
    BY <2>1, ConcatProperties
  <2>3. ((h \o a) \o k) \o c \in Seq(Tok)
    BY <1>1, <2>2, ConcatProperties
  <2>4. (((h \o a) \o k) \o c) \o v \in Seq(Tok)
    BY <2>3, ConcatProperties
  <2> QED
    BY <1>1, <2>4, ConcatProperties
<1> DEFINE w(h, k, v) == h \o a \o k \o c \o v \o e
<1>3. MapTexts(hs, ks, vs) = {w(h, k, v) : h \in hs, k \in ks, v \in vs}
  BY DEF MapTexts, a, c, e
<1>4. \A h \in hs, k \in ks, v \in vs : w(h, k, v) \in Seq(Tok)
  BY <1>2
<1> HIDE DEF w
<1> QED
  BY <1>3, <1>4

LEMMA TextsTyped ==
    ASSUME NEW f, NEW x \in Type, \A y \in Type : TypeDepth[y] < TypeDepth[x] => f[y] \in SUBSET Seq(Tok)
    PROVE  TextsBy(f, x) \in SUBSET Seq(Tok)
<1>1. x.T \in {"map", "set", "list", "pointer"} => f[x.V] \in SUBSET Seq(Tok)
  BY PartsSmaller
<1>2. x.T = "map" => f[x.K] \in SUBSET Seq(Tok)
  BY PartsSmaller
<1>3. CASE x.T = "pointer"
  BY <1>1, <1>3, TextsByIs
<1>4. CASE x.T \in {"set", "list"}
  <2>1. x.T \in Tok
    BY <1>4, TokHas
  <2> QED
    <3>1. TextsBy(f, x) = ListTexts(x.T, f[x.V]) /\ f[x.V] \in SUBSET Seq(Tok)
      BY <1>1, <1>4, TextsByIs
    <3> QED
      BY <2>1, <3>1, ListTextsTyped
<1>5. CASE x.T = "map"
  <2>1. {<<"map">>} \cup Qualified(x) \in SUBSET Seq(Tok)
    <3>1. <<"map">> \in Seq(Tok)
      BY TokHas, SingleSeq
    <3> QED
      BY <3>1, NamesTyped
  <2>2. TextsBy(f, x) = MapTexts({<<"map">>} \cup Qualified(x), f[x.K], f[x.V])
    BY <1>5, TextsByIs
  <2> QED
    BY <1>1, <1>2, <1>5, <2>1, <2>2, MapTextsTyped
<1>6. CASE x.T \notin {"pointer", "set", "list", "map"}
  <2>1. {<<k>> : k \in Keywords(x)} \in SUBSET Seq(Tok)
    BY KeywordsAre, SingleSeq
  <2>2. TextsBy(f, x) \subseteq {<<k>> : k \in Keywords(x)} \cup Names(x)
    BY <1>6, TextsByIs
  <2> QED
    BY <2>1, <2>2, NamesTyped
<1> QED
  BY <1>3, <1>4, <1>5, <1>6

LEMMA TextsLocal ==
    ASSUME NEW f, NEW g, NEW x \in Type, Agree(Type, TypeDepth, x, f, g)
    PROVE  TextsBy(f, x) = TextsBy(g, x)
<1>1. x.T \in {"map", "set", "list", "pointer"} => f[x.V] = g[x.V]
  BY PartsSmaller DEF Agree
<1>2. x.T = "map" => f[x.K] = g[x.K]
  BY PartsSmaller DEF Agree
<1>3. CASE x.T = "pointer"
  BY <1>1, <1>3, TextsByIs
<1>4. CASE x.T \in {"set", "list"}
  BY <1>1, <1>4, TextsByIs
<1>5. CASE x.T = "map"
  BY <1>1, <1>2, <1>5, TextsByIs
<1>6. CASE x.T = "enum"
  BY <1>6, TextsByIs
<1>7. CASE x.T \notin {"pointer", "set", "list", "map", "enum"}
  BY <1>7, TextsByIs
<1> QED
  BY <1>3, <1>4, <1>5, <1>6, <1>7

LEMMA TextsUnfold ==
    \A x \in Type : Texts[x] = TextsBy(Texts, x) /\ Texts[x] \in SUBSET Seq(Tok)
<1> DEFINE W == [x \in Type |-> SUBSET Seq(Tok)]
           step == [f \in Product(Type, W) |-> [x \in Type |-> TextsBy(f, x)]]
<1>1. \A x \in Type : W[x] # {}
  OBVIOUS
<1>2. step \in [Product(Type, W) -> Product(Type, W)]
  BY TextsTyped DEF Product
<1>3. Local(Type, W, TypeDepth, step)
  BY TextsLocal DEF Local
<1>4. PICK F \in Product(Type, W) : F = step[F]
  <2> HIDE DEF W, step
  <2> QED
    BY <1>1, <1>2, <1>3, TypeDepthIs, Recursion
<1>5. F = [x \in Type |-> TextsBy(F, x)]
  BY <1>4
<1>6. Texts = [x \in Type |-> TextsBy(Texts, x)]
  BY <1>5 DEF Texts, TextsBy
<1>7. \A x \in Type : Texts[x] \in SUBSET Seq(Tok)
  <2> DEFINE G == {x \in Type : Texts[x] \in SUBSET Seq(Tok)}
  <2>1. ASSUME NEW x \in Type, \A y \in Type : TypeDepth[y] < TypeDepth[x] => y \in G PROVE x \in G
    BY <1>6, <2>1, TextsTyped
  <2>2. Type \subseteq G
    <3> HIDE DEF G
    <3> QED
      BY <2>1, TypeDepthIs, ByDepth
  <2> QED
    BY <2>2
<1> QED
  BY <1>6, <1>7

\* The types that a field without a text cannot have.
NeedsBy(f, x) ==
    \/ x.T \in {"set", "list", "enum"}
    \/ x.T = "map" /\ f[x.K]
    \/ x.T \in {"map", "pointer"} /\ f[x.V]

LEMMA NeedsUnfold ==
    \A x \in Type : NeedsText[x] = NeedsBy(NeedsText, x) /\ NeedsText[x] \in BOOLEAN
<1> DEFINE W == [x \in Type |-> BOOLEAN]
           step == [f \in Product(Type, W) |-> [x \in Type |-> NeedsBy(f, x)]]
<1>1. \A x \in Type : W[x] # {}
  OBVIOUS
<1>2. ASSUME NEW f, NEW x PROVE NeedsBy(f, x) \in BOOLEAN
  BY DEF NeedsBy
<1>3. step \in [Product(Type, W) -> Product(Type, W)]
  BY <1>2 DEF Product
<1>4. Local(Type, W, TypeDepth, step)
  <2> SUFFICES ASSUME NEW f \in Product(Type, W), NEW g \in Product(Type, W), NEW x \in Type, Agree(Type, TypeDepth, x, f, g)
               PROVE  step[f][x] = step[g][x]
    BY DEF Local
  <2>1. x.T \in {"map", "pointer"} => f[x.V] = g[x.V]
    BY PartsSmaller DEF Agree
  <2>2. x.T = "map" => f[x.K] = g[x.K]
    BY PartsSmaller DEF Agree
  <2>3. NeedsBy(f, x) = NeedsBy(g, x)
    <3>1. CASE x.T = "map"
      BY <2>1, <2>2, <3>1 DEF NeedsBy
    <3>2. CASE x.T = "pointer"
      BY <2>1, <3>2 DEF NeedsBy
    <3>3. CASE x.T \notin {"map", "pointer"}
      BY <3>3 DEF NeedsBy
    <3> QED
      BY <3>1, <3>2, <3>3
  <2> QED
    BY <2>3
<1>5. PICK F \in Product(Type, W) : F = step[F]
  <2> HIDE DEF W, step
  <2> QED
    BY <1>1, <1>3, <1>4, TypeDepthIs, Recursion
<1>6. F = [x \in Type |-> NeedsBy(F, x)]
  BY <1>5
<1>7. NeedsText = [x \in Type |-> NeedsBy(NeedsText, x)]
  BY <1>6 DEF NeedsText, NeedsBy
<1> QED
  BY <1>2, <1>7

-----------------------------------------------------------------------------
(***************************************************************************)
(* Words in the text of a tag                                              *)
(***************************************************************************)
LEMMA OkSame == \A x, i, y, j : Ok(x, i) = Ok(y, j) <=> x = y /\ i = j
BY DEF Ok

LEMMA OkNot == \A x, i : Ok(x, i) # Err /\ Ok(x, i) # Panic
BY DEF Ok, Err, Panic

\* What a tag has after the word at i that it gives vt for, up to n.
Named(vt, def, i, n) ==
    IF vt.kind = "struct" /\ vt.name = "" THEN n = i + 1
    ELSE \/ n = i + 1 /\ vt.name = def[i + 1] /\ (n = Len(def) \/ def[n + 1] \in {":", ">"})
         \/ n = i + 3 /\ n <= Len(def) /\ def[i + 2] = "." /\ def[i + 3] \notin Punctuation /\ vt.name = def[i + 3]

LEMMA MatchStructIs ==
    ASSUME NEW vt, NEW def \in Text, NEW i \in Nat, i < Len(def), NEW n
    PROVE  MatchStruct(vt, def, i + 1, def[i + 1]) = Ok(TRUE, n) <=> Named(vt, def, i, n)
<1>0. Len(def) \in Nat /\ i + 1 \in Nat /\ i + 1 <= Len(def) /\ (i + 1) + 1 = i + 2 /\ (i + 2) + 1 = i + 3 /\ i + 2 \in Nat
      /\ (i + 1 < Len(def) \/ i + 1 = Len(def)) /\ (i + 1 = Len(def) => ~(i + 1 < Len(def)) /\ ~(i + 3 <= Len(def)))
  BY TextIs
<1> DEFINE next == IF i + 1 < Len(def) THEN def[i + 2] ELSE ""
           r == ReadToken(def, i + 2)
           m == MatchStruct(vt, def, i + 1, def[i + 1])
           tv == def[i + 1]
<1>1. m = IF vt.kind = "struct" /\ vt.name = "" THEN Ok(TRUE, i + 1)
          ELSE IF next \in {"", ":", ">"} THEN Ok(vt.name = tv, i + 1)
          ELSE IF next # "." THEN Err
          ELSE IF r.st # "ok" THEN r
          ELSE IF r.x \in Punctuation THEN Err ELSE Ok(vt.name = r.x, r.i)
  BY <1>0 DEF MatchStruct, Bind
<1>2. ASSUME NEW a, NEW b, NEW j PROVE Ok(a = b, j) = Ok(TRUE, n) <=> a = b /\ j = n
  BY DEF Ok
<1>3. ASSUME i + 1 < Len(def) PROVE def[i + 2] # ""
  <2>1. i + 2 \in 1..Len(def)
    BY <1>0, <1>3
  <2>2. def[i + 2] \in Token
    BY <2>1, TextIs
  <2> QED
    BY <2>2, TokenAssumption DEF Token, Punctuation
<1>4. /\ i + 2 < Len(def) => r = Ok(def[i + 3], i + 3)
      /\ ~(i + 2 < Len(def)) => r = Err
  BY <1>0, ReadTokenIs
<1>5. i + 2 < Len(def) <=> i + 3 <= Len(def)
  BY <1>0
<1>6. i + 1 # i + 3
  BY <1>0
<1> HIDE DEF m, r
<1>7. CASE vt.kind = "struct" /\ vt.name = ""
  <2>1. m = Ok(TRUE, i + 1)
    BY <1>1, <1>7
  <2> QED
    <3>1. m = Ok(TRUE, n) <=> n = i + 1
      BY <2>1 DEF Ok
    <3>2. Named(vt, def, i, n) <=> n = i + 1
      BY <1>7 DEF Named
    <3> QED
      BY <3>1, <3>2 DEF m
<1>8. CASE ~(vt.kind = "struct" /\ vt.name = "") /\ i + 1 = Len(def)
  <2>1. m = Ok(vt.name = tv, i + 1)
    <3>1. next = ""
      BY <1>0, <1>8
    <3> HIDE DEF next
    <3> QED
      BY <1>1, <1>8, <3>1
  <2>2. m = Ok(TRUE, n) <=> vt.name = tv /\ n = i + 1
    BY <2>1 DEF Ok
  <2>3. Named(vt, def, i, n) <=> vt.name = tv /\ n = i + 1
    BY <1>0, <1>8 DEF Named
  <2> QED
    BY <2>2, <2>3 DEF m
<1>9. CASE ~(vt.kind = "struct" /\ vt.name = "") /\ i + 1 < Len(def)
  <2>1. next = def[i + 2] /\ next # "" /\ i + 1 # Len(def)
    BY <1>0, <1>3, <1>9
  <2>2. CASE def[i + 2] \in {":", ">"}
    <3>1. m = Ok(vt.name = tv, i + 1)
      BY <1>1, <1>9, <2>1, <2>2
    <3>2. m = Ok(TRUE, n) <=> vt.name = tv /\ n = i + 1
      BY <3>1 DEF Ok
    <3>3. Named(vt, def, i, n) <=> vt.name = tv /\ n = i + 1
      BY <1>0, <1>9, <2>1, <2>2 DEF Named
    <3> QED
      BY <3>2, <3>3 DEF m
  <2>3. CASE def[i + 2] \notin {":", ">", "."}
    <3>1. m = Err
      BY <1>1, <1>9, <2>1, <2>3
    <3>2. ~Named(vt, def, i, n)
      BY <1>0, <1>9, <2>1, <2>3 DEF Named
    <3> QED
      BY <3>1, <3>2, OkNot DEF m
  <2>4. CASE def[i + 2] = "."
    <3>1. m = IF r.st # "ok" THEN r ELSE IF r.x \in Punctuation THEN Err ELSE Ok(vt.name = r.x, r.i)
      BY <1>1, <1>9, <2>1, <2>4
    <3>2. CASE ~(i + 2 < Len(def))
      <4>1. m = Err
        BY <1>4, <3>1, <3>2, NotOk
      <4>2. ~Named(vt, def, i, n)
        BY <1>0, <1>5, <1>9, <2>1, <2>4, <3>2 DEF Named
      <4> QED
        BY <4>1, <4>2, OkNot DEF m
    <3>3. CASE i + 2 < Len(def)
      <4>1. m = IF def[i + 3] \in Punctuation THEN Err ELSE Ok(vt.name = def[i + 3], i + 3)
        BY <1>4, <3>1, <3>3, OkIs
      <4>2. m = Ok(TRUE, n) <=> def[i + 3] \notin Punctuation /\ vt.name = def[i + 3] /\ n = i + 3
        BY <4>1 DEF Ok, Err
      <4>3. Named(vt, def, i, n) <=> def[i + 3] \notin Punctuation /\ vt.name = def[i + 3] /\ n = i + 3
        BY <1>0, <1>5, <1>9, <2>1, <2>4, <3>3 DEF Named
      <4> QED
        BY <4>2, <4>3 DEF m
    <3> QED
      BY <3>2, <3>3
  <2> QED
    BY <2>2, <2>3, <2>4
<1> QED
  BY <1>0, <1>7, <1>8, <1>9

\* The tag of a type whose name or keyword is at i.
LEMMA MatchTypeIs ==
    ASSUME NEW vt, NEW tag, NEW def \in Text, def # <<>>, NEW i \in Nat, NEW t, NEW n
    PROVE  MatchType(vt, tag, def, i) = Ok(t, n) <=>
             /\ i < Len(def)
             /\ \/ def[i + 1] \in Keyword[tag] /\ t = tag /\ n = i + 1
                \/ /\ def[i + 1] \notin Keyword[tag] /\ def[i + 1] \in Identifiers /\ Named(vt, def, i, n)
                   /\ t = IF tag = "i64" /\ vt # Int64 THEN "enum" ELSE tag
<1> DEFINE r == ReadToken(def, i)
           m == MatchStruct(vt, def, i + 1, def[i + 1])
           enum == tag = "i64" /\ vt # Int64
           u == IF enum THEN "enum" ELSE tag
<1>1. CASE ~(i < Len(def))
  <2>1. r = Err
    BY <1>1, TextIs, ReadTokenIs
  <2>2. MatchType(vt, tag, def, i) = Err
    BY <2>1, NotOk DEF MatchType, Bind
  <2> QED
    BY <1>1, <2>2, OkNot
<1>2. CASE i < Len(def)
  <2>1. r = Ok(def[i + 1], i + 1) /\ def[i + 1] \in Token
    BY <1>2, ReadTokenIs
  <2>2. MatchType(vt, tag, def, i) =
            IF def[i + 1] \in Keyword[tag] THEN Ok(tag, i + 1)
            ELSE IF def[i + 1] \in Punctuation THEN Err
            ELSE IF m.st # "ok" THEN m
            ELSE IF ~m.x THEN Err
            ELSE Ok(u, m.i)
    BY <2>1, OkIs DEF MatchType, Bind
  <2>3. m \in Outcome(BOOLEAN)
    BY MatchStructTyped
  <2>4. ASSUME NEW j PROVE m = Ok(TRUE, j) <=> Named(vt, def, i, j)
    BY <1>2, MatchStructIs
  <2>5. m.st = "ok" => m = Ok(m.x, m.i) /\ m.x \in BOOLEAN
    BY <2>3, OutcomeIs
  <2>6. m.st # "ok" => m \in {Err, Panic}
    BY <2>3, OutcomeIs
  <2>7. def[i + 1] \in Identifiers <=> def[i + 1] \notin Punctuation
    BY <2>1, TokenAssumption DEF Token
  <2>8. CASE def[i + 1] \in Keyword[tag]
    BY <1>2, <2>2, <2>8, OkSame
  <2>9. CASE def[i + 1] \notin Keyword[tag] /\ def[i + 1] \in Punctuation
    <3>1. MatchType(vt, tag, def, i) = Err
      BY <2>2, <2>9
    <3> QED
      BY <2>7, <2>9, <3>1, OkNot
  <2>10. CASE def[i + 1] \notin Keyword[tag] /\ def[i + 1] \notin Punctuation
    <3> HIDE DEF m, u
    <3>1. MatchType(vt, tag, def, i) =
            IF m.st # "ok" THEN m ELSE IF ~m.x THEN Err ELSE Ok(u, m.i)
      BY <2>2, <2>10
    <3>2. MatchType(vt, tag, def, i) = Ok(t, n) <=> m.st = "ok" /\ m.x /\ u = t /\ m.i = n
      BY <2>6, <3>1, OkSame, OkNot
    <3>3. m.st = "ok" /\ m.x /\ m.i = n <=> m = Ok(TRUE, n)
      <4>1. m.st = "ok" => (m = Ok(TRUE, m.i) /\ m.x = TRUE) \/ (m = Ok(FALSE, m.i) /\ m.x = FALSE)
        <5> SUFFICES ASSUME m.st = "ok" PROVE (m = Ok(TRUE, m.i) /\ m.x = TRUE) \/ (m = Ok(FALSE, m.i) /\ m.x = FALSE)
          OBVIOUS
        <5>1. m = Ok(m.x, m.i) /\ (m.x = TRUE \/ m.x = FALSE)
          BY <2>5
        <5> QED
          BY <5>1
      <4>2. Ok(TRUE, n).st = "ok" /\ Ok(TRUE, n).x = TRUE /\ Ok(TRUE, n).i = n
        BY OkIs
      <4> QED
        BY <4>1, <4>2
    <3> QED
      BY <1>2, <2>4, <2>7, <2>10, <3>2, <3>3 DEF u
  <2> QED
    BY <2>8, <2>9, <2>10
<1> QED
  BY <1>1, <1>2, TextIs

LEMMA NamesAre ==
    ASSUME NEW x, NEW def \in Text, NEW i \in 0..Len(def), NEW n \in i..Len(def)
    PROVE  /\ Seg(def, i, n) \in Unqualified(x) <=> n = i + 1 /\ def[i + 1] \in Words(x) /\ def[i + 1] = x.S.name
           /\ Seg(def, i, n) \in Qualified(x) <=>
                /\ n = i + 3 /\ def[i + 1] \in Words(x) /\ def[i + 2] = "."
                /\ def[i + 3] \in Identifiers /\ def[i + 3] = x.S.name
           /\ Seg(def, i, n) \in {<<w>> : w \in Words(x)} <=> n = i + 1 /\ def[i + 1] \in Words(x)
           /\ Seg(def, i, n) \in {<<k>> : k \in Keywords(x)} <=> n = i + 1 /\ def[i + 1] \in Keywords(x)
<1>1. def \in Seq(Tok)
  BY TextIs
<1>2. \A a \in Tok : Seg(def, i, n) = <<a>> <=> n = i + 1 /\ def[i + 1] = a
  BY <1>1, SegOne
<1>3. \A a, b, c \in Tok : Seg(def, i, n) = <<a, b, c>> <=> n = i + 3 /\ def[i + 1] = a /\ def[i + 2] = b /\ def[i + 3] = c
  BY <1>1, SegThree
<1>4. Words(x) \subseteq Tok /\ Keywords(x) \subseteq Tok /\ Identifiers \subseteq Tok /\ "." \in Tok
  BY TokHas, NamesTyped, KeywordsAre
<1>5. Seg(def, i, n) \in Unqualified(x) <=> n = i + 1 /\ def[i + 1] \in Words(x) /\ def[i + 1] = x.S.name
  BY <1>2, <1>4 DEF Unqualified
<1>6. Seg(def, i, n) \in {<<w>> : w \in Words(x)} <=> n = i + 1 /\ def[i + 1] \in Words(x)
  BY <1>2, <1>4
<1>7. Seg(def, i, n) \in {<<k>> : k \in Keywords(x)} <=> n = i + 1 /\ def[i + 1] \in Keywords(x)
  BY <1>2, <1>4
<1>8. Seg(def, i, n) \in Qualified(x) <=>
        /\ n = i + 3 /\ def[i + 1] \in Words(x) /\ def[i + 2] = "."
        /\ def[i + 3] \in Identifiers /\ def[i + 3] = x.S.name
  <2>1. Seg(def, i, n) \in Qualified(x) <=>
          \E p \in Words(x), c \in Identifiers : c = x.S.name /\ Seg(def, i, n) = <<p, ".", c>>
    BY DEF Qualified
  <2> QED
    BY <1>3, <1>4, <2>1
<1> QED
  BY <1>5, <1>6, <1>7, <1>8

\* A text is a name, and ends where it can, if the parser takes it for the type's name.
LEMMA NameSaid ==
    ASSUME NEW x, x.T # "pointer", NEW def \in Text, NEW i \in 0..Len(def), NEW n \in i..Len(def)
    PROVE  /\ Seg(def, i, n) \in Names(x) /\ Ends(x, def, i, n) <=>
                i < Len(def) /\ def[i + 1] \in Words(x) /\ Named(x.S, def, i, n)
           /\ n # i + 1 => Ends(x, def, i, n)
           /\ Seg(def, i, n) \in {<<k>> : k \in Keywords(x)} => Ends(x, def, i, n)
           /\ Seg(def, i, n) \in {<<k>> : k \in Keywords(x)} <=> n = i + 1 /\ i < Len(def) /\ def[i + 1] \in Keywords(x)
<1>0. Len(def) \in Nat /\ i \in Nat /\ n \in Nat /\ (n = i + 1 => i < Len(def)) /\ (n = i + 3 => i < Len(def) /\ n <= Len(def))
  BY TextIs
<1>1. Ends(x, def, i, n) <=> (Seg(def, i, n) \in Unqualified(x) => n = Len(def) \/ def[n + 1] \in {":", ">"})
  BY DEF Ends, Pointee, Seg
<1>2. \A w \in Words(x) : w \notin Keywords(x)
  BY DEF Words
<1>3. n = i + 3 => (def[i + 3] \in Identifiers <=> def[i + 3] \notin Punctuation)
  <2>1. n = i + 3 => i + 3 \in 1..Len(def)
    BY <1>0
  <2>2. n = i + 3 => def[i + 3] \in Token
    BY <2>1, TextIs
  <2> QED
    BY <2>2, TokenAssumption DEF Token
<1>4. i + 1 # i + 3
  BY <1>0
<1>5. CASE x.S.kind = "struct" /\ x.S.name = ""
  <2>1. Names(x) = {<<w>> : w \in Words(x)}
    BY <1>5 DEF Names
  <2>2. Seg(def, i, n) \notin Unqualified(x)
    BY <1>5, NamesAre, TokenAssumption DEF Words
  <2>3. Named(x.S, def, i, n) <=> n = i + 1
    BY <1>5 DEF Named
  <2> QED
    BY <1>0, <1>1, <2>1, <2>2, <2>3, NamesAre
<1>6. CASE ~(x.S.kind = "struct" /\ x.S.name = "")
  <2>1. Names(x) = Unqualified(x) \cup Qualified(x)
    BY <1>6 DEF Names
  <2>2. Named(x.S, def, i, n) <=>
          \/ n = i + 1 /\ x.S.name = def[i + 1] /\ (n = Len(def) \/ def[n + 1] \in {":", ">"})
          \/ n = i + 3 /\ n <= Len(def) /\ def[i + 2] = "." /\ def[i + 3] \notin Punctuation /\ x.S.name = def[i + 3]
    BY <1>6 DEF Named
  <2>3. Seg(def, i, n) \in Names(x) /\ Ends(x, def, i, n) <=>
          i < Len(def) /\ def[i + 1] \in Words(x) /\ Named(x.S, def, i, n)
    <3>1. CASE n = i + 1
      <4>1. Seg(def, i, n) \in Names(x) <=> def[i + 1] \in Words(x) /\ def[i + 1] = x.S.name
        BY <1>0, <1>4, <2>1, <3>1, NamesAre
      <4>2. Ends(x, def, i, n) <=>
              (def[i + 1] \in Words(x) /\ def[i + 1] = x.S.name => n = Len(def) \/ def[n + 1] \in {":", ">"})
        BY <1>1, <3>1, NamesAre
      <4>3. Named(x.S, def, i, n) <=> x.S.name = def[i + 1] /\ (n = Len(def) \/ def[n + 1] \in {":", ">"})
        BY <1>4, <2>2, <3>1
      <4> QED
        BY <1>0, <3>1, <4>1, <4>2, <4>3
    <3>2. CASE n = i + 3
      <4>1. Seg(def, i, n) \in Names(x) <=>
              def[i + 1] \in Words(x) /\ def[i + 2] = "." /\ def[i + 3] \in Identifiers /\ def[i + 3] = x.S.name
        BY <1>0, <1>4, <2>1, <3>2, NamesAre
      <4>2. Ends(x, def, i, n)
        <5>1. Seg(def, i, n) \notin Unqualified(x)
          BY <1>4, <3>2, NamesAre, ZenonT(60)
        <5> QED
          BY <1>1, <5>1
      <4>3. Named(x.S, def, i, n) <=> def[i + 2] = "." /\ def[i + 3] \notin Punctuation /\ x.S.name = def[i + 3]
        BY <1>0, <1>4, <2>2, <3>2
      <4> QED
        BY <1>0, <1>3, <3>2, <4>1, <4>2, <4>3
    <3>3. CASE n # i + 1 /\ n # i + 3
      BY <2>1, <2>2, <3>3, NamesAre, ZenonT(60)
    <3> QED
      BY <3>1, <3>2, <3>3
  <2> QED
    BY <1>0, <1>1, <1>2, <2>3, NamesAre
<1> QED
  BY <1>5, <1>6

-----------------------------------------------------------------------------
(***************************************************************************)
(* The parser finds the types that texts say                               *)
(***************************************************************************)
\* The text of a tag says x from i to n, or there is none and x needs none.
Says(x, def, i, n) ==
    IF def = <<>> THEN ~NeedsText[x] /\ n = i
    ELSE n \in i..Len(def) /\ Seg(def, i, n) \in Texts[x] /\ Ends(x, def, i, n)

Right(go, f) ==
    \A def \in Text : \A i \in 0..Len(def) : \A b \in BOOLEAN : \A x, n :
        (go.kind = "ptr" => b) => (f[<<def, i, b>>] = Ok(x, n) <=> x \in Readings[go] /\ Says(x, def, i, n))

\* The texts of types by what the types are.
LEMMA TextsAre ==
    ASSUME NEW x \in Type
    PROVE  /\ x.T = "pointer" => Texts[x] = Texts[x.V] /\ (NeedsText[x] <=> NeedsText[x.V])
           /\ x.T \in {"set", "list"} => Texts[x] = ListTexts(x.T, Texts[x.V]) /\ NeedsText[x]
           /\ x.T = "map" => /\ Texts[x] = MapTexts({<<"map">>} \cup Qualified(x), Texts[x.K], Texts[x.V])
                             /\ NeedsText[x] <=> NeedsText[x.K] \/ NeedsText[x.V]
           /\ x.T = "enum" => Texts[x] = Names(x) /\ NeedsText[x]
           /\ x.T \notin {"pointer", "set", "list", "map", "enum"} =>
                 /\ Texts[x] = {<<k>> : k \in Keywords(x)}
                                 \cup IF x.T = "i64" /\ x.S # Int64 THEN {} ELSE Names(x)
                 /\ ~NeedsText[x]
           /\ Texts[x] \in SUBSET Seq(Tok)
<1>1. Texts[x] = TextsBy(Texts, x) /\ Texts[x] \in SUBSET Seq(Tok)
  BY TextsUnfold
<1>2. NeedsText[x] <=> NeedsBy(NeedsText, x)
  BY NeedsUnfold
<1>3. CASE x.T = "pointer"
  BY <1>1, <1>2, <1>3, TextsByIs DEF NeedsBy
<1>4. CASE x.T \in {"set", "list"}
  BY <1>1, <1>2, <1>4, TextsByIs DEF NeedsBy
<1>5. CASE x.T = "map"
  BY <1>1, <1>2, <1>5, TextsByIs DEF NeedsBy
<1>6. CASE x.T = "enum"
  BY <1>1, <1>2, <1>6, TextsByIs DEF NeedsBy
<1>7. CASE x.T \notin {"pointer", "set", "list", "map", "enum"}
  BY <1>1, <1>2, <1>7, TextsByIs DEF NeedsBy
<1> QED
  BY <1>3, <1>4, <1>5, <1>6, <1>7

\* Keywords and names.
LEMMA WordSaid ==
    ASSUME NEW x \in Type, x.T \notin {"pointer", "set", "list", "map"}, NEW tag \in DOMAIN Keyword,
           x.T = tag \/ (x.T = "enum" /\ tag = "i64" /\ x.S # Int64),
           NEW def \in Text, NEW i \in 0..Len(def), NEW n
    PROVE  MatchType(x.S, tag, def, i) = Ok(x.T, n) <=> Says(x, def, i, n)
<1>0. Len(def) \in Nat /\ i \in Nat /\ "enum" \notin DOMAIN Keyword
  BY TextIs DEF Keyword
<1>1. CASE def = <<>>
  <2>1. MatchType(x.S, tag, def, i) = Ok(tag, i)
    BY <1>1 DEF MatchType
  <2>2. MatchType(x.S, tag, def, i) = Ok(x.T, n) <=> x.T = tag /\ n = i
    BY <2>1, OkSame
  <2>3. NeedsText[x] <=> x.T = "enum"
    BY TextsAre
  <2> QED
    BY <1>0, <1>1, <2>2, <2>3 DEF Says
<1>2. CASE def # <<>>
  <2> DEFINE kw == def[i + 1] \in Keywords(x)
             word == def[i + 1] \in Words(x)
             named == Named(x.S, def, i, n)
             u == IF tag = "i64" /\ x.S # Int64 THEN "enum" ELSE tag
  <2>1. Keywords(x) = Keyword[tag]
    BY <1>0, KeywordsAre
  <2>2. word <=> def[i + 1] \notin Keyword[tag] /\ def[i + 1] \in Identifiers
    BY <2>1 DEF Words
  <2>3. MatchType(x.S, tag, def, i) = Ok(x.T, n) <=>
          i < Len(def) /\ ((kw /\ x.T = tag /\ n = i + 1) \/ (word /\ named /\ x.T = u))
    <3>1. MatchType(x.S, tag, def, i) = Ok(x.T, n) <=>
             /\ i < Len(def)
             /\ \/ def[i + 1] \in Keyword[tag] /\ x.T = tag /\ n = i + 1
                \/ /\ def[i + 1] \notin Keyword[tag] /\ def[i + 1] \in Identifiers /\ Named(x.S, def, i, n)
                   /\ x.T = IF tag = "i64" /\ x.S # Int64 THEN "enum" ELSE tag
      BY <1>0, <1>2, MatchTypeIs, ZenonT(60)
    <3> QED
      BY <2>1, <2>2, <3>1
  <2>4. Says(x, def, i, n) <=> n \in i..Len(def) /\ Seg(def, i, n) \in Texts[x] /\ Ends(x, def, i, n)
    BY <1>2 DEF Says
  <2>5. i < Len(def) /\ named => n \in i..Len(def)
    <3>1. named => n = i + 1 \/ (n = i + 3 /\ n <= Len(def))
      BY DEF Named
    <3> QED
      BY <1>0, <3>1
  <2>6. i < Len(def) /\ n = i + 1 => n \in i..Len(def)
    BY <1>0
  <2>7. ASSUME n \in i..Len(def)
        PROVE  /\ Seg(def, i, n) \in Names(x) /\ Ends(x, def, i, n) <=> i < Len(def) /\ word /\ named
               /\ Seg(def, i, n) \in {<<k>> : k \in Keywords(x)} => Ends(x, def, i, n)
               /\ Seg(def, i, n) \in {<<k>> : k \in Keywords(x)} <=> n = i + 1 /\ i < Len(def) /\ kw
    BY <2>7, NameSaid
  <2> HIDE DEF kw, word, named
  <2>8. CASE x.T = "enum"
    <3>1. Texts[x] = Names(x) /\ x.T # tag /\ x.T = u
      BY <1>0, <2>8, TextsAre, ZenonT(60)
    <3> QED
      BY <2>3, <2>4, <2>5, <2>7, <3>1
  <2>9. CASE x.T = "i64" /\ x.S # Int64
    <3>1. Texts[x] = {<<k>> : k \in Keywords(x)} /\ x.T = tag /\ x.T # u
      BY <2>9, TextsAre
    <3> QED
      BY <2>3, <2>4, <2>6, <2>7, <3>1
  <2>10. CASE x.T # "enum" /\ ~(x.T = "i64" /\ x.S # Int64)
    <3>1. Texts[x] = {<<k>> : k \in Keywords(x)} \cup Names(x) /\ x.T = tag /\ x.T = u
      BY <2>10, TextsAre
    <3> QED
      BY <2>3, <2>4, <2>5, <2>6, <2>7, <3>1
  <2> QED
    BY <2>8, <2>9, <2>10
<1> QED
  BY <1>1, <1>2

\* A pointer is said as what it points to.
LEMMA SaysPointer ==
    ASSUME NEW go \in GoType, NEW x, IsPointerTo(x, go), NEW def, NEW i, NEW n
    PROVE  Says(x, def, i, n) <=> Says(x.V, def, i, n)
<1>1. x \in Type /\ x.T = "pointer" /\ x.V \in Readings[go.elem] /\ go.elem \in GoType /\ go.elem.kind # "ptr"
  BY IsReading, ReadingType DEF IsPointerTo
<1>2. x.V.T # "pointer"
  BY <1>1, ReadingIs DEF IsPointerTo, IsBinary, IsListOrSet, IsMap, IsScalar, ScalarT
<1>3. Texts[x] = Texts[x.V] /\ (NeedsText[x] <=> NeedsText[x.V])
  BY <1>1, TextsAre
<1>4. Ends(x, def, i, n) <=> Ends(x.V, def, i, n)
  BY <1>1, <1>2 DEF Ends, Pointee
<1> QED
  BY <1>3, <1>4 DEF Says

PointerAt(elem, go, def, i) ==
    LET r == elem[<<def, i, FALSE>>]
    IN  IF r.st = "ok" THEN Ok([T |-> "pointer", S |-> go, V |-> r.x], r.i) ELSE r

LEMMA PointerRight ==
    ASSUME NEW go \in GoType, go.kind = "ptr", NEW elem \in ParserFor(go.elem), Right(go.elem, elem),
           NEW def \in Text, NEW i \in 0..Len(def), NEW x, NEW n
    PROVE  PointerAt(elem, go, def, i) = Ok(x, n) <=> x \in Readings[go] /\ Says(x, def, i, n)
<1> DEFINE r == elem[<<def, i, FALSE>>]
           p == PointerAt(elem, go, def, i)
           made(v) == [T |-> "pointer", S |-> go, V |-> v]
<1>0. go.elem \in GoType /\ i \in Nat
  BY GoTypeAssumption
<1>1. r \in Outcome(Readings[go.elem]) /\ (go.elem.kind = "ptr" => r = Panic)
  BY <1>0 DEF ParserFor
<1>2. p = IF r.st = "ok" THEN Ok(made(r.x), r.i) ELSE r
  BY DEF PointerAt
<1>3. ASSUME x \in Readings[go] PROVE IsPointerTo(x, go)
  BY <1>3, ReadingIs DEF IsBinary, IsListOrSet, IsMap, IsScalar, KindTag
<1>4. ASSUME go.elem.kind # "ptr", NEW v, NEW m
      PROVE  r = Ok(v, m) <=> v \in Readings[go.elem] /\ Says(v, def, i, m)
  BY <1>4 DEF Right
<1>5. ASSUME NEW v \in Readings[go.elem], go.elem.kind # "ptr" PROVE made(v) \in Readings[go] /\ IsPointerTo(made(v), go)
  <2>1. IsPointerTo(made(v), go)
    BY <1>0, <1>5 DEF IsPointerTo
  <2> QED
    BY <2>1, IsReading
<1> HIDE DEF r, p
<1>6. ASSUME p = Ok(x, n) PROVE x \in Readings[go] /\ Says(x, def, i, n)
  <2>1. r.st = "ok"
    BY <1>1, <1>2, <1>6, OutcomeIs, OkNot
  <2>2. go.elem.kind # "ptr"
    BY <1>1, <2>1, NotOk
  <2>3. r = Ok(r.x, r.i) /\ x = made(r.x) /\ n = r.i
    BY <1>1, <1>2, <1>6, <2>1, OutcomeIs, OkSame
  <2>4. r.x \in Readings[go.elem] /\ Says(r.x, def, i, n)
    BY <1>4, <2>2, <2>3
  <2>5. x \in Readings[go] /\ IsPointerTo(x, go) /\ x.V = r.x
    BY <1>5, <2>2, <2>3, <2>4
  <2> QED
    BY <2>4, <2>5, SaysPointer
<1>7. ASSUME x \in Readings[go], Says(x, def, i, n) PROVE p = Ok(x, n)
  <2>1. IsPointerTo(x, go)
    BY <1>3, <1>7
  <2>2. go.elem.kind # "ptr" /\ x.V \in Readings[go.elem] /\ x = made(x.V)
    BY <2>1 DEF IsPointerTo
  <2>3. r = Ok(x.V, n)
    BY <1>4, <1>7, <2>1, <2>2, SaysPointer
  <2> QED
    BY <1>2, <2>2, <2>3, OkIs
<1> QED
  BY <1>6, <1>7 DEF p

\* The types that are one word.
LEMMA WordRight ==
    ASSUME NEW go \in GoType, NEW tag \in DOMAIN Keyword \ {"map"},
           \A x : x \in Readings[go] <=>
                    x = [T |-> x.T, S |-> go] /\ (x.T = tag \/ (x.T = "enum" /\ tag = "i64" /\ go # Int64)),
           NEW def \in Text, NEW i \in 0..Len(def), NEW x, NEW n
    PROVE  LET r == MatchType(go, tag, def, i)
           IN  (IF r.st = "ok" THEN Ok([T |-> r.x, S |-> go], r.i) ELSE r) = Ok(x, n)
                 <=> x \in Readings[go] /\ Says(x, def, i, n)
<1> DEFINE r == MatchType(go, tag, def, i)
           made(t) == [T |-> t, S |-> go]
           p == IF r.st = "ok" THEN Ok(made(r.x), r.i) ELSE r
<1>1. r \in Outcome({tag} \cup IF tag = "i64" /\ go # Int64 THEN {"enum"} ELSE {})
  BY MatchTypeTyped
<1>2. "pointer" \notin DOMAIN Keyword /\ "set" \notin DOMAIN Keyword /\ "list" \notin DOMAIN Keyword
  BY DEF Keyword
<1>3. ASSUME NEW y \in Readings[go] PROVE r = Ok(y.T, n) <=> Says(y, def, i, n)
  <2>1. y \in Type /\ y.S = go
    BY ReadingType, ReadingIs
  <2>2. y.T = tag \/ (y.T = "enum" /\ tag = "i64" /\ y.S # Int64)
    BY <2>1
  <2>3. y.T \notin {"pointer", "set", "list", "map"}
    BY <1>2, <2>2
  <2> QED
    BY <2>1, <2>2, <2>3, WordSaid
<1> HIDE DEF r
<1>4. ASSUME p = Ok(x, n) PROVE x \in Readings[go] /\ Says(x, def, i, n)
  <2>1. r.st = "ok"
    BY <1>1, <1>4, OutcomeIs, OkNot
  <2>2. r = Ok(r.x, r.i) /\ x = made(r.x) /\ n = r.i /\ r.x \in {tag} \cup IF tag = "i64" /\ go # Int64 THEN {"enum"} ELSE {}
    BY <1>1, <1>4, <2>1, OutcomeIs, OkSame
  <2>3. x.T = r.x /\ x = [T |-> x.T, S |-> go]
    BY <2>2
  <2>4. x \in Readings[go]
    BY <2>2, <2>3
  <2> QED
    BY <1>3, <2>2, <2>3, <2>4
<1>5. ASSUME x \in Readings[go], Says(x, def, i, n) PROVE p = Ok(x, n)
  <2>1. r = Ok(x.T, n) /\ x = made(x.T)
    BY <1>3, <1>5
  <2> QED
    BY <2>1, OkIs
<1> QED
  BY <1>4, <1>5 DEF r

\* A text ends where it can before the end of an element or a key.
LEMMA EndsThere ==
    ASSUME NEW x, NEW def, NEW i, NEW n, def[n + 1] \in {":", ">"}
    PROVE  Ends(x, def, i, n)
BY DEF Ends

\* One more token that must follow.
LEMMA ExpectSaid ==
    ASSUME NEW def \in Text, def # <<>>, NEW i \in Nat, NEW tok \in {"<", ":", ">"}
    PROVE  /\ Expect(tok, def, i) = Err \/ Expect(tok, def, i) = Ok(tok, i + 1)
           /\ Expect(tok, def, i) = Ok(tok, i + 1) <=> i < Len(def) /\ def[i + 1] = tok
<1>1. tok \in Token
  BY DEF Token, Punctuation
<1>2. CASE i < Len(def) /\ def[i + 1] = tok
  BY <1>1, <1>2, ExpectIs
<1>3. CASE ~(i < Len(def) /\ def[i + 1] = tok)
  BY <1>1, <1>3, ExpectIs, OkNot
<1> QED
  BY <1>2, <1>3

\* What a list or a set is parsed from.
ListParsed(elem, go, def, i, x, n, v, m) ==
    /\ i + 2 <= Len(def) /\ def[i + 1] \in {"set", "list"} /\ def[i + 2] = "<"
    /\ elem[<<def, i + 2, TRUE>>] = Ok(v, m)
    /\ m < Len(def) /\ def[m + 1] = ">" /\ IsValueType(v)
    /\ x = [T |-> def[i + 1], S |-> go, V |-> v] /\ n = m + 1

LEMMA SliceParsed ==
    ASSUME NEW go \in GoType, go.kind = "slice", NEW elem \in ParserFor(go.elem),
           NEW def \in Text, def # <<>>, NEW i \in Nat, NEW x, NEW n
    PROVE  doParseSlice(elem, go, def, i) = Ok(x, n) <=> \E v, m : ListParsed(elem, go, def, i, x, n, v, m)
<1> DEFINE r1 == ReadToken(def, i)
           r2 == Expect("<", def, i + 1)
           r3 == elem[<<def, i + 2, TRUE>>]
           r4(m) == Expect(">", def, m)
           p == doParseSlice(elem, go, def, i)
           made(v) == [T |-> def[i + 1], S |-> go, V |-> v]
           after4(t, q3, q4) == IF q4.st # "ok" THEN q4
                                ELSE IF IsValueType(q3.x) THEN Ok([T |-> t, S |-> go, V |-> q3.x], q4.i) ELSE Err
           after3(t, q3) == IF q3.st # "ok" THEN q3 ELSE after4(t, q3, Expect(">", def, q3.i))
           after2(t, q2) == IF q2.st # "ok" THEN q2 ELSE after3(t, elem[<<def, q2.i, TRUE>>])
<1>0. Len(def) \in Nat /\ (i + 1) + 1 = i + 2 /\ i + 1 \in Nat /\ i + 2 \in Nat
      /\ (i + 2 <= Len(def) <=> i + 1 < Len(def)) /\ (i + 1 < Len(def) => i < Len(def))
  BY TextIs
<1>1. /\ i < Len(def) => r1 = Ok(def[i + 1], i + 1)
      /\ ~(i < Len(def)) => r1 = Err
  BY <1>0, ReadTokenIs
<1>2. /\ r2 = Err \/ r2 = Ok("<", i + 2)
      /\ r2 = Ok("<", i + 2) <=> i + 1 < Len(def) /\ def[i + 2] = "<"
  BY <1>0, ExpectSaid
<1>3. r3 \in Outcome(Readings[go.elem])
  BY <1>0 DEF ParserFor
<1>4. ASSUME NEW m \in Nat
      PROVE  /\ r4(m) = Err \/ r4(m) = Ok(">", m + 1)
             /\ r4(m) = Ok(">", m + 1) <=> m < Len(def) /\ def[m + 1] = ">"
  BY ExpectSaid
<1>5. /\ r3 = Err \/ r3 = Panic \/ r3 = Ok(r3.x, r3.i)
      /\ r3 = Ok(r3.x, r3.i) => r3.i \in Nat
  BY <1>3, OutcomeIs, OkIs
<1>6. p = IF r1.st # "ok" THEN r1
          ELSE IF r1.x \notin {"set", "list"} THEN Err ELSE after2(r1.x, Expect("<", def, r1.i))
  BY SliceSteps
<1>7. CASE ~(i < Len(def))
  <2>1. p = Err
    BY <1>1, <1>6, <1>7, NotOk
  <2>2. ~(i + 2 <= Len(def))
    BY <1>0, <1>7
  <2> QED
    BY <2>1, <2>2, OkNot DEF ListParsed
<1>8. CASE i < Len(def) /\ def[i + 1] \notin {"set", "list"}
  <2>1. p = Err
    <3> HIDE DEF p, r1, after2
    <3> QED
      BY <1>1, <1>6, <1>8, OkIs
  <2> QED
    BY <1>8, <2>1, OkNot DEF ListParsed
<1>9. CASE i < Len(def) /\ def[i + 1] \in {"set", "list"}
  <2>1. p = after2(def[i + 1], r2)
    <3> HIDE DEF p, r1, after2
    <3> QED
      BY <1>1, <1>6, <1>9, OkIs
  <2>2. CASE r2 = Err
    <3>1. p = Err
      BY <2>1, <2>2, NotOk
    <3> QED
      BY <1>0, <1>2, <2>2, <3>1, OkNot DEF ListParsed
  <2>3. CASE r2 = Ok("<", i + 2)
    <3>1. p = IF r3.st # "ok" THEN r3
              ELSE IF r4(r3.i).st # "ok" THEN r4(r3.i)
              ELSE IF IsValueType(r3.x) THEN Ok(made(r3.x), r4(r3.i).i) ELSE Err
      <4>1. p = after3(def[i + 1], r3)
        <5> HIDE DEF p, r2, after3
        <5>1. r2.st = "ok" /\ r2.i = i + 2
          BY <2>3, OkIs
        <5> QED
          BY <2>1, <5>1
      <4> QED
        BY <4>1
    <3>2. i + 2 <= Len(def) /\ def[i + 2] = "<"
      BY <1>0, <1>2, <2>3
    <3> DEFINE parsed(v, m) == r3 = Ok(v, m) /\ m < Len(def) /\ def[m + 1] = ">" /\ IsValueType(v) /\ x = made(v) /\ n = m + 1
    <3>3. ASSUME NEW v, NEW m PROVE ListParsed(elem, go, def, i, x, n, v, m) <=> parsed(v, m)
      BY <1>9, <3>2 DEF ListParsed
    <3> HIDE DEF r3, r4, made, p
    <3>4. CASE r3 = Err \/ r3 = Panic
      <4>1. p = r3
        BY <3>1, <3>4, NotOk
      <4>2. \A v, m : ~parsed(v, m)
        BY <3>4, OkNot
      <4> QED
        BY <3>3, <3>4, <4>1, <4>2, OkNot DEF p
    <3>5. CASE r3 = Ok(r3.x, r3.i)
      <4>1. r3.i \in Nat /\ r3.st = "ok"
        BY <1>5, <3>5, OkIs
      <4>2. r4(r3.i) = Err \/ r4(r3.i) = Ok(">", r3.i + 1)
        BY <1>4, <4>1
      <4>3. p = Ok(x, n) <=> r4(r3.i) = Ok(">", r3.i + 1) /\ IsValueType(r3.x) /\ x = made(r3.x) /\ n = r3.i + 1
        <5>1. CASE r4(r3.i) = Err
          <6>1. p = Err
            BY <3>1, <4>1, <5>1, NotOk
          <6> QED
            BY <5>1, <6>1, OkNot
        <5>2. CASE r4(r3.i) = Ok(">", r3.i + 1)
          <6>1. p = IF IsValueType(r3.x) THEN Ok(made(r3.x), r3.i + 1) ELSE Err
            BY <3>1, <4>1, <5>2, OkIs
          <6> QED
            BY <5>2, <6>1, OkNot, OkSame
        <5> QED
          BY <4>2, <5>1, <5>2
      <4>4. \A v, m : parsed(v, m) <=> v = r3.x /\ m = r3.i /\ parsed(r3.x, r3.i)
        BY <3>5, OkSame
      <4>5. parsed(r3.x, r3.i) <=> p = Ok(x, n)
        BY <1>4, <3>5, <4>1, <4>3
      <4> HIDE DEF parsed
      <4> QED
        BY <3>3, <4>4, <4>5 DEF p
    <3> QED
      BY <1>5, <3>4, <3>5
  <2> QED
    BY <1>2, <2>2, <2>3
<1> QED
  BY <1>7, <1>8, <1>9

LEMMA SliceRight ==
    ASSUME NEW go \in GoType, go.kind = "slice", go.elem # Byte, NEW elem \in ParserFor(go.elem), Right(go.elem, elem),
           NEW def \in Text, NEW i \in 0..Len(def), NEW x, NEW n
    PROVE  (IF def = <<>> THEN Err ELSE doParseSlice(elem, go, def, i)) = Ok(x, n)
             <=> x \in Readings[go] /\ Says(x, def, i, n)
<1>0. Len(def) \in Nat /\ i \in Nat /\ go.elem \in GoType
  BY TextIs, GoTypeAssumption
<1>1. ASSUME x \in Readings[go] PROVE IsListOrSet(x, go) /\ x \in Type
  BY <1>1, ReadingIs, ReadingType DEF IsPointerTo, IsBinary, IsMap, IsScalar, KindTag
<1>2. CASE def = <<>>
  <2>1. x \in Readings[go] => ~Says(x, def, i, n)
    BY <1>1, <1>2, TextsAre DEF Says, IsListOrSet
  <2> QED
    BY <1>2, <2>1, OkNot
<1>3. CASE def # <<>>
  <2>1. ASSUME i + 2 <= Len(def), NEW v, NEW m
        PROVE  elem[<<def, i + 2, TRUE>>] = Ok(v, m) <=> v \in Readings[go.elem] /\ Says(v, def, i + 2, m)
    <3>1. i + 2 \in 0..Len(def)
      BY <1>0, <2>1
    <3> QED
      BY <3>1 DEF Right
  <2>2. ASSUME NEW v \in Readings[go.elem], NEW m, def[m + 1] = ">"
        PROVE  Says(v, def, i + 2, m) <=> m \in (i + 2)..Len(def) /\ Seg(def, i + 2, m) \in Texts[v]
    BY <1>3, <2>2, EndsThere DEF Says
  <2>3. ASSUME NEW y, IsListOrSet(y, go), y \in Type
        PROVE  Says(y, def, i, n) <=>
                 n \in i..Len(def) /\ ListSaid(def, i, n, y.T, Texts[y.V])
    <3>1. y.T \in {"set", "list"} /\ y.V \in Type
      BY <1>0, <2>3, ReadingType DEF IsListOrSet
    <3>2. Texts[y] = ListTexts(y.T, Texts[y.V]) /\ Texts[y.V] \in SUBSET Seq(Tok)
      BY <2>3, <3>1, TextsAre
    <3>3. ASSUME n \in i..Len(def)
          PROVE  Seg(def, i, n) \in Texts[y] <=> ListSaid(def, i, n, y.T, Texts[y.V])
      <4>1. def \in Seq(Tok) /\ y.T \in Tok /\ "<" \in Tok /\ ">" \in Tok
        BY <3>1, TextIs, TokHas
      <4> QED
        BY <3>2, <3>3, <4>1, SaidList
    <3>4. ASSUME n \in i..Len(def), NEW m \in (i + 2)..n, n = m + 1 PROVE Ends(y, def, i, n)
      <4>1. n # i + 1
        BY <1>0, <3>4
      <4> QED
        BY <3>1, <3>4, <4>1, NameSaid
    <3> QED
      BY <1>3, <3>3, <3>4 DEF Says, ListSaid
  <2>4. ASSUME NEW v, NEW m, ListParsed(elem, go, def, i, x, n, v, m)
        PROVE  x \in Readings[go] /\ Says(x, def, i, n)
    <3>1. /\ i + 2 <= Len(def) /\ def[i + 1] \in {"set", "list"} /\ def[i + 2] = "<"
          /\ elem[<<def, i + 2, TRUE>>] = Ok(v, m)
          /\ m < Len(def) /\ def[m + 1] = ">" /\ IsValueType(v)
          /\ x = [T |-> def[i + 1], S |-> go, V |-> v] /\ n = m + 1
      BY <2>4 DEF ListParsed
    <3>2. v \in Readings[go.elem] /\ m \in (i + 2)..Len(def) /\ Seg(def, i + 2, m) \in Texts[v]
      BY <2>1, <2>2, <3>1
    <3>3. IsListOrSet(x, go) /\ x.T = def[i + 1] /\ x.V = v
      BY <1>0, <3>1, <3>2 DEF IsListOrSet
    <3>4. x \in Readings[go] /\ x \in Type
      BY <3>3, IsReading, ReadingType
    <3>5. n \in i..Len(def) /\ m \in (i + 2)..n
      BY <1>0, <3>1, <3>2
    <3> QED
      <4>1. ListSaid(def, i, n, x.T, Texts[x.V])
        BY <3>1, <3>2, <3>3, <3>5 DEF ListSaid
      <4> QED
        BY <2>3, <3>3, <3>4, <3>5, <4>1
  <2>5. ASSUME x \in Readings[go], Says(x, def, i, n)
        PROVE  \E v, m : ListParsed(elem, go, def, i, x, n, v, m)
    <3>1. IsListOrSet(x, go) /\ x \in Type
      BY <1>1, <2>5
    <3>2. n \in i..Len(def)
      BY <2>3, <2>5, <3>1
    <3>3. PICK m \in (i + 2)..n : /\ def[i + 1] = x.T /\ def[i + 2] = "<"
                                  /\ Seg(def, i + 2, m) \in Texts[x.V]
                                  /\ n = m + 1 /\ def[m + 1] = ">"
      BY <2>3, <2>5, <3>1 DEF ListSaid
    <3>4. m \in (i + 2)..Len(def) /\ m < Len(def) /\ i + 2 <= Len(def)
      BY <1>0, <3>2, <3>3
    <3>5. x.V \in Readings[go.elem] /\ IsValueType(x.V) /\ x.T \in {"set", "list"} /\ x = [T |-> x.T, S |-> go, V |-> x.V]
      BY <3>1 DEF IsListOrSet
    <3>6. elem[<<def, i + 2, TRUE>>] = Ok(x.V, m)
      BY <2>1, <2>2, <3>3, <3>4, <3>5
    <3> QED
      BY <3>3, <3>4, <3>5, <3>6 DEF ListParsed
  <2>6. doParseSlice(elem, go, def, i) = Ok(x, n) <=> \E v, m : ListParsed(elem, go, def, i, x, n, v, m)
    BY <1>0, <1>3, SliceParsed
  <2> QED
    BY <1>3, <2>4, <2>5, <2>6
<1> QED
  BY <1>2, <1>3

\* A token that must follow where there is a text, and what is after it.
There(def, i, tok) == def = <<>> \/ (i < Len(def) /\ def[i + 1] = tok)
After(def, i) == IF def = <<>> THEN i ELSE i + 1

LEMMA ExpectThere ==
    ASSUME NEW def \in Text, NEW i \in Nat, NEW tok \in {"<", ":", ">"}
    PROVE  /\ Expect(tok, def, i) = IF There(def, i, tok) THEN Ok(tok, After(def, i)) ELSE Err
           /\ After(def, i) \in Nat
<1>1. tok \in Token
  BY DEF Token, Punctuation
<1>2. CASE def = <<>>
  BY <1>1, <1>2, ExpectIs DEF There, After
<1>3. CASE def # <<>>
  <2>1. /\ Expect(tok, def, i) = Err \/ Expect(tok, def, i) = Ok(tok, i + 1)
        /\ Expect(tok, def, i) = Ok(tok, i + 1) <=> i < Len(def) /\ def[i + 1] = tok
    BY <1>3, ExpectSaid
  <2>2. There(def, i, tok) <=> i < Len(def) /\ def[i + 1] = tok
    BY <1>3 DEF There
  <2>3. After(def, i) = i + 1
    BY <1>3 DEF After
  <2> QED
    BY <2>1, <2>2, <2>3
<1> QED
  BY <1>2, <1>3

\* What a map is parsed from, after its head.
MapParsed(key, elem, go, def, i, x, n, k, l, v, m) ==
    /\ There(def, i, "<") /\ key[<<def, After(def, i), TRUE>>] = Ok(k, l) /\ IsKeyType(k)
    /\ There(def, l, ":") /\ elem[<<def, After(def, l), TRUE>>] = Ok(v, m) /\ IsValueType(v)
    /\ There(def, m, ">") /\ x = [T |-> "map", S |-> go, K |-> k, V |-> v] /\ n = After(def, m)

LEMMA MapIsParsed ==
    ASSUME NEW go \in GoType, NEW key \in ParserFor(go.key), NEW elem \in ParserFor(go.elem),
           NEW def \in Text, NEW i \in Nat, NEW x, NEW n
    PROVE  ParseMap(key, elem, go, def, i) = Ok(x, n) <=>
             \E k, l, v, m : MapParsed(key, elem, go, def, i, x, n, k, l, v, m)
<1> DEFINE made(k, v) == [T |-> "map", S |-> go, K |-> k, V |-> v]
           a5(k, v, q) == IF q.st # "ok" THEN q ELSE IF IsValueType(v) THEN Ok(made(k, v), q.i) ELSE Err
           a4(k, q) == IF q.st # "ok" THEN q ELSE a5(k, q.x, Expect(">", def, q.i))
           a3(k, q) == IF q.st # "ok" THEN q ELSE a4(k, elem[<<def, q.i, TRUE>>])
           a2(q) == IF q.st # "ok" THEN q ELSE IF ~IsKeyType(q.x) THEN Err ELSE a3(q.x, Expect(":", def, q.i))
           a1(q) == IF q.st # "ok" THEN q ELSE a2(key[<<def, q.i, TRUE>>])
           c5(k, v, m) == There(def, m, ">") /\ IsValueType(v) /\ x = made(k, v) /\ n = After(def, m)
           c4(k, l) == There(def, l, ":") /\ \E v, m : elem[<<def, After(def, l), TRUE>>] = Ok(v, m) /\ c5(k, v, m)
<1>1. ParseMap(key, elem, go, def, i) = a1(Expect("<", def, i))
  BY MapSteps
<1>2. ASSUME NEW q, q \in {Err, Panic} PROVE q.st # "ok" /\ q # Ok(x, n)
  BY <1>2, NotOk, OkNot
<1>3. ASSUME NEW k, NEW v, NEW m \in Nat
      PROVE  a5(k, v, Expect(">", def, m)) = Ok(x, n) <=> c5(k, v, m)
  <2> DEFINE q == Expect(">", def, m)
  <2>1. q = IF There(def, m, ">") THEN Ok(">", After(def, m)) ELSE Err
    BY ExpectThere
  <2> HIDE DEF q, made
  <2>2. CASE There(def, m, ">")
    <3>1. q.st = "ok" /\ q.i = After(def, m)
      BY <2>1, <2>2, OkIs
    <3> QED
      BY <2>2, <3>1, OkSame, OkNot DEF q
  <2>3. CASE ~There(def, m, ">")
    BY <1>2, <2>1, <2>3 DEF q
  <2> QED
    BY <2>2, <2>3
<1>4. ASSUME NEW k, NEW q \in Outcome(Readings[go.elem])
      PROVE  a4(k, q) = Ok(x, n) <=> \E v, m : q = Ok(v, m) /\ c5(k, v, m)
  <2> HIDE DEF a5, c5
  <2>1. CASE q \in {Err, Panic}
    BY <1>2, <2>1, OkNot
  <2>2. CASE q.st = "ok"
    <3>1. q = Ok(q.x, q.i) /\ q.i \in Nat
      BY <2>2, OutcomeIs
    <3>2. a4(k, q) = Ok(x, n) <=> c5(k, q.x, q.i)
      BY <1>3, <2>2, <3>1
    <3>3. \A v, m : q = Ok(v, m) => v = q.x /\ m = q.i
      BY OkIs
    <3> HIDE DEF a4
    <3> QED
      BY <3>1, <3>2, <3>3
  <2> QED
    BY <2>1, <2>2, OutcomeIs
<1>5. ASSUME NEW k, NEW l \in Nat
      PROVE  a3(k, Expect(":", def, l)) = Ok(x, n) <=> c4(k, l)
  <2> DEFINE q == Expect(":", def, l)
  <2>1. q = IF There(def, l, ":") THEN Ok(":", After(def, l)) ELSE Err
    BY ExpectThere
  <2>2. After(def, l) \in Nat
    BY ExpectThere
  <2>3. elem[<<def, After(def, l), TRUE>>] \in Outcome(Readings[go.elem])
    BY <2>2 DEF ParserFor
  <2> HIDE DEF q, a4, c5
  <2>4. CASE There(def, l, ":")
    <3>1. q.st = "ok" /\ q.i = After(def, l)
      BY <2>1, <2>4, OkIs
    <3>2. a3(k, q) = a4(k, elem[<<def, After(def, l), TRUE>>])
      BY <3>1
    <3> HIDE DEF a3
    <3> QED
      BY <1>4, <2>3, <2>4, <3>2 DEF q
  <2>5. CASE ~There(def, l, ":")
    BY <1>2, <2>1, <2>5 DEF q
  <2> QED
    BY <2>4, <2>5
<1>6. ASSUME NEW q \in Outcome(Readings[go.key])
      PROVE  a2(q) = Ok(x, n) <=> \E k, l : q = Ok(k, l) /\ IsKeyType(k) /\ c4(k, l)
  <2> HIDE DEF a3, c4
  <2>1. CASE q \in {Err, Panic}
    BY <1>2, <2>1, OkNot
  <2>2. CASE q.st = "ok"
    <3>1. q = Ok(q.x, q.i) /\ q.i \in Nat
      BY <2>2, OutcomeIs
    <3>2. a2(q) = Ok(x, n) <=> IsKeyType(q.x) /\ c4(q.x, q.i)
      BY <1>5, <2>2, <3>1, OkNot
    <3>3. \A k, l : q = Ok(k, l) => k = q.x /\ l = q.i
      BY OkIs
    <3> HIDE DEF a2
    <3> QED
      BY <3>1, <3>2, <3>3
  <2> QED
    BY <2>1, <2>2, OutcomeIs
<1>7. a1(Expect("<", def, i)) = Ok(x, n) <=>
        There(def, i, "<") /\ \E k, l : key[<<def, After(def, i), TRUE>>] = Ok(k, l) /\ IsKeyType(k) /\ c4(k, l)
  <2> DEFINE q == Expect("<", def, i)
  <2>1. q = IF There(def, i, "<") THEN Ok("<", After(def, i)) ELSE Err
    BY ExpectThere
  <2>2. After(def, i) \in Nat
    BY ExpectThere
  <2>3. key[<<def, After(def, i), TRUE>>] \in Outcome(Readings[go.key])
    BY <2>2 DEF ParserFor
  <2> HIDE DEF q, a2, c4
  <2>4. CASE There(def, i, "<")
    <3>1. q.st = "ok" /\ q.i = After(def, i)
      BY <2>1, <2>4, OkIs
    <3>2. a1(q) = a2(key[<<def, After(def, i), TRUE>>])
      BY <3>1
    <3> HIDE DEF a1
    <3> QED
      BY <1>6, <2>3, <2>4, <3>2 DEF q
  <2>5. CASE ~There(def, i, "<")
    BY <1>2, <2>1, <2>5 DEF q
  <2> QED
    BY <2>4, <2>5
<1> HIDE DEF a1
<1> QED
  BY <1>1, <1>7 DEF MapParsed

\* The tag a name or keyword gives when it is no enum in disguise: the one asked for.
LEMMA MatchSelf ==
    ASSUME NEW vt, NEW tag, tag # "i64", NEW def \in Text, def # <<>>, NEW i \in Nat, NEW n
    PROVE  MatchType(vt, tag, def, i) = Ok(tag, n) <=>
             /\ i < Len(def)
             /\ \/ def[i + 1] \in Keyword[tag] /\ n = i + 1
                \/ def[i + 1] \notin Keyword[tag] /\ def[i + 1] \in Identifiers /\ Named(vt, def, i, n)
<1>1. MatchType(vt, tag, def, i) = Ok(tag, n) <=>
             /\ i < Len(def)
             /\ \/ def[i + 1] \in Keyword[tag] /\ tag = tag /\ n = i + 1
                \/ /\ def[i + 1] \notin Keyword[tag] /\ def[i + 1] \in Identifiers /\ Named(vt, def, i, n)
                   /\ tag = IF tag = "i64" /\ vt # Int64 THEN "enum" ELSE tag
  BY MatchTypeIs, ZenonT(60)
<1> QED
  BY <1>1

LEMMA MatchMap ==
    ASSUME NEW vt, NEW def \in Text, def # <<>>, NEW i \in Nat, NEW n
    PROVE  MatchType(vt, "map", def, i) = Ok("map", n) <=>
             /\ i < Len(def)
             /\ \/ def[i + 1] \in Keyword["map"] /\ n = i + 1
                \/ def[i + 1] \notin Keyword["map"] /\ def[i + 1] \in Identifiers /\ Named(vt, def, i, n)
<1> DEFINE tag == "map"
<1>1. tag # "i64"
  OBVIOUS
<1> HIDE DEF tag
<1>2. MatchType(vt, tag, def, i) = Ok(tag, n) <=>
             /\ i < Len(def)
             /\ \/ def[i + 1] \in Keyword[tag] /\ n = i + 1
                \/ def[i + 1] \notin Keyword[tag] /\ def[i + 1] \in Identifiers /\ Named(vt, def, i, n)
  BY <1>1, MatchSelf, ZenonT(60)
<1> USE DEF tag
<1> QED
  BY <1>2

\* The texts that are a qualified name.
LEMMA QualifiedAre ==
    ASSUME NEW x, NEW def \in Text, NEW i \in 0..Len(def), NEW n \in i..Len(def)
    PROVE  Seg(def, i, n) \in Qualified(x) <=>
             /\ n = i + 3 /\ def[i + 1] \in Words(x) /\ def[i + 2] = "."
             /\ def[i + 3] \in Identifiers /\ def[i + 3] = x.S.name
BY NamesAre, ZenonT(60)

\* Before the key, the word map or a qualified name.
LEMMA HeadSaid ==
    ASSUME NEW x, x.T = "map", NEW go, go.kind = "map", x.S = go,
           NEW def \in Text, def # <<>>, NEW i \in 0..Len(def), NEW j, j < Len(def), def[j + 1] = "<"
    PROVE  MatchType(go, "map", def, i) = Ok("map", j) <=>
             j \in i..Len(def) /\ Seg(def, i, j) \in {<<"map">>} \cup Qualified(x)
<1>0. Len(def) \in Nat /\ i \in Nat
  BY TextIs
<1>1. Keywords(x) = {"map"} /\ Keyword["map"] = {"map"}
  BY KeywordsAre DEF Keyword
<1>2. def[i + 1] \in Words(x) <=> def[i + 1] \notin Keyword["map"] /\ def[i + 1] \in Identifiers
  BY <1>1 DEF Words
<1>3. MatchType(go, "map", def, i) = Ok("map", j) <=>
        /\ i < Len(def)
        /\ (def[i + 1] = "map" /\ j = i + 1) \/ (def[i + 1] \in Words(x) /\ Named(go, def, i, j))
  <2>1. MatchType(go, "map", def, i) = Ok("map", j) <=>
             /\ i < Len(def)
             /\ \/ def[i + 1] \in Keyword["map"] /\ j = i + 1
                \/ def[i + 1] \notin Keyword["map"] /\ def[i + 1] \in Identifiers /\ Named(go, def, i, j)
    BY <1>0, MatchMap, ZenonT(60)
  <2> QED
    BY <1>1, <1>2, <2>1
<1>4. Named(go, def, i, j) <=>
        j = i + 3 /\ j <= Len(def) /\ def[i + 2] = "." /\ def[i + 3] \notin Punctuation /\ go.name = def[i + 3]
  <2>1. j # Len(def)
    BY <1>0
  <2>2. ~(go.kind = "struct" /\ go.name = "")
    OBVIOUS
  <2> QED
    BY <2>1, <2>2 DEF Named
<1>5. j = i + 1 \/ j = i + 3 => (j \in i..Len(def) <=> j <= Len(def)) /\ (j <= Len(def) => i < Len(def))
  BY <1>0
<1>6. j = i + 3 /\ j <= Len(def) => (def[i + 3] \in Identifiers <=> def[i + 3] \notin Punctuation)
  <2>1. j = i + 3 /\ j <= Len(def) => i + 3 \in 1..Len(def)
    BY <1>0
  <2>2. j = i + 3 /\ j <= Len(def) => def[i + 3] \in Token
    BY <2>1, TextIs
  <2> QED
    BY <2>2, TokenAssumption DEF Token
<1>7. ASSUME j \in i..Len(def)
      PROVE  Seg(def, i, j) \in {<<"map">>} \cup Qualified(x) <=>
               \/ j = i + 1 /\ def[i + 1] = "map"
               \/ /\ j = i + 3 /\ def[i + 1] \in Words(x) /\ def[i + 2] = "."
                  /\ def[i + 3] \in Identifiers /\ def[i + 3] = go.name
  <2>1. Seg(def, i, j) = <<"map">> <=> j = i + 1 /\ def[i + 1] = "map"
    <3>1. def \in Seq(Tok) /\ "map" \in Tok
      BY TextIs, TokHas
    <3> QED
      BY <1>7, <3>1, SegOne
  <2>2. Seg(def, i, j) \in Qualified(x) <=>
          j = i + 3 /\ def[i + 1] \in Words(x) /\ def[i + 2] = "." /\ def[i + 3] \in Identifiers /\ def[i + 3] = go.name
    <3>1. Seg(def, i, j) \in Qualified(x) <=>
            /\ j = i + 3 /\ def[i + 1] \in Words(x) /\ def[i + 2] = "."
            /\ def[i + 3] \in Identifiers /\ def[i + 3] = x.S.name
      BY <1>7, QualifiedAre, ZenonT(60)
    <3> QED
      BY <3>1
  <2> HIDE DEF Seg
  <2> QED
    BY <2>1, <2>2
<1>8. j = i + 1 \/ j = i + 3 => (j < Len(def) => j \in i..Len(def) /\ j <= Len(def) /\ i < Len(def))
  BY <1>0
<1> DEFINE map == j = i + 1 /\ def[i + 1] = "map"
           name == /\ j = i + 3 /\ def[i + 1] \in Words(x) /\ def[i + 2] = "."
                   /\ def[i + 3] \in Identifiers /\ def[i + 3] = go.name
<1>9. MatchType(go, "map", def, i) = Ok("map", j) <=> map \/ name
  <2>1. def[i + 1] \in Words(x) /\ Named(go, def, i, j) <=> name
    BY <1>4, <1>6, <1>8
  <2>2. map \/ name => i < Len(def)
    BY <1>8
  <2>3. map <=> def[i + 1] = "map" /\ j = i + 1
    OBVIOUS
  <2> HIDE DEF map, name
  <2> QED
    BY <1>3, <2>1, <2>2, <2>3
<1>10. map \/ name => j \in i..Len(def)
  BY <1>8
<1>11. j \in i..Len(def) => (Seg(def, i, j) \in {<<"map">>} \cup Qualified(x) <=> map \/ name)
  BY <1>7
<1> HIDE DEF map, name
<1> QED
  BY <1>9, <1>10, <1>11

\* A key or an element ends where the punctuation after it is.
PartIs(g, f, def, a, v, m) ==
    f[<<def, a, TRUE>>] = Ok(v, m) <=> v \in Readings[g] /\ m \in a..Len(def) /\ Seg(def, a, m) \in Texts[v]

LEMMA PartSaid ==
    ASSUME NEW g, NEW f, Right(g, f), NEW def \in Text, def # <<>>, NEW a \in 0..Len(def),
           NEW v, NEW m, def[m + 1] = ":" \/ def[m + 1] = ">"
    PROVE  PartIs(g, f, def, a, v, m)
<1>1. f[<<def, a, TRUE>>] = Ok(v, m) <=> v \in Readings[g] /\ Says(v, def, a, m)
  BY DEF Right
<1>2. Says(v, def, a, m) <=> m \in a..Len(def) /\ Seg(def, a, m) \in Texts[v]
  BY EndsThere DEF Says
<1> QED
  BY <1>1, <1>2 DEF PartIs

NoText(def) == def = <<>>
NothingIs(g, f, def, a, v, m) == f[<<def, a, TRUE>>] = Ok(v, m) <=> v \in Readings[g] /\ ~NeedsText[v] /\ m = a

LEMMA SaysNothing ==
    ASSUME NEW g, NEW f, Right(g, f), NEW def \in Text, NoText(def), NEW a \in 0..Len(def), NEW v, NEW m
    PROVE  NothingIs(g, f, def, a, v, m)
<1>1. f[<<def, a, TRUE>>] = Ok(v, m) <=> v \in Readings[g] /\ Says(v, def, a, m)
  BY DEF Right
<1>2. Says(v, def, a, m) <=> ~NeedsText[v] /\ m = a
  BY DEF Says, NoText
<1> QED
  BY <1>1, <1>2 DEF NothingIs

\* A map with a text.
MapHeads(x) == {<<"map">>} \cup Qualified(x)

LEMMA MapSays ==
    ASSUME NEW go \in GoType, NEW x, IsMap(x, go), NEW def \in Text, def # <<>>, NEW i \in 0..Len(def), NEW n
    PROVE  Says(x, def, i, n) <=>
             n \in i..Len(def) /\ MapSaid(def, i, n, MapHeads(x), Texts[x.K], Texts[x.V])
<1>0. Len(def) \in Nat /\ i \in Nat /\ x.T = "map"
  BY TextIs DEF IsMap
<1>1. x \in Type /\ x.K \in Type /\ x.V \in Type
  BY IsReading, ReadingType DEF IsMap
<1>2. Texts[x] = MapTexts(MapHeads(x), Texts[x.K], Texts[x.V])
  BY <1>0, <1>1, TextsAre DEF MapHeads
<1>3. Texts[x.K] \in SUBSET Seq(Tok) /\ Texts[x.V] \in SUBSET Seq(Tok) /\ MapHeads(x) \in SUBSET Seq(Tok)
  <2>1. <<"map">> \in Seq(Tok)
    BY TokHas, SingleSeq
  <2> QED
    BY <1>1, <2>1, TextsAre, NamesTyped DEF MapHeads
<1>4. ASSUME n \in i..Len(def)
      PROVE  Seg(def, i, n) \in Texts[x] <=> MapSaid(def, i, n, MapHeads(x), Texts[x.K], Texts[x.V])
  <2>1. def \in Seq(Tok) /\ "<" \in Tok /\ ":" \in Tok /\ ">" \in Tok
    BY TextIs, TokHas
  <2> QED
    BY <1>2, <1>3, <1>4, <2>1, SaidMap
<1>5. ASSUME n \in i..Len(def), NEW j \in i..n, NEW k \in i..n, NEW m \in i..n, j + 1 <= k, k + 1 <= m, n = m + 1
      PROVE  Ends(x, def, i, n)
  <2>1. n # i + 1
    BY <1>0, <1>5
  <2>2. x.T # "pointer"
    BY <1>0
  <2> QED
    BY <1>5, <2>1, <2>2, NameSaid
<1>6. n \in i..Len(def) /\ MapSaid(def, i, n, MapHeads(x), Texts[x.K], Texts[x.V]) => Ends(x, def, i, n)
  BY <1>5 DEF MapSaid
<1> QED
  BY <1>4, <1>6 DEF Says

LEMMA MapTextRight ==
    ASSUME NEW go \in GoType, go.kind = "map",
           NEW key \in ParserFor(go.key), NEW elem \in ParserFor(go.elem), Right(go.key, key), Right(go.elem, elem),
           NEW def \in Text, def # <<>>, NEW i \in 0..Len(def), NEW x, NEW n
    PROVE  (\E j, k, l, v, m : MatchType(go, "map", def, i) = Ok("map", j) /\ MapParsed(key, elem, go, def, j, x, n, k, l, v, m))
             <=> x \in Readings[go] /\ Says(x, def, i, n)
<1>0. Len(def) \in Nat /\ i \in Nat /\ go.elem \in GoType /\ go.key \in GoType
  BY TextIs, GoTypeAssumption
<1>1. ASSUME NEW j, NEW k, NEW l, NEW v, NEW m,
             MatchType(go, "map", def, i) = Ok("map", j), MapParsed(key, elem, go, def, j, x, n, k, l, v, m)
      PROVE  x \in Readings[go] /\ Says(x, def, i, n)
  <2>1. /\ j < Len(def) /\ def[j + 1] = "<" /\ key[<<def, j + 1, TRUE>>] = Ok(k, l) /\ IsKeyType(k)
        /\ l < Len(def) /\ def[l + 1] = ":" /\ elem[<<def, l + 1, TRUE>>] = Ok(v, m) /\ IsValueType(v)
        /\ m < Len(def) /\ def[m + 1] = ">" /\ x = [T |-> "map", S |-> go, K |-> k, V |-> v] /\ n = m + 1
    BY <1>1 DEF MapParsed, There, After
  <2>2. x.T = "map" /\ x.S = go /\ x.K = k /\ x.V = v
    BY <2>1
  <2>3. j \in i..Len(def) /\ Seg(def, i, j) \in MapHeads(x)
    BY <1>1, <2>1, <2>2, HeadSaid DEF MapHeads
  <2>4. k \in Readings[go.key] /\ l \in (j + 1)..Len(def) /\ Seg(def, j + 1, l) \in Texts[k]
    <3>1. j + 1 \in 0..Len(def)
      BY <1>0, <2>1, <2>3
    <3>3. PartIs(go.key, key, def, j + 1, k, l)
      BY <2>1, <3>1, PartSaid
    <3> QED
      BY <2>1, <3>3 DEF PartIs
  <2>5. v \in Readings[go.elem] /\ m \in (l + 1)..Len(def) /\ Seg(def, l + 1, m) \in Texts[v]
    <3>1. l + 1 \in 0..Len(def)
      BY <1>0, <2>1, <2>3, <2>4
    <3>3. PartIs(go.elem, elem, def, l + 1, v, m)
      BY <2>1, <3>1, PartSaid
    <3> QED
      BY <2>1, <3>3 DEF PartIs
  <2>6. IsMap(x, go)
    BY <1>0, <2>1, <2>2, <2>4, <2>5 DEF IsMap
  <2>7. n \in i..Len(def) /\ j \in i..n /\ l \in i..n /\ m \in i..n /\ j + 1 <= l /\ l + 1 <= m
    BY <1>0, <2>1, <2>3, <2>4, <2>5
  <2>8. MapSaid(def, i, n, MapHeads(x), Texts[x.K], Texts[x.V])
    BY <2>1, <2>2, <2>3, <2>4, <2>5, <2>7 DEF MapSaid
  <2> QED
    BY <2>6, <2>7, <2>8, MapSays, IsReading
<1>2. ASSUME x \in Readings[go], Says(x, def, i, n)
      PROVE  \E j, k, l, v, m : MatchType(go, "map", def, i) = Ok("map", j) /\ MapParsed(key, elem, go, def, j, x, n, k, l, v, m)
  <2>1. IsMap(x, go)
    BY <1>2, ReadingIs DEF IsPointerTo, IsBinary, IsListOrSet, IsScalar
  <2>2. n \in i..Len(def) /\ MapSaid(def, i, n, MapHeads(x), Texts[x.K], Texts[x.V])
    BY <1>2, <2>1, MapSays
  <2>3. PICK j \in i..n, l \in i..n, m \in i..n :
           /\ Seg(def, i, j) \in MapHeads(x) /\ def[j + 1] = "<"
           /\ j + 1 <= l /\ Seg(def, j + 1, l) \in Texts[x.K] /\ def[l + 1] = ":"
           /\ l + 1 <= m /\ Seg(def, l + 1, m) \in Texts[x.V] /\ n = m + 1 /\ def[m + 1] = ">"
    BY <2>2 DEF MapSaid
  <2>4. /\ x = [T |-> "map", S |-> go, K |-> x.K, V |-> x.V] /\ x.T = "map" /\ x.S = go
        /\ x.K \in Readings[go.key] /\ IsKeyType(x.K) /\ x.V \in Readings[go.elem] /\ IsValueType(x.V)
    BY <2>1 DEF IsMap
  <2>5. /\ j < Len(def) /\ l < Len(def) /\ m < Len(def) /\ j \in i..Len(def)
        /\ j + 1 \in 0..Len(def) /\ l + 1 \in 0..Len(def)
        /\ l \in (j + 1)..Len(def) /\ m \in (l + 1)..Len(def)
    BY <1>0, <2>2, <2>3
  <2>6. MatchType(go, "map", def, i) = Ok("map", j)
    BY <2>3, <2>4, <2>5, HeadSaid DEF MapHeads
  <2>7. key[<<def, j + 1, TRUE>>] = Ok(x.K, l)
    <3>2. PartIs(go.key, key, def, j + 1, x.K, l)
      BY <2>3, <2>5, PartSaid
    <3> QED
      BY <2>3, <2>4, <2>5, <3>2 DEF PartIs
  <2>8. elem[<<def, l + 1, TRUE>>] = Ok(x.V, m)
    <3>2. PartIs(go.elem, elem, def, l + 1, x.V, m)
      BY <2>3, <2>5, PartSaid
    <3> QED
      BY <2>3, <2>4, <2>5, <3>2 DEF PartIs
  <2>9. MapParsed(key, elem, go, def, j, x, n, x.K, l, x.V, m)
    BY <2>3, <2>4, <2>5, <2>7, <2>8 DEF MapParsed, There, After
  <2> QED
    BY <2>6, <2>9
<1> QED
  BY <1>1, <1>2

\* A map without a text.
LEMMA MapNoTextRight ==
    ASSUME NEW go \in GoType, go.kind = "map",
           NEW key \in ParserFor(go.key), NEW elem \in ParserFor(go.elem), Right(go.key, key), Right(go.elem, elem),
           NEW def \in Text, NoText(def), NEW i \in 0..Len(def), NEW x, NEW n
    PROVE  (\E j, k, l, v, m : MatchType(go, "map", def, i) = Ok("map", j) /\ MapParsed(key, elem, go, def, j, x, n, k, l, v, m))
             <=> x \in Readings[go] /\ Says(x, def, i, n)
<1>0. i \in Nat /\ go.elem \in GoType /\ go.key \in GoType
  BY TextIs, GoTypeAssumption
<1>1. \A j : MatchType(go, "map", def, i) = Ok("map", j) <=> j = i
  <2>1. MatchType(go, "map", def, i) = Ok("map", i)
    BY DEF MatchType, NoText
  <2> QED
    BY <2>1, OkSame
<1>2. \A k, l : key[<<def, i, TRUE>>] = Ok(k, l) <=> k \in Readings[go.key] /\ ~NeedsText[k] /\ l = i
  <2>1. \A k, l : NothingIs(go.key, key, def, i, k, l)
    BY SaysNothing
  <2> QED
    BY <2>1 DEF NothingIs
<1>3. \A v, m : elem[<<def, i, TRUE>>] = Ok(v, m) <=> v \in Readings[go.elem] /\ ~NeedsText[v] /\ m = i
  <2>1. \A v, m : NothingIs(go.elem, elem, def, i, v, m)
    BY SaysNothing
  <2> QED
    BY <2>1 DEF NothingIs
<1>4. ASSUME NEW k, NEW l, NEW v, NEW m
      PROVE  MapParsed(key, elem, go, def, i, x, n, k, l, v, m) <=>
               /\ key[<<def, i, TRUE>>] = Ok(k, l) /\ IsKeyType(k)
               /\ elem[<<def, l, TRUE>>] = Ok(v, m) /\ IsValueType(v)
               /\ x = [T |-> "map", S |-> go, K |-> k, V |-> v] /\ n = m
  BY DEF MapParsed, There, After, NoText
<1>5. ASSUME IsMap(x, go) PROVE x \in Readings[go] /\ (Says(x, def, i, n) <=> ~NeedsText[x.K] /\ ~NeedsText[x.V] /\ n = i)
  <2>1. x \in Readings[go] /\ x \in Type /\ x.T = "map"
    BY <1>5, IsReading, ReadingType DEF IsMap
  <2> QED
    BY <2>1, TextsAre DEF Says, NoText
<1>6. x \in Readings[go] => IsMap(x, go)
  BY ReadingIs DEF IsPointerTo, IsBinary, IsListOrSet, IsScalar
<1>7. ASSUME NEW j, NEW k, NEW l, NEW v, NEW m,
             MatchType(go, "map", def, i) = Ok("map", j), MapParsed(key, elem, go, def, j, x, n, k, l, v, m)
      PROVE  x \in Readings[go] /\ Says(x, def, i, n)
  <2>1. /\ k \in Readings[go.key] /\ ~NeedsText[k] /\ IsKeyType(k) /\ l = i
        /\ v \in Readings[go.elem] /\ ~NeedsText[v] /\ IsValueType(v) /\ m = i
        /\ x = [T |-> "map", S |-> go, K |-> k, V |-> v] /\ n = i
    <3>1. j = i
      BY <1>1, <1>7
    <3>5. MapParsed(key, elem, go, def, i, x, n, k, l, v, m)
      BY <1>7, <3>1
    <3>2. /\ key[<<def, i, TRUE>>] = Ok(k, l) /\ IsKeyType(k)
          /\ elem[<<def, l, TRUE>>] = Ok(v, m) /\ IsValueType(v)
          /\ x = [T |-> "map", S |-> go, K |-> k, V |-> v] /\ n = m
      BY <3>5 DEF MapParsed, There, After, NoText
    <3>3. k \in Readings[go.key] /\ ~NeedsText[k] /\ l = i
      BY <1>2, <3>2
    <3>4. v \in Readings[go.elem] /\ ~NeedsText[v] /\ m = i
      BY <1>3, <3>2, <3>3
    <3> QED
      BY <3>2, <3>3, <3>4
  <2>2. x.K = k /\ x.V = v /\ IsMap(x, go)
    BY <1>0, <2>1 DEF IsMap
  <2> QED
    BY <1>5, <2>1, <2>2
<1>8. ASSUME x \in Readings[go], Says(x, def, i, n)
      PROVE  \E j, k, l, v, m : MatchType(go, "map", def, i) = Ok("map", j) /\ MapParsed(key, elem, go, def, j, x, n, k, l, v, m)
  <2>1. IsMap(x, go) /\ ~NeedsText[x.K] /\ ~NeedsText[x.V] /\ n = i
    BY <1>5, <1>6, <1>8
  <2>2. key[<<def, i, TRUE>>] = Ok(x.K, i) /\ elem[<<def, i, TRUE>>] = Ok(x.V, i)
    BY <1>2, <1>3, <2>1 DEF IsMap
  <2>3. MapParsed(key, elem, go, def, i, x, n, x.K, i, x.V, i)
    BY <1>4, <2>1, <2>2 DEF IsMap
  <2> QED
    BY <1>1, <2>3
<1> QED
  BY <1>7, <1>8

LEMMA MapRight ==
    ASSUME NEW go \in GoType, go.kind = "map",
           NEW key \in ParserFor(go.key), NEW elem \in ParserFor(go.elem), Right(go.key, key), Right(go.elem, elem),
           NEW def \in Text, NEW i \in 0..Len(def), NEW x, NEW n
    PROVE  LET r == MatchType(go, "map", def, i)
           IN  (IF r.st = "ok" THEN IF r.x = "map" THEN ParseMap(key, elem, go, def, r.i) ELSE Ok([T |-> r.x, S |-> go], r.i)
                ELSE r) = Ok(x, n)
                 <=> x \in Readings[go] /\ Says(x, def, i, n)
<1> DEFINE r == MatchType(go, "map", def, i)
           p == IF r.st = "ok" THEN IF r.x = "map" THEN ParseMap(key, elem, go, def, r.i) ELSE Ok([T |-> r.x, S |-> go], r.i)
                ELSE r
           from(j) == \E k, l, v, m : MapParsed(key, elem, go, def, j, x, n, k, l, v, m)
<1>1. r \in Outcome({"map"})
  <2>1. i \in Nat
    BY TextIs
  <2>2. r \in Outcome({"map"} \cup IF "map" = "i64" /\ go # Int64 THEN {"enum"} ELSE {})
    BY <2>1, MatchTypeTyped
  <2> QED
    BY <2>2
<1> HIDE DEF r
<1>2. p = Ok(x, n) <=> \E j : r = Ok("map", j) /\ from(j)
  <2>1. CASE r.st = "ok"
    <3>1. r = Ok("map", r.i) /\ r.x = "map" /\ r.i \in Nat
      BY <1>1, <2>1, OutcomeIs
    <3>2. p = Ok(x, n) <=> from(r.i)
      BY <2>1, <3>1, MapIsParsed
    <3>3. \A j : r = Ok("map", j) <=> j = r.i
      BY <3>1, OkSame
    <3> HIDE DEF p, from
    <3> QED
      BY <3>2, <3>3
  <2>2. CASE r.st # "ok"
    <3>1. r \in {Err, Panic} /\ p = r
      BY <1>1, <2>2, OutcomeIs
    <3> HIDE DEF p, from
    <3> QED
      BY <3>1, OkNot
  <2> QED
    BY <2>1, <2>2
<1>3. (\E j, k, l, v, m : r = Ok("map", j) /\ MapParsed(key, elem, go, def, j, x, n, k, l, v, m))
        <=> x \in Readings[go] /\ Says(x, def, i, n)
  BY MapTextRight, MapNoTextRight DEF r, NoText
<1>4. p = Ok(x, n) <=> x \in Readings[go] /\ Says(x, def, i, n)
  <2> HIDE DEF p
  <2> QED
    BY <1>2, <1>3
<1> QED
  BY <1>4 DEF r

WordAt(go, def, i) ==
    LET r == MatchType(go, "binary", def, i)
    IN  IF r.st = "ok" THEN Ok([T |-> r.x, S |-> go], r.i) ELSE r
SliceAt(elem, go, def, i) == IF def = <<>> THEN Err ELSE doParseSlice(elem, go, def, i)
KindAt(key, elem, go, def, i) ==
    LET r == MatchType(go, KindTag[go.kind], def, i)
    IN  IF r.st = "ok" THEN IF r.x = "map" THEN ParseMap(key, elem, go, def, r.i) ELSE Ok([T |-> r.x, S |-> go], r.i)
        ELSE r

LEMMA ParseAtIs ==
    ASSUME NEW key, NEW elem, NEW go, NEW def, NEW i, NEW b
    PROVE  /\ go.kind = "slice" /\ go.elem = Byte => ParseAt(key, elem, go, def, i, b) = WordAt(go, def, i)
           /\ go.kind = "slice" /\ go.elem # Byte => ParseAt(key, elem, go, def, i, b) = SliceAt(elem, go, def, i)
           /\ go.kind \in DOMAIN KindTag => ParseAt(key, elem, go, def, i, b) = KindAt(key, elem, go, def, i)
           /\ go.kind \notin {"ptr", "slice"} \cup DOMAIN KindTag => ParseAt(key, elem, go, def, i, b) = Err
<1>1. CASE go.kind = "slice"
  BY <1>1 DEF ParseAt, Bind, KindTag, WordAt, SliceAt
<1>2. CASE go.kind \in DOMAIN KindTag
  <2>1. go.kind \notin {"ptr", "slice"}
    BY <1>2 DEF KindTag
  <2> QED
    BY <1>2, <2>1 DEF ParseAt, Bind, KindAt
<1>3. CASE go.kind \notin {"ptr", "slice"} \cup DOMAIN KindTag
  BY <1>3 DEF ParseAt, Bind
<1>4. CASE go.kind = "ptr"
  BY <1>4 DEF KindTag
<1> QED
  BY <1>1, <1>2, <1>3, <1>4

\* The types that a slice of bytes and a scalar stand for.
LEMMA WordReadings ==
    ASSUME NEW go \in GoType, NEW tag,
           (go.kind = "slice" /\ go.elem = Byte /\ tag = "binary")
             \/ (go.kind \in DOMAIN KindTag \ {"map"} /\ tag = KindTag[go.kind])
    PROVE  /\ \A x : x \in Readings[go] <=>
                       x = [T |-> x.T, S |-> go] /\ (x.T = tag \/ (x.T = "enum" /\ tag = "i64" /\ go # Int64))
           /\ tag \in DOMAIN Keyword \ {"map"}
<1>1. CASE go.kind = "slice" /\ go.elem = Byte /\ tag = "binary"
  <2>1. ASSUME NEW x PROVE x \in Readings[go] <=> IsBinary(x, go)
    BY <1>1, ReadingIs, IsReading DEF IsPointerTo, IsListOrSet, IsMap, IsScalar, KindTag
  <2>2. ASSUME NEW x PROVE IsBinary(x, go) <=> x = [T |-> x.T, S |-> go] /\ x.T = "binary"
    BY <1>1 DEF IsBinary
  <2>3. tag \in DOMAIN Keyword \ {"map"} /\ tag # "i64"
    BY <1>1 DEF Keyword
  <2> QED
    BY <1>1, <2>1, <2>2, <2>3
<1>2. CASE go.kind \in DOMAIN KindTag \ {"map"} /\ tag = KindTag[go.kind]
  <2>0. go.kind \notin {"ptr", "slice", "map"}
    BY <1>2 DEF KindTag
  <2>1. ASSUME NEW x PROVE x \in Readings[go] <=> IsScalar(x, go)
    BY <2>0, ReadingIs, IsReading DEF IsPointerTo, IsListOrSet, IsMap, IsBinary
  <2>2. ScalarTags(go) = {tag} \cup IF tag = "i64" /\ go # Int64 THEN {"enum"} ELSE {}
    BY <1>2 DEF ScalarTags
  <2>3. tag \in DOMAIN Keyword \ {"map"} /\ tag \in ScalarT /\ "enum" \in ScalarT
    BY <1>2 DEF Keyword, KindTag, ScalarT
  <2>4. ASSUME NEW x
        PROVE  IsScalar(x, go) <=> x = [T |-> x.T, S |-> go] /\ (x.T = tag \/ (x.T = "enum" /\ tag = "i64" /\ go # Int64))
    BY <1>2, <2>2, <2>3 DEF IsScalar
  <2> QED
    BY <2>1, <2>3, <2>4
<1> QED
  BY <1>1, <1>2

LEMMA ParseAtRight ==
    ASSUME NEW go \in GoType, NEW key, NEW elem,
           go.kind \in {"ptr", "slice", "map"} => elem \in ParserFor(go.elem) /\ Right(go.elem, elem),
           go.kind = "map" => key \in ParserFor(go.key) /\ Right(go.key, key),
           NEW def \in Text, NEW i \in 0..Len(def), NEW b \in BOOLEAN, NEW x, NEW n, go.kind = "ptr" => b
    PROVE  ParseAt(key, elem, go, def, i, b) = Ok(x, n) <=> x \in Readings[go] /\ Says(x, def, i, n)
<1> DEFINE p == ParseAt(key, elem, go, def, i, b)
           said == x \in Readings[go] /\ Says(x, def, i, n)
<1>0. i \in Nat
  BY TextIs
<1>1. CASE go.kind = "ptr"
  <2>1. PointerAt(elem, go, def, i) = Ok(x, n) <=> said
    BY <1>1, PointerRight
  <2>2. p = PointerAt(elem, go, def, i)
    <3>1. b
      BY <1>1
    <3> QED
      BY <1>1, <3>1 DEF ParseAt, Bind, PointerAt, KindTag
  <2> QED
    BY <2>1, <2>2
<1>2. CASE go.kind = "slice" /\ go.elem = Byte
  <2> DEFINE r == MatchType(go, "binary", def, i)
             q == IF r.st = "ok" THEN Ok([T |-> r.x, S |-> go], r.i) ELSE r
  <2>1. p = q
    <3>1. p = WordAt(go, def, i)
      BY <1>2, ParseAtIs
    <3> QED
      BY <3>1 DEF WordAt
  <2>2. q = Ok(x, n) <=> said
    BY <1>2, WordReadings, WordRight
  <2> QED
    BY <2>1, <2>2
<1>3. CASE go.kind = "slice" /\ go.elem # Byte
  <2> DEFINE q == IF def = <<>> THEN Err ELSE doParseSlice(elem, go, def, i)
  <2>1. p = q
    BY <1>3, ParseAtIs DEF SliceAt
  <2>2. q = Ok(x, n) <=> said
    BY <1>3, SliceRight
  <2> QED
    BY <2>1, <2>2
<1>4. CASE go.kind = "map"
  <2> DEFINE r == MatchType(go, "map", def, i)
             q == IF r.st = "ok" THEN IF r.x = "map" THEN ParseMap(key, elem, go, def, r.i) ELSE Ok([T |-> r.x, S |-> go], r.i)
                  ELSE r
  <2>1. go.kind \in DOMAIN KindTag /\ KindTag[go.kind] = "map"
    BY <1>4 DEF KindTag
  <2>2. p = q
    <3>1. p = KindAt(key, elem, go, def, i)
      BY <2>1, ParseAtIs
    <3>2. KindAt(key, elem, go, def, i) = q
      BY <2>1 DEF KindAt
    <3> QED
      BY <3>1, <3>2
  <2>3. q = Ok(x, n) <=> said
    BY <1>4, MapRight
  <2> QED
    BY <2>2, <2>3
<1>5. CASE go.kind \in DOMAIN KindTag \ {"map"}
  <2> DEFINE tag == KindTag[go.kind]
             r == MatchType(go, tag, def, i)
             q == IF r.st = "ok" THEN Ok([T |-> r.x, S |-> go], r.i) ELSE r
  <2>1. p = IF r.st = "ok" THEN IF r.x = "map" THEN ParseMap(key, elem, go, def, r.i) ELSE Ok([T |-> r.x, S |-> go], r.i)
            ELSE r
    <3>1. p = KindAt(key, elem, go, def, i)
      BY <1>5, ParseAtIs
    <3> QED
      BY <3>1 DEF KindAt
  <2>2. tag \in DOMAIN Keyword \ {"map"}
        /\ \A y : y \in Readings[go] <=>
                    y = [T |-> y.T, S |-> go] /\ (y.T = tag \/ (y.T = "enum" /\ tag = "i64" /\ go # Int64))
    BY <1>5, WordReadings
  <2>3. r \in Outcome({tag} \cup IF tag = "i64" /\ go # Int64 THEN {"enum"} ELSE {})
    BY <1>0, MatchTypeTyped
  <2>4. r.st = "ok" => r.x # "map"
    BY <2>2, <2>3, OutcomeIs
  <2>5. p = q
    BY <2>1, <2>4
  <2>6. q = Ok(x, n) <=> said
    <3> HIDE DEF tag
    <3> QED
      BY <2>2, WordRight
  <2> QED
    BY <2>5, <2>6
<1>6. CASE go.kind \notin {"ptr", "slice"} \cup DOMAIN KindTag
  <2>1. p = Err
    BY <1>6, ParseAtIs
  <2>2. x \notin Readings[go]
    BY <1>6, ReadingIs DEF IsPointerTo, IsBinary, IsListOrSet, IsMap, IsScalar, KindTag
  <2> QED
    BY <2>1, <2>2, OkNot
<1> QED
  BY <1>1, <1>2, <1>3, <1>4, <1>5, <1>6

LEMMA ParserRight ==
    ASSUME NEW go \in GoType, NEW key, NEW elem,
           go.kind \in {"ptr", "slice", "map"} => elem \in ParserFor(go.elem) /\ Right(go.elem, elem),
           go.kind = "map" => key \in ParserFor(go.key) /\ Right(go.key, key)
    PROVE  Right(go, Parser(key, elem, go))
<1> DEFINE f == Parser(key, elem, go)
<1>1. ASSUME NEW def \in Text, NEW i \in 0..Len(def), NEW b \in BOOLEAN
      PROVE  f[<<def, i, b>>] = ParseAt(key, elem, go, def, i, b)
  <2>1. <<def, i, b>> \in Seq(Token) \X Nat \X BOOLEAN
    BY TextIs DEF Text
  <2> DEFINE at == <<def, i, b>>
             F(a) == ParseAt(key, elem, go, a[1], a[2], a[3])
  <2>2. f = [a \in Seq(Token) \X Nat \X BOOLEAN |-> F(a)]
    BY DEF Parser
  <2>3. f[at] = F(at)
    <3> HIDE DEF F, at, f
    <3> QED
      BY <2>1, <2>2 DEF at
  <2>4. at[1] = def /\ at[2] = i /\ at[3] = b
    OBVIOUS
  <2> QED
    BY <2>3, <2>4
<1>2. ASSUME NEW def \in Text, NEW i \in 0..Len(def), NEW b \in BOOLEAN, NEW x, NEW n, go.kind = "ptr" => b
      PROVE  ParseAt(key, elem, go, def, i, b) = Ok(x, n) <=> x \in Readings[go] /\ Says(x, def, i, n)
  BY <1>2, ParseAtRight
<1> HIDE DEF f
<1>3. Right(go, f)
  BY <1>1, <1>2 DEF Right
<1> QED
  BY <1>3 DEF f

LEMMA doParseTypeRight == \A go \in GoType : Right(go, doParseType[go])
<1> DEFINE G == {go \in GoType : Right(go, doParseType[go])}
<1>1. ASSUME NEW go \in GoType, \A y \in GoType : Depth[y] < Depth[go] => y \in G
      PROVE  go \in G
  <2>1. doParseType[go] = Parser(doParseType[go.key], doParseType[go.elem], go)
    BY ParseUnfold
  <2>2. go.kind \in {"ptr", "slice", "map"} => doParseType[go.elem] \in ParserFor(go.elem) /\ Right(go.elem, doParseType[go.elem])
    BY <1>1, ParseUnfold, GoTypeAssumption
  <2>3. go.kind = "map" => doParseType[go.key] \in ParserFor(go.key) /\ Right(go.key, doParseType[go.key])
    BY <1>1, ParseUnfold, GoTypeAssumption
  <2>4. Right(go, Parser(doParseType[go.key], doParseType[go.elem], go))
    BY <2>2, <2>3, ParserRight
  <2> QED
    BY <2>1, <2>4
<1>2. GoType \subseteq G
  <2> HIDE DEF G
  <2> QED
    BY <1>1, GoTypeAssumption, ByDepth
<1> QED
  BY <1>2

-----------------------------------------------------------------------------
(***************************************************************************)
(* ParseType finds the type that a tag denotes                             *)
(***************************************************************************)
AtIs(go, f, def, i, x, n) == f[<<def, i, TRUE>>] = Ok(x, n) <=> x \in Readings[go] /\ Says(x, def, i, n)

LEMMA SaidAt ==
    ASSUME NEW go, NEW f, Right(go, f), NEW def \in Text, NEW i \in 0..Len(def), NEW x, NEW n
    PROVE  AtIs(go, f, def, i, x, n)
BY DEF Right, AtIs

LEMMA DenotedIs ==
    ASSUME NEW go \in GoType, NEW def \in Text, NEW x
    PROVE  x \in Denoted(go, def) <=> \E n : ParseType(go, def) = Ok(x, n)
<1> DEFINE at == <<def, 0, TRUE>>
<1>0. Len(def) \in Nat /\ 0 \in 0..Len(def) /\ 0 + 1 = 1
  BY TextIs
<1>1. ASSUME NEW n PROVE ParseType(go, def) = Ok(x, n) <=> x \in Readings[go] /\ Says(x, def, 0, n)
  <2>1. ParseType(go, def) = doParseType[go][at]
    BY DEF ParseType
  <2>2. Right(go, doParseType[go])
    BY doParseTypeRight
  <2> QED
    <3>1. AtIs(go, doParseType[go], def, 0, x, n)
      BY <1>0, <2>2, SaidAt
    <3> QED
      BY <2>1, <3>1 DEF AtIs
<1>2. (\E n : Says(x, def, 0, n)) <=>
        IF def = <<>> THEN ~NeedsText[x]
        ELSE \E n \in 0..Len(def) : SubSeq(def, 1, n) \in Texts[x] /\ Ends(x, def, 0, n)
  <2>1. CASE def = <<>>
    <3>1. ASSUME NEW n PROVE Says(x, def, 0, n) <=> ~NeedsText[x] /\ n = 0
      BY <2>1 DEF Says
    <3> QED
      BY <2>1, <3>1
  <2>2. CASE def # <<>>
    <3>1. ASSUME NEW n PROVE Says(x, def, 0, n) <=> n \in 0..Len(def) /\ SubSeq(def, 1, n) \in Texts[x] /\ Ends(x, def, 0, n)
      BY <1>0, <2>2 DEF Says, Seg
    <3> QED
      BY <2>2, <3>1
  <2> QED
    BY <2>1, <2>2
<1>3. x \in Denoted(go, def) <=> x \in Readings[go] /\ \E n : Says(x, def, 0, n)
  BY <1>2 DEF Denoted
<1> QED
  BY <1>1, <1>3

LEMMA DenotedOne ==
    ASSUME NEW go \in GoType, NEW def \in Text
    PROVE  Denoted(go, def) = IF ParseType(go, def).st = "ok" THEN {ParseType(go, def).x} ELSE {}
<1> DEFINE pt == ParseType(go, def)
<1>1. pt \in Outcome(Readings[go])
  BY ParseTyped
<1>2. ASSUME NEW x PROVE x \in Denoted(go, def) <=> \E n : pt = Ok(x, n)
  BY DenotedIs
<1> HIDE DEF pt
<1>3. CASE pt.st = "ok"
  <2>1. pt = Ok(pt.x, pt.i)
    BY <1>1, <1>3, OutcomeIs
  <2>2. ASSUME NEW x PROVE x \in Denoted(go, def) <=> x = pt.x
    BY <1>2, <2>1, OkSame
  <2>3. Denoted(go, def) = {pt.x}
    BY <2>2
  <2> QED
    BY <1>3, <2>3 DEF pt
<1>4. CASE pt.st # "ok"
  <2>1. pt \in {Err, Panic}
    BY <1>1, <1>4, OutcomeIs
  <2>2. ASSUME NEW x PROVE x \notin Denoted(go, def)
    BY <1>2, <2>1, OkNot
  <2>3. Denoted(go, def) = {}
    BY <2>2
  <2> QED
    BY <1>4, <2>3 DEF pt
<1> QED
  BY <1>3, <1>4

-----------------------------------------------------------------------------
(***************************************************************************)
(* A turn of the resolver's loop takes the field that a declaration is     *)
(***************************************************************************)
PartsOf(f) == lookupStructTag(Decl[f])
IdOf(f) == IF PartsOf(f) = <<>> THEN {} ELSE ParseUint(PartsOf(f)[1])
ParsedOf(f) == ParseType(Decl[f].go, Part(PartsOf(f), 3, <<>>))

\* Whether a declaration is a field, beside the others of its struct, and the field.
Good(f) ==
    /\ IdOf(f) # {}
    /\ Requiredness(PartsOf(f)) \in Spec3
    /\ ParsedOf(f).st = "ok"
    /\ PointerAllowed(Requiredness(PartsOf(f)), ParsedOf(f).x)
    /\ OptionsAllowed(Options(PartsOf(f)), ParsedOf(f).x)

Resolved(f) ==
    [F |-> f, ID |-> CHOOSE n \in IdOf(f) : TRUE, Type |-> ParsedOf(f).x,
     NoCopy |-> Options(PartsOf(f)) # <<>>, Spec |-> Requiredness(PartsOf(f))]

LEMMA TurnTakes ==
    ASSUME NEW acc, NEW f
    PROVE  /\ acc.st # "ok" \/ ~Tagged(Decl[f]) => ResolveField(acc, f) = acc
           /\ acc.st = "ok" /\ Tagged(Decl[f]) =>
                IF Good(f) /\ \A n \in IdOf(f) : n \notin acc.ids
                THEN ResolveField(acc, f) =
                       [st |-> "ok", ids |-> acc.ids \cup IdOf(f), ff |-> Append(acc.ff, Resolved(f))]
                ELSE ResolveField(acc, f).st # "ok"
<1> DEFINE bad == IdOf(f) = {} \/ (\E n \in IdOf(f) : Used(acc.ids, n)) \/ Requiredness(PartsOf(f)) \notin Spec3
           bad2 == ~PointerAllowed(Requiredness(PartsOf(f)), ParsedOf(f).x) \/ ~OptionsAllowed(Options(PartsOf(f)), ParsedOf(f).x)
           next == [st |-> "ok", ids |-> acc.ids \cup IdOf(f), ff |-> Append(acc.ff, Resolved(f))]
<1>1. ResolveField(acc, f) =
        IF acc.st # "ok" \/ ~Tagged(Decl[f]) THEN acc
        ELSE IF bad THEN Err
        ELSE IF ParsedOf(f).st # "ok" THEN ParsedOf(f)
        ELSE IF bad2 THEN Err ELSE next
  BY DEF ResolveField, IdOf, ParsedOf, PartsOf, Resolved, Spec3
<1>2. Good(f) /\ (\A n \in IdOf(f) : n \notin acc.ids) <=> ~bad /\ ParsedOf(f).st = "ok" /\ ~bad2
  BY DEF Good, Used
<1> HIDE DEF bad, bad2, next
<1>3. acc.st = "ok" /\ Tagged(Decl[f]) =>
        IF Good(f) /\ \A n \in IdOf(f) : n \notin acc.ids THEN ResolveField(acc, f) = next ELSE ResolveField(acc, f).st # "ok"
  BY <1>1, <1>2, NotOk
<1> QED
  BY <1>1, <1>3 DEF next

LEMMA IdOfOne ==
    ASSUME NEW f, IdOf(f) # {}
    PROVE  IdOf(f) = {Resolved(f).ID} /\ Resolved(f).F = f
<1>1. PICK m \in IdOf(f) : TRUE
  OBVIOUS
<1>2. IdOf(f) = {m}
  BY <1>1, OneId DEF IdOf
<1> DEFINE n == CHOOSE n \in IdOf(f) : TRUE
<1>3. n = m
  BY <1>2
<1>4. Resolved(f).ID = n /\ Resolved(f).F = f
  BY DEF Resolved
<1> QED
  BY <1>2, <1>3, <1>4

Record(a, b, c, d, e) == [F |-> a, ID |-> b, Type |-> c, NoCopy |-> d, Spec |-> e]
Records(A, B, C, D, E) == [F : A, ID : B, Type : C, NoCopy : D, Spec : E]

LEMMA OneRecord ==
    ASSUME NEW a, NEW b, NEW c, NEW d, NEW e
    PROVE  Records({a}, {b}, {c}, {d}, {e}) = {Record(a, b, c, d, e)}
<1> DEFINE S == [F : {a}, ID : {b}, Type : {c}, NoCopy : {d}, Spec : {e}]
           y == [F |-> a, ID |-> b, Type |-> c, NoCopy |-> d, Spec |-> e]
<1>1. y \in S
  OBVIOUS
<1>2. ASSUME NEW x \in S PROVE x = y
  OBVIOUS
<1> HIDE DEF S, y
<1>3. S = {y}
  BY <1>1, <1>2
<1> QED
  BY <1>3 DEF S, y, Record, Records

LEMMA FieldsIs ==
    ASSUME NEW f \in DOMAIN Decl, Tagged(Decl[f])
    PROVE  Fields(f) = IF Good(f) THEN {Resolved(f)} ELSE {}
<1> DEFINE ft == PartsOf(f)
           def == Part(ft, 3, <<>>)
           go == Decl[f].go
           copied == Options(ft) = <<<<"nocopy">>>>
           all == [F : {f}, ID : IdOf(f), Type : Denoted(go, def), NoCopy : {copied},
                   Spec : {Requiredness(ft)} \cap Spec3]
<1>1. ft \in Seq(ToSet(ft)) /\ def \in Text /\ go \in GoType
  BY DeclAssumption DEF PartsOf, Text
<1>2. ParseUint(Part(ft, 1, <<>>)) = IdOf(f)
  <2>1. CASE ft = <<>>
    <3>1. Part(ft, 1, <<>>) = <<>>
      BY <2>1 DEF Part
    <3>2. ParseUint(<<>>) = {}
      <4>1. \A t : <<>> # <<t>>
        OBVIOUS
      <4> QED
        BY <4>1 DEF ParseUint
    <3> QED
      BY <2>1, <3>1, <3>2 DEF IdOf
  <2>2. CASE ft # <<>>
    <3>1. Len(ft) \in Nat /\ Len(ft) # 0
      BY <1>1, <2>2, EmptySeq, LenProperties
    <3>2. Part(ft, 1, <<>>) = ft[1]
      BY <3>1 DEF Part
    <3> QED
      BY <2>2, <3>2 DEF IdOf
  <2> QED
    BY <2>1, <2>2
<1>3. Fields(f) = {x \in all : PointerAllowed(x.Spec, x.Type) /\ OptionsAllowed(Options(ft), x.Type)}
  BY <1>2 DEF Fields, PartsOf, Spec3
<1>4. Denoted(go, def) = IF ParsedOf(f).st = "ok" THEN {ParsedOf(f).x} ELSE {}
  BY <1>1, DenotedOne DEF ParsedOf
<1>5. ASSUME NEW t, OptionsAllowed(Options(ft), t) PROVE copied = (Options(ft) # <<>>)
  <2>1. <<>> # <<<<"nocopy">>>>
    OBVIOUS
  <2> QED
    BY <1>5, <2>1 DEF OptionsAllowed
<1> HIDE DEF copied
<1>6. CASE Good(f)
  <2> DEFINE t == ParsedOf(f).x
             id == Resolved(f).ID
             y == [F |-> f, ID |-> id, Type |-> t, NoCopy |-> copied, Spec |-> Requiredness(ft)]
  <2>1. IdOf(f) = {id} /\ Denoted(go, def) = {t} /\ {Requiredness(ft)} \cap Spec3 = {Requiredness(ft)}
    BY <1>4, <1>6, IdOfOne DEF Good
  <2>2. PointerAllowed(Requiredness(ft), t) /\ OptionsAllowed(Options(ft), t)
    BY <1>6 DEF Good
  <2>3. copied = (Options(ft) # <<>>)
    BY <1>5, <2>2
  <2>4. y = Resolved(f)
    BY <2>3 DEF Resolved
  <2> HIDE DEF ft, def, go, t, id, copied
  <2>5. all = {y}
    <3>2. Records({f}, {id}, {t}, {copied}, {Requiredness(ft)}) = {Record(f, id, t, copied, Requiredness(ft))}
      BY OneRecord
    <3>3. all = Records({f}, {id}, {t}, {copied}, {Requiredness(ft)}) /\ y = Record(f, id, t, copied, Requiredness(ft))
      BY <2>1 DEF Record, Records
    <3> HIDE DEF all, y
    <3> QED
      BY <3>2, <3>3
  <2>6. y.Spec = Requiredness(ft) /\ y.Type = t
    OBVIOUS
  <2>7. Fields(f) = {y}
    <3> HIDE DEF all, y
    <3> QED
      BY <1>3, <2>2, <2>5, <2>6
  <2> QED
    BY <1>6, <2>4, <2>7
<1>7. CASE ~Good(f)
  <2> SUFFICES ASSUME NEW x \in Fields(f) PROVE FALSE
    BY <1>7
  <2>1. x \in all /\ PointerAllowed(x.Spec, x.Type) /\ OptionsAllowed(Options(ft), x.Type)
    BY <1>3
  <2>2. IdOf(f) # {} /\ x.Type \in Denoted(go, def) /\ x.Spec = Requiredness(ft) /\ Requiredness(ft) \in Spec3
    <3> DEFINE types == Denoted(go, def)
               specs == {Requiredness(ft)} \cap Spec3
               flags == {copied}
               nums == IdOf(f)
    <3>1. x \in [F : {f}, ID : nums, Type : types, NoCopy : flags, Spec : specs]
      BY <2>1
    <3> HIDE DEF types, specs, flags, nums
    <3>2. x.ID \in nums /\ x.Type \in types /\ x.Spec \in specs
      BY <3>1
    <3> QED
      BY <3>2 DEF types, specs, nums
  <2>3. ParsedOf(f).st = "ok" /\ x.Type = ParsedOf(f).x
    BY <1>4, <2>2
  <2> QED
    BY <1>7, <2>1, <2>2, <2>3 DEF Good
<1> QED
  BY <1>6, <1>7

-----------------------------------------------------------------------------
(***************************************************************************)
(* The loop takes the fields of all declarations, or stops                 *)
(***************************************************************************)
\* The tagged declarations among the first n of s.
TaggedOf(s, n) == {i \in 1..n : Tagged(Decl[s[i]])}

\* They are fields, no two of which have an id.
AllGood(s, n) ==
    /\ \A i \in TaggedOf(s, n) : Good(s[i])
    /\ \A i, j \in TaggedOf(s, n) : Resolved(s[i]).ID = Resolved(s[j]).ID => i = j

IdsOf(s, n) == {Resolved(s[i]).ID : i \in TaggedOf(s, n)}
AllOf(s, n) == {Resolved(s[i]) : i \in TaggedOf(s, n)}

Taken(acc, s, n) ==
    /\ acc.st = "ok" <=> AllGood(s, n)
    /\ acc.st = "ok" => acc.ids = IdsOf(s, n) /\ ToSet(acc.ff) = AllOf(s, n)

LEMMA ToSetAppend ==
    ASSUME NEW S, NEW q \in Seq(S), NEW a \in S
    PROVE  ToSet(Append(q, a)) = ToSet(q) \cup {a}
<1>1. Len(q) \in Nat /\ DOMAIN q = 1..Len(q)
  BY LenProperties
<1>2. /\ Append(q, a) \in Seq(S) /\ Len(Append(q, a)) = Len(q) + 1
      /\ \A i \in 1..Len(q) : Append(q, a)[i] = q[i]
      /\ Append(q, a)[Len(q) + 1] = a
  BY AppendProperties
<1>3. DOMAIN Append(q, a) = 1..(Len(q) + 1)
  BY <1>2, LenProperties
<1>4. \A i \in 1..(Len(q) + 1) : i \in 1..Len(q) \/ i = Len(q) + 1
  BY <1>1
<1>5. /\ \A i \in 1..Len(q) : i \in 1..(Len(q) + 1)
      /\ Len(q) + 1 \in 1..(Len(q) + 1)
  BY <1>1
<1> DEFINE t == Append(q, a)
           n == Len(q)
<1> HIDE DEF t, n
<1>6. {t[i] : i \in DOMAIN t} = {q[i] : i \in DOMAIN q} \cup {a}
  BY <1>1, <1>2, <1>3, <1>4, <1>5 DEF t, n
<1> QED
  BY <1>6 DEF ToSet, t

LEMMA TakesOne ==
    ASSUME NEW s \in Seq(DOMAIN Decl), NEW n \in Nat, n + 1 <= Len(s), NEW acc \in Acc, Taken(acc, s, n)
    PROVE  Taken(ResolveField(acc, s[n + 1]), s, n + 1)
<1> DEFINE f == s[n + 1]
           next == ResolveField(acc, f)
           D == TaggedOf(s, n)
           E == TaggedOf(s, n + 1)
<1>0. /\ \A i \in 1..(n + 1) : i \in 1..n \/ i = n + 1
      /\ \A i \in 1..n : i \in 1..(n + 1) /\ i # n + 1
      /\ n + 1 \in 1..(n + 1)
  OBVIOUS
<1>1. CASE ~Tagged(Decl[f])
  <2>1. E = D
    BY <1>0, <1>1 DEF TaggedOf
  <2>2. next = acc
    BY <1>1, TurnTakes
  <2> QED
    BY <2>1, <2>2 DEF Taken, AllGood, IdsOf, AllOf
<1>2. CASE Tagged(Decl[f])
  <2>1. E = D \cup {n + 1} /\ n + 1 \notin D
    BY <1>0, <1>2 DEF TaggedOf
  <2>2. CASE acc.st # "ok"
    <3>1. next = acc
      BY <2>2, TurnTakes
    <3>2. ~AllGood(s, n)
      BY <2>2 DEF Taken
    <3>3. ~AllGood(s, n + 1)
      BY <2>1, <3>2 DEF AllGood
    <3> QED
      BY <2>2, <3>1, <3>3 DEF Taken
  <2>3. CASE acc.st = "ok"
    <3>1. AllGood(s, n) /\ acc.ids = IdsOf(s, n) /\ ToSet(acc.ff) = AllOf(s, n)
      BY <2>3 DEF Taken
    <3> DEFINE free == Good(f) /\ \A m \in IdOf(f) : m \notin acc.ids
    <3>2. free <=> Good(f) /\ Resolved(f).ID \notin acc.ids
      BY IdOfOne DEF Good
    <3>3. AllGood(s, n + 1) <=> Good(f) /\ Resolved(f).ID \notin acc.ids
      <4>1. \A i \in D : i # n + 1
        BY <2>1
      <4>2. Resolved(f).ID \in acc.ids <=> \E i \in D : Resolved(s[i]).ID = Resolved(f).ID
        BY <3>1 DEF IdsOf
      <4> QED
        BY <2>1, <3>1, <4>1, <4>2 DEF AllGood
    <3>4. CASE free
      <4>1. next = [st |-> "ok", ids |-> acc.ids \cup IdOf(f), ff |-> Append(acc.ff, Resolved(f))]
        BY <1>2, <2>3, <3>4, TurnTakes
      <4>2. IdOf(f) = {Resolved(f).ID}
        BY <3>4, IdOfOne DEF Good
      <4>3. acc.ids \cup {Resolved(f).ID} = IdsOf(s, n + 1)
        BY <2>1, <3>1 DEF IdsOf
      <4>4. ToSet(Append(acc.ff, Resolved(f))) = AllOf(s, n + 1)
        <5> DEFINE S == FieldOf \cup {Resolved(f)}
        <5>1. acc.ff \in Seq(FieldOf)
          BY <2>3, NotOk DEF Acc
        <5>2. acc.ff \in Seq(S)
          <6>1. acc.ff \in [1..Len(acc.ff) -> FieldOf] /\ Len(acc.ff) \in Nat
            BY <5>1, LenProperties
          <6>2. acc.ff \in [1..Len(acc.ff) -> S]
            BY <6>1
          <6> QED
            BY <6>1, <6>2, SeqDef
        <5>3. ToSet(Append(acc.ff, Resolved(f))) = ToSet(acc.ff) \cup {Resolved(f)}
          BY <5>2, ToSetAppend
        <5>4. AllOf(s, n) \cup {Resolved(f)} = AllOf(s, n + 1)
          BY <2>1 DEF AllOf
        <5> QED
          BY <3>1, <5>3, <5>4
      <4>5. AllGood(s, n + 1)
        BY <3>2, <3>3, <3>4
      <4> HIDE DEF next
      <4> QED
        BY <4>1, <4>2, <4>3, <4>4, <4>5 DEF Taken, next
    <3>5. CASE ~free
      <4>1. next.st # "ok"
        BY <1>2, <2>3, <3>5, TurnTakes
      <4> QED
        BY <3>2, <3>3, <3>5, <4>1 DEF Taken
    <3> QED
      BY <3>4, <3>5
  <2> QED
    BY <2>2, <2>3
<1> QED
  BY <1>1, <1>2

LEMMA TakesAll ==
    ASSUME NEW s \in Seq(DOMAIN Decl), NEW T, TurnsAre(T, s)
    PROVE  Taken(T[Len(s)], s, Len(s))
<1> DEFINE N == Len(s)
           G == {n \in Nat : n <= N => Taken(T[n], s, n)}
<1>0. N \in Nat
  BY LenProperties
<1>1. 0 \in G
  <2>1. T[0] = Start
    BY <1>0 DEF TurnsAre
  <2>2. TaggedOf(s, 0) = {}
    BY DEF TaggedOf
  <2>3. Start.st = "ok" /\ Start.ids = {} /\ ToSet(Start.ff) = {}
    <3>1. ToSet(<<>>) = {}
      BY DEF ToSet
    <3> QED
      BY <3>1 DEF Start
  <2> QED
    BY <2>1, <2>2, <2>3 DEF Taken, AllGood, IdsOf, AllOf
<1>2. ASSUME NEW n \in Nat, n \in G PROVE n + 1 \in G
  <2> SUFFICES ASSUME n + 1 <= N PROVE Taken(T[n + 1], s, n + 1)
    OBVIOUS
  <2>1. n \in 0..N /\ n + 1 \in 0..N /\ n + 1 # 0 /\ (n + 1) - 1 = n /\ n <= N
    BY <1>0
  <2>2. T[n + 1] = ResolveField(T[n], s[n + 1]) /\ T[n] \in Acc
    BY <2>1 DEF TurnsAre
  <2>3. Taken(T[n], s, n)
    BY <1>2, <2>1
  <2> QED
    BY <2>2, <2>3, TakesOne
<1>3. Nat \subseteq G
  <2> HIDE DEF G
  <2> QED
    BY <1>1, <1>2, NatSet
<1> QED
  BY <1>0, <1>3

-----------------------------------------------------------------------------
(***************************************************************************)
(* What DoResolveFields promises                                           *)
(***************************************************************************)
LEMMA PromisedIs ==
    ASSUME NEW s \in Seq(DOMAIN Decl)
    PROVE  /\ Promised(s).ok <=> AllGood(s, Len(s))
           /\ AllGood(s, Len(s)) => Promised(s).ff = AllOf(s, Len(s))
<1> DEFINE N == Len(s)
           D == TaggedOf(s, N)
           all == UNION {Fields(s[i]) : i \in D}
           nums == {x.ID : x \in all}
<1>0. N \in Nat /\ DOMAIN s = 1..N /\ \A i \in 1..N : s[i] \in DOMAIN Decl
  BY LenProperties, ElementOfSeq
<1>1. /\ Promised(s).ok <=> (\A i \in D : \E x \in all : x.F = s[i]) /\ Cardinality(nums) = Cardinality(D)
      /\ Promised(s).ff = all
  <2>1. D = {i \in DOMAIN s : Tagged(Decl[s[i]])}
    BY <1>0 DEF TaggedOf
  <2> QED
    BY <2>1 DEF Promised
<1>2. ASSUME NEW i \in D
      PROVE  Fields(s[i]) = IF Good(s[i]) THEN {Resolved(s[i])} ELSE {}
  <2>1. s[i] \in DOMAIN Decl /\ Tagged(Decl[s[i]])
    BY <1>0 DEF TaggedOf
  <2> QED
    BY <2>1, FieldsIs
<1>3. \A f : Resolved(f).F = f
  BY DEF Resolved
<1> HIDE DEF D
<1>4. (\A i \in D : \E x \in all : x.F = s[i]) <=> \A i \in D : Good(s[i])
  <2>1. ASSUME NEW i \in D, NEW x \in all, x.F = s[i] PROVE Good(s[i])
    <3>1. PICK j \in D : x \in Fields(s[j])
      BY <2>1
    <3>2. Good(s[j]) /\ x = Resolved(s[j])
      BY <1>2, <3>1
    <3> QED
      BY <1>3, <2>1, <3>2
  <2>2. ASSUME NEW i \in D, Good(s[i]) PROVE \E x \in all : x.F = s[i]
    <3>1. Resolved(s[i]) \in Fields(s[i])
      BY <1>2, <2>2
    <3>2. Resolved(s[i]) \in all
      BY <3>1
    <3> QED
      BY <1>3, <3>2
  <2> QED
    BY <2>1, <2>2
<1>5. ASSUME \A i \in D : Good(s[i])
      PROVE  /\ all = AllOf(s, N)
             /\ Cardinality(nums) = Cardinality(D) <=> \A i, j \in D : Resolved(s[i]).ID = Resolved(s[j]).ID => i = j
  <2>1. all = {Resolved(s[i]) : i \in D}
    <3>1. \A i \in D : Fields(s[i]) = {Resolved(s[i])}
      BY <1>2, <1>5
    <3> QED
      BY <3>1
  <2>2. nums = {Resolved(s[i]).ID : i \in D}
    <3> HIDE DEF all
    <3> QED
      BY <2>1
  <2> HIDE DEF all, nums
  <2> DEFINE g == [i \in D |-> Resolved(s[i]).ID]
  <2>3. IsFiniteSet(D)
    <3>1. IsFiniteSet(1..N)
      <4>1. 1 \in Int /\ N \in Int
        BY <1>0
      <4> QED
        BY <4>1, FS_Interval
    <3>2. D \in SUBSET (1..N)
      BY DEF D, TaggedOf
    <3> QED
      BY <3>1, <3>2, FS_Subset
  <2>4. g \in Surjection(D, nums)
    BY <2>2 DEF Surjection
  <2>5. Cardinality(nums) = Cardinality(D) <=> g \in Injection(D, nums)
    <3> HIDE DEF g
    <3> QED
      BY <2>3, <2>4, FS_Surjection
  <2>6. g \in Injection(D, nums) <=> \A i, j \in D : g[i] = g[j] => i = j
    <3>1. g \in [D -> nums]
      BY <2>4 DEF Surjection
    <3> HIDE DEF g
    <3> QED
      BY <3>1 DEF Injection, IsInjective
  <2>7. \A i \in D : g[i] = Resolved(s[i]).ID
    OBVIOUS
  <2> HIDE DEF g
  <2> QED
    BY <2>1, <2>5, <2>6, <2>7 DEF AllOf, D
<1> HIDE DEF all, nums
<1>6. Promised(s).ok <=> AllGood(s, N)
  BY <1>1, <1>4, <1>5 DEF AllGood, D
<1>7. AllGood(s, N) => all = AllOf(s, N)
  BY <1>5 DEF AllGood, D
<1> QED
  BY <1>1, <1>6, <1>7

LEMMA ResolvesAsPromised ==
    ASSUME NEW s \in Seq(DOMAIN Decl)
    PROVE  LET r == DoResolveFields(s)
           IN  /\ r.st = "ok" <=> Promised(s).ok
               /\ r.st = "ok" => /\ ToSet(r.ff) = Promised(s).ff
                                 /\ \A i, j \in DOMAIN r.ff : i < j => r.ff[i].ID < r.ff[j].ID
<1>1. PICK T : /\ TurnsAre(T, s)
               /\ DoResolveFields(s) = LET r == T[Len(s)]
                                       IN  IF r.st = "ok" THEN [r EXCEPT !.ff = SortedById(@)] ELSE r
  BY ResolverTurns
<1> DEFINE t == T[Len(s)]
           r == DoResolveFields(s)
<1>2. Taken(t, s, Len(s))
  BY <1>1, TakesAll
<1>3. t.st = "ok" <=> Promised(s).ok
  BY <1>2, PromisedIs DEF Taken
<1>4. t \in Acc
  <2>1. Len(s) \in 0..Len(s)
    BY LenProperties
  <2> QED
    BY <1>1, <2>1 DEF TurnsAre
<1> HIDE DEF r
<1>5. CASE t.st # "ok"
  <2>1. r = t
    BY <1>1, <1>5 DEF r
  <2> QED
    BY <1>3, <1>5, <2>1 DEF r
<1>6. CASE t.st = "ok"
  <2>1. t \in [st : {"ok"}, ids : SUBSET Uint16, ff : Seq(FieldOf)] /\ \A i, j \in DOMAIN t.ff : t.ff[i].ID = t.ff[j].ID => i = j
    BY <1>4, <1>6, NotOk DEF Acc
  <2>2. SortedById(t.ff) \in SortedFields /\ ToSet(SortedById(t.ff)) = ToSet(t.ff)
    BY <2>1, SortedTyped
  <2>3. [t EXCEPT !.ff = SortedById(@)] = [st |-> "ok", ids |-> t.ids, ff |-> SortedById(t.ff)]
    BY <2>1
  <2>4. r.st = "ok" /\ r.ff = SortedById(t.ff)
    BY <1>1, <1>6, <2>3 DEF r
  <2>5. ToSet(t.ff) = Promised(s).ff
    BY <1>2, <1>6, PromisedIs DEF Taken
  <2>6. \A i, j \in DOMAIN r.ff : i < j => r.ff[i].ID < r.ff[j].ID
    BY <2>2, <2>4 DEF SortedFields
  <2> QED
    BY <1>3, <1>6, <2>2, <2>4, <2>5, <2>6 DEF r
<1> QED
  BY <1>5, <1>6

\* What was resolved last are the declarations of the struct that was described last.
ResolvedLast ==
    outcome # "none" => struct.decls \in Seq(DOMAIN Decl) /\ resolved = DoResolveFields(struct.decls)

LEMMA ResolvedLastStays ==
    ASSUME ResolvedLast, [NextD]_<<vars, descVars>>
    PROVE  ResolvedLast'
<1>1. CASE Describe
  <2>1. PICK s \in Structs : newStructDesc(s)
    BY <1>1 DEF Describe
  <2>2. Finish(s, DoResolveFields(s.decls), Types(DoResolveFields(s.decls)))
    BY <2>1 DEF newStructDesc
  <2>3. struct' = s /\ resolved' = DoResolveFields(s.decls)
    BY <2>2 DEF Finish
  <2>4. s.decls \in Seq(DOMAIN Decl)
    BY StructsAssumption
  <2> QED
    BY <2>3, <2>4 DEF ResolvedLast
<1>2. CASE UNCHANGED descVars
  BY <1>2 DEF ResolvedLast, descVars
<1>3. Describe \/ UNCHANGED descVars
  BY DEF NextD
<1> QED
  BY <1>1, <1>2, <1>3

\* In every state, the fields of the last struct described are those that its
\* declarations are by the grammar of tags, if each is one and no two have the same
\* id, and it has no descriptor otherwise (resolver.go, types.go).
THEOREM ResolvesAsDeclared == SpecD => []FieldsAsDeclared
<1>1. InitD => ResolvedLast
  BY DEF InitD, ResolvedLast
<1>2. ResolvedLast /\ [NextD]_<<vars, descVars>> => ResolvedLast'
  BY ResolvedLastStays
<1>3. ResolvedLast => FieldsAsDeclared
  BY ResolvesAsPromised DEF ResolvedLast, FieldsAsDeclared
<1> QED
  BY <1>1, <1>2, <1>3, PTL DEF SpecD
=============================================================================
