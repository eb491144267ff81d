------------------------------ MODULE TypeParser ------------------------------
(***************************************************************************)
(* The parser of the type a field's tag gives, beside the field's Go type  *)
(* (internal/defs/types.go). A Go type is a record of its kind, its name   *)
(* and its package or its element types. The text of a tag is the sequence *)
(* of its tokens, a position is the number of tokens read, and every error *)
(* is Err. The text <<>> is a tag without a type.                          *)
(***************************************************************************)
EXTENDS Integers, Sequences

CONSTANTS
    GoType,         \* the Go types of fields, and of their keys and elements
    Identifiers     \* the tokens of tags that are no punctuation

\* i64type and bytetype.
Int64 == [kind |-> "int64", name |-> "int64", pkg |-> ""]
Byte == [kind |-> "uint8", name |-> "uint8", pkg |-> ""]

\* The tokens an entry of keywordTab contains. strings.Contains takes every part
\* of it: "i" stands for the parts that are no whole word.
Keyword == [bool |-> {"bool"}, i8 |-> {"i8", "byte", "i"}, double |-> {"double"},
            i16 |-> {"i16", "i"}, i32 |-> {"i32", "i"}, i64 |-> {"i64", "i"},
            string |-> {"string", "i"}, binary |-> {"binary", "i"},
            struct |-> {"struct"}, map |-> {"map"}]

\* The tag a kind stands for; the kinds it leaves out are not supported.
KindTag == [bool |-> "bool", int |-> "i64", int8 |-> "i8", int16 |-> "i16",
            int32 |-> "i32", int64 |-> "i64", float64 |-> "double",
            string |-> "string", map |-> "map", struct |-> "struct"]

Punctuation == {"<", ">", ":", "."}
Token == Identifiers \cup Punctuation

Ok(x, i) == [st |-> "ok", x |-> x, i |-> i]
Err == [st |-> "err"]
Panic == [st |-> "panic"]
Bind(r, Cont(_, _)) == IF r.st = "ok" THEN Cont(r.x, r.i) ELSE r
-----------------------------------------------------------------------------
(***************************************************************************)
(* What the rest of the program asks of a type                             *)
(***************************************************************************)
PointsTo(t, tags) == t.T = "pointer" /\ t.V.T \in tags
Pointee(t) == IF t.T = "pointer" THEN t.V ELSE t

Tag(t) == CASE Pointee(t).T = "enum" -> "i32"
            [] Pointee(t).T = "binary" -> "string"
            [] OTHER -> Pointee(t).T

IsEnum(t) == Pointee(t).T = "enum"

IsKeyType(t) ==
    \/ t.T \in {"bool", "i8", "double", "i16", "i32", "i64", "string", "enum"}
    \/ PointsTo(t, {"struct"})

\* Faulty variant: every type is a value or an element.
AnyValueType(t) == TRUE

IsValueType(t) == t.T = "pointer" => t.V.T = "struct"
-----------------------------------------------------------------------------
(***************************************************************************)
(* Parsing                                                                 *)
(***************************************************************************)
\* readToken, where the end of the text is an error.
ReadToken(def, i) == IF i < Len(def) THEN Ok(def[i + 1], i + 1) ELSE Err

\* Faulty variant: any token may follow.
ExpectAny(tok, def, i) == IF def = <<>> THEN Ok(tok, i) ELSE ReadToken(def, i)

\* A token that must follow, when there is a text.
Expect(tok, def, i) ==
    IF def = <<>> THEN Ok(tok, i)
    ELSE Bind(ReadToken(def, i), LAMBDA t, j : IF t = tok THEN Ok(t, j) ELSE Err)

\* Whether tv, read before i, is the name of the type, or qualifies it.
MatchStruct(vt, def, i, tv) ==
    LET next == IF i < Len(def) THEN def[i + 1] ELSE ""
    IN  IF vt.kind = "struct" /\ vt.name = "" THEN Ok(TRUE, i)
        ELSE IF next \in {"", ":", ">"} THEN Ok(vt.name = tv, i)
        ELSE IF next # "." THEN Err
        ELSE Bind(ReadToken(def, i + 1),
                  LAMBDA name, j : IF name \in Punctuation THEN Err ELSE Ok(vt.name = name, j))

\* The tag of a type that is no pointer, list or set: a keyword keeps the one its
\* kind stands for, the name of a type of 64-bit integers makes it an enum.
MatchType(vt, tag, def, i) ==
    IF def = <<>> THEN Ok(tag, i)
    ELSE Bind(ReadToken(def, i), LAMBDA tv, j :
        IF tv \in Keyword[tag] THEN Ok(tag, j)
        ELSE IF tv \in Punctuation THEN Err
        ELSE Bind(MatchStruct(vt, def, j, tv), LAMBDA same, k :
            IF ~same THEN Err
            ELSE Ok(IF tag = "i64" /\ vt # Int64 THEN "enum" ELSE tag, k)))

\* The parsers of the key and element types are functions of the text, the position
\* and whether a pointer is allowed.
doParseSlice(elem, vt, def, i) ==
    Bind(ReadToken(def, i), LAMBDA tag, i1 :
    IF tag \notin {"set", "list"} THEN Err
    ELSE Bind(Expect("<", def, i1), LAMBDA lt, i2 :
         Bind(elem[<<def, i2, TRUE>>], LAMBDA v, i3 :
         Bind(Expect(">", def, i3), LAMBDA gt, i4 :
         IF IsValueType(v) THEN Ok([T |-> tag, S |-> vt, V |-> v], i4) ELSE Err))))

ParseMap(key, elem, vt, def, i) ==
    Bind(Expect("<", def, i), LAMBDA lt, i1 :
    Bind(key[<<def, i1, TRUE>>], LAMBDA k, i2 :
    IF ~IsKeyType(k) THEN Err
    ELSE Bind(Expect(":", def, i2), LAMBDA colon, i3 :
         Bind(elem[<<def, i3, TRUE>>], LAMBDA v, i4 :
         Bind(Expect(">", def, i4), LAMBDA gt, i5 :
         IF IsValueType(v) THEN Ok([T |-> "map", S |-> vt, K |-> k, V |-> v], i5) ELSE Err)))))

\* The error of a nested pointer reads the type of an element that is nil.
ParseAt(key, elem, vt, def, i, allowPtrs) ==
    CASE vt.kind = "ptr" ->
            IF ~allowPtrs THEN Panic
            ELSE Bind(elem[<<def, i, FALSE>>], LAMBDA v, j : Ok([T |-> "pointer", S |-> vt, V |-> v], j))
      [] vt.kind = "slice" ->
            IF vt.elem = Byte
            THEN Bind(MatchType(vt, "binary", def, i), LAMBDA tag, j : Ok([T |-> tag, S |-> vt], j))
            ELSE IF def = <<>> THEN Err ELSE doParseSlice(elem, vt, def, i)
      [] vt.kind \in DOMAIN KindTag ->
            Bind(MatchType(vt, KindTag[vt.kind], def, i), LAMBDA tag, j :
                IF tag = "map" THEN ParseMap(key, elem, vt, def, j) ELSE Ok([T |-> tag, S |-> vt], j))
      [] OTHER -> Err

Parser(key, elem, vt) ==
    [at \in Seq(Token) \X Nat \X BOOLEAN |-> ParseAt(key, elem, vt, at[1], at[2], at[3])]

doParseType[vt \in GoType] == Parser(doParseType[vt.key], doParseType[vt.elem], vt)

\* What follows the type in the text is not read.
ParseType(vt, def) == doParseType[vt][<<def, 0, TRUE>>]
=============================================================================
