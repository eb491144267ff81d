----------------------------- MODULE TypeGrammar -----------------------------
(***************************************************************************)
(* What ParseType promises: the types that a Go type can stand for, and    *)
(* the texts that say which of them a field has.                           *)
(***************************************************************************)
EXTENDS TypeParser

\* A type of 64-bit integers other than int64 is an enum where its tag names it.
ScalarTags(go) ==
    IF KindTag[go.kind] = "i64" /\ go # Int64 THEN {"i64", "enum"} ELSE {KindTag[go.kind]}

\* The types that go can stand for, if elements of it can for elems and keys for keys.
ReadingsOf(go, elems, keys) ==
    CASE go.kind = "ptr" ->
            {[T |-> "pointer", S |-> go, V |-> v] : v \in IF go.elem.kind = "ptr" THEN {} ELSE elems}
      [] go.kind = "slice" ->
            IF go.elem = Byte THEN {[T |-> "binary", S |-> go]}
            ELSE {[T |-> t, S |-> go, V |-> v] :
                     t \in {"set", "list"}, v \in {v \in elems : IsValueType(v)}}
      [] go.kind = "map" ->
            {[T |-> "map", S |-> go, K |-> k, V |-> v] :
                k \in {k \in keys : IsKeyType(k)}, v \in {v \in elems : IsValueType(v)}}
      [] go.kind \in DOMAIN KindTag \ {"map"} -> {[T |-> t, S |-> go] : t \in ScalarTags(go)}
      [] OTHER -> {}

\* The types that a Go type can stand for.
Readings[go \in GoType] == ReadingsOf(go, Readings[go.elem], Readings[go.key])

\* The types: defs.Type.
Type == UNION {Readings[go] : go \in GoType}
-----------------------------------------------------------------------------
(***************************************************************************)
(* Texts. A token that is a keyword for the type is no name.               *)
(***************************************************************************)
Keywords(x) ==
    UNION {Keyword[t] : t \in DOMAIN Keyword \cap {IF x.T = "enum" THEN "i64" ELSE x.T}}
Words(x) == Identifiers \ Keywords(x)

Unqualified(x) == {<<n>> : n \in Words(x) \cap {x.S.name}}
Qualified(x) == {<<p, ".", n>> : p \in Words(x), n \in Identifiers \cap {x.S.name}}

\* A struct without a name goes by any.
Names(x) == IF x.S.kind = "struct" /\ x.S.name = "" THEN {<<n>> : n \in Words(x)}
            ELSE Unqualified(x) \cup Qualified(x)

\* The texts of lists and sets, and of maps, by those of what they hold.
ListTexts(t, elems) == {<<t, "<">> \o v \o <<">">> : v \in elems}
MapTexts(heads, keys, elems) ==
    {h \o <<"<">> \o k \o <<":">> \o v \o <<">">> : h \in heads, k \in keys, v \in elems}

TextsOf(x, keys, elems) ==
    CASE x.T = "pointer" -> elems
      [] x.T \in {"set", "list"} -> ListTexts(x.T, elems)
      [] x.T = "map" -> MapTexts({<<"map">>} \cup Qualified(x), keys, elems)
      [] x.T = "enum" -> Names(x)
      [] OTHER -> {<<k>> : k \in Keywords(x)}
                    \cup IF x.T = "i64" /\ x.S # Int64 THEN {} ELSE Names(x)

\* The texts that say x.
Texts[x \in Type] == TextsOf(x, Texts[x.K], Texts[x.V])

\* Whether the text def[i+1..n] of x ends where it can: a name that nothing qualifies
\* does at the end of def, of a key and of an element.
Ends(x, def, i, n) ==
    SubSeq(def, i + 1, n) \in Unqualified(Pointee(x)) => n = Len(def) \/ def[n + 1] \in {":", ">"}

\* Without a text a slice says nothing, and an integer is no enum.
NeedsText[x \in Type] ==
    \/ x.T \in {"set", "list", "enum"}
    \/ x.T = "map" /\ NeedsText[x.K]
    \/ x.T \in {"map", "pointer"} /\ NeedsText[x.V]

\* The types of a field whose Go type is go and whose tag starts with a text of
\* the type: one at most.
Denoted(go, def) ==
    {x \in Readings[go] :
        IF def = <<>> THEN ~NeedsText[x]
        ELSE LET texts == Texts[x]
             IN  \E n \in 0..Len(def) : SubSeq(def, 1, n) \in texts /\ Ends(x, def, 0, n)}
=============================================================================
