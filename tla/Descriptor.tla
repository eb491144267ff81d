------------------------------ MODULE Descriptor ------------------------------
(***************************************************************************)
(* Descriptors from declarations: newStructDesc resolves a struct's        *)
(* fields, gets their types from the cache ttypes, which all structs       *)
(* share, and builds the tables of FieldTable (internal/reflect/desc.go    *)
(* and ttype.go). All of it runs with sdsmu held: a descriptor is one      *)
(* step. Of the structs described, the last is followed into its tables.   *)
(* A *tType is named by its key in the cache, which has one for each.      *)
(***************************************************************************)
EXTENDS FieldTable, Resolver

CONSTANTS
    Depth,          \* how deep each Go type nests
    Structs,        \* the structs: their declarations, and whether they have InitDefault
    MaxDecls        \* the declarations in all structs described but the first

\* A Go type names or holds itself only through a struct, which is not looked into.
ASSUME GoTypeAssumption ==
    /\ Depth \in [GoType -> Nat]
    /\ \A go \in GoType :
          /\ go.kind \in {"ptr", "slice", "map"} => go.elem \in GoType /\ Depth[go.elem] < Depth[go]
          /\ go.kind = "map" => go.key \in GoType /\ Depth[go.key] < Depth[go]

ASSUME TokenAssumption == Identifiers \cap (Punctuation \cup {""}) = {}

ASSUME NumeralAssumption == \A t \in DOMAIN Numeral : Numeral[t] \in Uint16

\* A tag is a sequence of parts; the one of a type is a text of tokens.
ASSUME DeclAssumption ==
    \A f \in DOMAIN Decl :
        /\ Decl[f].go \in GoType
        /\ Tagged(Decl[f]) =>
              LET ft == lookupStructTag(Decl[f])
              IN  ft \in Seq(ToSet(ft)) /\ Part(ft, 3, <<>>) \in Seq(Token)

ASSUME StructsAssumption == Structs \subseteq [decls : Seq(DOMAIN Decl), init : BOOLEAN]

VARIABLES
    ttypes,     \* the cache
    used,       \* the declarations of the structs described
    struct,     \* the last struct described
    resolved,   \* what DoResolveFields returned
    outcome,    \* "none", "ok", "err" or "panic"
    desc        \* the fields of the struct's descriptor

descVars == <<ttypes, used, struct, resolved, outcome, desc>>

-----------------------------------------------------------------------------
(***************************************************************************)
(* ttype.go                                                                *)
(***************************************************************************)
typeToSize == [bool |-> 1, i8 |-> 1, double |-> 8, i16 |-> 2, i32 |-> 4, i64 |-> 8, enum |-> 4]
FixedSize(T) == IF T \in DOMAIN typeToSize THEN typeToSize[T] ELSE 0

\* x.String().
String[x \in Type] ==
    CASE x.T = "struct" -> <<x.S.name>>
      [] x.T = "map" -> <<"map", "<">> \o String[x.K] \o <<":">> \o String[x.V] \o <<">">>
      [] x.T \in {"set", "list"} -> <<x.T, "<">> \o String[x.V] \o <<">">>
      [] x.T = "pointer" -> <<"*">> \o String[x.V]
      [] OTHER -> <<x.T>>

\* Faulty variant: the key is the Go type.
GoTypeKey(x) == [T |-> <<>>, S |-> x.S]

\* ttypesK: the type and its Go type.
Key(x) == [T |-> String[x], S |-> x.S]

\* A type refers to its key and element types, once they are made.
Parts(x) ==
    CASE x.T = "map" -> <<x.K, x.V>>
      [] x.T \in {"set", "list", "pointer"} -> <<x.V>>
      [] OTHER -> <<>>

\* The entries of the cache. Of a key that is not in it, the entry is Nil.
Keys == {Key(x) : x \in Type}
Nil == [T |-> "nil"]
Tags == DOMAIN typeToSize \cup {"string", "binary", "struct", "map", "set", "list", "pointer"}
TType == [T : Tags, WT : Tags, Tag : Tags, RT : GoType, IsPointer : BOOLEAN,
          parts : Seq(Keys), AppendFunc : BOOLEAN]
Cache == [Keys -> TType \cup {Nil}]

\* Faulty variant: maps with enums as keys have not been registered, nor is there a
\* fallback.
NoEnumKeys(t) == t.T = "map" /\ (Len(t.parts) < 2 \/ t.parts[1].T = <<"enum">>)

\* The map of an appender is looked up by the types of its keys and values, and a
\* pointer to a map has no key type.
NoAppendFunc(t) == t.T = "map" /\ Len(t.parts) < 2

\* A new type, before its appender is set.
Made(x) ==
    [T |-> IF IsEnum(x) THEN "enum" ELSE Tag(x), WT |-> Tag(x), Tag |-> x.T, RT |-> x.S,
     IsPointer |-> x.T = "pointer", parts |-> [i \in DOMAIN Parts(x) |-> Key(Parts(x)[i])],
     AppendFunc |-> FALSE]

\* The cache after newTType, and whether it returned. The entry is in the cache
\* before the types it refers to are made.
newTType[x \in Type] == [c \in Cache |->
    LET entry == [c |-> [c EXCEPT ![Key(x)] = Made(x)], ok |-> TRUE]
        key == IF x.T = "map" THEN newTType[x.K][entry.c] ELSE entry
        made == IF x.T \in {"map", "set", "list", "pointer"} /\ key.ok THEN newTType[x.V][key.c] ELSE key
    IN  IF c[Key(x)] # Nil THEN [c |-> c, ok |-> TRUE]
        ELSE IF ~made.ok \/ NoAppendFunc(Made(x)) THEN [c |-> made.c, ok |-> FALSE]
        ELSE [c |-> [made.c EXCEPT ![Key(x)].AppendFunc = TRUE], ok |-> TRUE]]

\* All types of the fields, in order of their ids; a panic ends it.
NewTypes(c, ff) ==
    LET Turn[n \in 0..Len(ff)] ==
            IF n = 0 THEN [c |-> c, ok |-> TRUE]
            ELSE LET r == Turn[n - 1] IN IF r.ok THEN newTType[ff[n].Type][r.c] ELSE r
    IN  Turn[Len(ff)]
-----------------------------------------------------------------------------
(***************************************************************************)
(* desc.go                                                                 *)
(***************************************************************************)
\* A field of the descriptor: x as resolved, in a struct with or without defaults.
fromDefsField(x, c, init) ==
    LET t == c[Key(x.Type)]
        optional == x.Spec = <<"optional">>
    IN  [ID |-> x.ID, F |-> x.F, Type |-> Key(x.Type), Spec |-> x.Spec, NoCopy |-> x.NoCopy,
         CanSkipEncodeIfNil |-> /\ optional
                                /\ t.Tag \in {"pointer", "binary"} \/ t.T \in {"map", "list", "set"},
         CanSkipIfDefault |-> optional /\ t.Tag # "pointer" /\ init]

\* Faulty variant: optional fields have a size too.
SizeOfOptional(f, c) ==
    LET t == c[f.Type]
    IN  IF t.IsPointer \/ FixedSize(t.T) = 0 THEN -1 ELSE 3 + FixedSize(t.T)

\* The size of a field that is always written and has one, or -1.
FieldSize(f, c) ==
    LET t == c[f.Type]
    IN  IF t.IsPointer \/ f.Spec = <<"optional">> \/ FixedSize(t.T) = 0 THEN -1
        ELSE 3 + FixedSize(t.T)

fromDefsFields(ff, c, init) ==
    LET fields == [i \in DOMAIN ff |-> fromDefsField(ff[i], c, init)]
        fixed == {i \in DOMAIN ff : FieldSize(fields[i], c) > 0}
    IN  [fields |-> fields,
         fixedLenFieldSize |-> SumFunctionOnSet([i \in fixed |-> FieldSize(fields[i], c)], fixed),
         varLenFields |-> DOMAIN ff \ fixed,
         requiredFieldIDs |-> {f.ID : f \in {g \in ToSet(fields) : g.Spec = <<"required">>}}]

InitD ==
    /\ Init
    /\ ttypes = [k \in Keys |-> Nil]
    /\ used = 0
    /\ struct = [decls |-> <<>>, init |-> FALSE]
    /\ resolved = Err
    /\ outcome = "none"
    /\ desc = [fields |-> <<>>, fixedLenFieldSize |-> 0, varLenFields |-> {}, requiredFieldIDs |-> {}]

\* The cache after the types of the fields that r resolved to are made, if it did.
Types(r) == IF r.st = "ok" THEN NewTypes(ttypes, r.ff) ELSE [c |-> ttypes, ok |-> TRUE]

\* The descriptor of s, whose fields are resolved to r.
Finish(s, r, types) ==
    /\ used' = used + Len(s.decls)
    /\ struct' = s
    /\ resolved' = r
    /\ ttypes' = types.c
    /\ outcome' = IF r.st = "ok" /\ ~types.ok THEN "panic" ELSE r.st
    /\ desc' = IF outcome' = "ok" THEN fromDefsFields(r.ff, types.c, s.init) ELSE desc

\* newStructDesc, with the panics of a nested pointer and of a pointer to a map,
\* which keep what is in the cache.
newStructDesc(s) ==
    LET Resolved(r) == Finish(s, r, Types(r))
    IN  /\ used = 0 \/ used + Len(s.decls) <= MaxDecls
        /\ Resolved(DoResolveFields(s.decls))

\* The tables of the struct, if they are followed.
BuildTables ==
    /\ outcome' = "ok"
    /\ Build({f.ID : f \in ToSet(resolved'.ff)})

Describe ==
    /\ pc = "new"
    /\ \E s \in Structs : newStructDesc(s) /\ (UNCHANGED vars \/ BuildTables)

NextD ==
    \/ Describe
    \/ \E x \in Uint16 : GetField(x) /\ UNCHANGED descVars
    \/ \E i \in ids : (Set(i) \/ Unset(i)) /\ UNCHANGED descVars

SpecD == InitD /\ [][NextD]_<<vars, descVars>>
-----------------------------------------------------------------------------
(***************************************************************************)
(* Properties                                                              *)
(***************************************************************************)
\* A struct has a descriptor exactly when each of its tagged fields is one field
\* by the grammar of tags and no two have the same id, whatever the order they are
\* declared in; it has those fields, in order of their ids (resolver.go, types.go).
FieldsAsDeclared ==
    LET promised == Promised(struct.decls)
        ff == resolved.ff
    IN  outcome # "none" =>
            /\ (resolved.st = "ok") <=> promised.ok
            /\ resolved.st = "ok" =>
                  /\ ToSet(ff) = promised.ff
                  /\ \A i, j \in DOMAIN ff : i < j => ff[i].ID < ff[j].ID

\* GetField answers with the field of the descriptor that has the id of a message,
\* and with none if no field has it: the table is that of the fields as they are
\* sorted, with every id of a struct (desc.go, resolver.go).
FieldFound ==
    fid # -1 =>
        IF got = -1 THEN \A f \in ToSet(desc.fields) : f.ID # fid
        ELSE got + 1 \in DOMAIN desc.fields /\ desc.fields[got + 1].ID = fid

\* The defs.Type that a cached type stands for.
Unfolded[k \in Keys] ==
    LET t == ttypes[k]
    IN  IF t = Nil THEN Nil
        ELSE CASE t.Tag = "map" ->
                    [T |-> t.Tag, S |-> t.RT, K |-> Unfolded[t.parts[1]], V |-> Unfolded[t.parts[2]]]
               [] t.Tag \in {"set", "list", "pointer"} -> [T |-> t.Tag, S |-> t.RT, V |-> Unfolded[t.parts[1]]]
               [] OTHER -> [T |-> t.Tag, S |-> t.RT]

\* A type from the cache is the field's own, through all of its elements: a set is
\* not taken for a list nor an enum for an integer where their Go types are equal,
\* whichever struct brought the other into the cache (ttype.go).
CacheKeepsTypesApart ==
    outcome = "ok" => \A i \in DOMAIN desc.fields : Unfolded[desc.fields[i].Type] = resolved.ff[i].Type

\* Whether newTType came to the end with a type, and with all it refers to.
Finished[k \in Keys] ==
    LET t == ttypes[k] IN t # Nil /\ t.AppendFunc /\ \A i \in DOMAIN t.parts : Finished[t.parts[i]]

\* A panic leaves the type that was being made in the cache, without its appender,
\* and the next struct with that type has it from there (ttype.go:164). What is met
\* half made is a pointer to a map, as a field's own type: other types, those of the
\* struct that panicked and those that pointer is made of included, are whole.
HalfMadeIsPointerToMap ==
    outcome = "ok" =>
        \A f \in ToSet(desc.fields) :
            LET go == Decl[f.F].go
            IN  Finished[f.Type] \/ (go.kind = "ptr" /\ go.elem.kind = "map")

\* What lies at the address of a value of a Go type.
Layout[go \in GoType] ==
    CASE go.kind = "ptr" -> <<"*">> \o Layout[go.elem]
      [] go.kind = "slice" -> <<"slice">> \o Layout[go.elem]
      [] go.kind = "map" -> <<"map">> \o Layout[go.key] \o Layout[go.elem]
      [] go.kind \in {"bool", "int8", "uint8"} -> <<"8 bits">>
      [] go.kind = "int16" -> <<"16 bits">>
      [] go.kind = "int32" -> <<"32 bits">>
      [] go.kind \in {"int", "int64", "float64"} -> <<"64 bits">>
      [] go.kind = "struct" -> <<"struct", go.pkg, go.name>>
      [] OTHER -> <<go.kind>>

\* The appenders of lists and maps that take an element where it is, and follow no
\* pointer to it: those of simple types, but for lists of bool.
Inline(t, e) ==
    \/ e.T \in DOMAIN typeToSize \ (IF t.T = "map" THEN {} ELSE {"bool"})
    \/ e.T = "string"

\* What appendAny and the appenders of lists and maps take the memory of a value for;
\* those of containers do not follow a pointer to it.
Value[k \in Keys] ==
    LET t == ttypes[k]
        S == IF t.IsPointer THEN t.RT.elem ELSE t.RT
        Element(i) ==
            IF i > Len(t.parts) \/ ttypes[t.parts[i]] = Nil THEN <<"nil">>
            ELSE LET e == ttypes[t.parts[i]]
                 IN  IF e.IsPointer /\ ~Inline(t, e) THEN <<"*">> \o Value[t.parts[i]] ELSE Value[t.parts[i]]
    IN  IF t = Nil THEN <<"nil">>
        ELSE CASE t.T \in {"bool", "i8"} -> <<"8 bits">>
               [] t.T = "i16" -> <<"16 bits">>
               [] t.T = "i32" -> <<"32 bits">>
               [] t.T \in {"enum", "i64", "double"} -> <<"64 bits">>
               [] t.T = "string" -> IF t.Tag = "binary" THEN <<"slice", "8 bits">> ELSE <<"string">>
               [] t.T \in {"list", "set"} -> <<"slice">> \o Element(1)
               [] t.T = "map" -> <<"map">> \o Element(1) \o Element(2)
               [] OTHER -> <<"struct", S.pkg, S.name>>

Access(k) == IF ttypes[k].IsPointer THEN <<"*">> \o Value[k] ELSE Value[k]

PointsToContainer(go) == go.kind = "ptr" /\ go.elem.kind \in {"slice", "map"}

\* The encoder and the decoder take the memory of a field for what its Go type
\* makes it, at every depth: an address is followed where there is one and nowhere
\* else, and a number has its width (append.go, decoder.go). Pointers to
\* containers are the exception that EveryFieldReadAsLaidOut is about.
ReadAsLaidOut ==
    outcome = "ok" =>
        \A f \in ToSet(desc.fields) :
            ~PointsToContainer(Decl[f.F].go) => Access(f.Type) = Layout[Decl[f.F].go]

\* EncodedSize counts a field without looking at it only if appendStruct writes it
\* whatever it holds, and counts what is written; it looks at every other
\* (desc.go, ttype.go, append.go).
CountedUnseenIsWritten ==
    outcome = "ok" =>
        LET Skippable(f) == f.CanSkipEncodeIfNil \/ f.CanSkipIfDefault
            counted == DOMAIN desc.fields \ desc.varLenFields
        IN  /\ \A i \in counted : ~Skippable(desc.fields[i])
            /\ desc.fixedLenFieldSize =
                 SumFunctionOnSet([i \in counted |-> 3 + FixedSize(Pointee(resolved.ff[i].Type).T)], counted)

\* A struct that the resolver accepts has a descriptor, by which all of its fields
\* are read as they are laid out: "only optional fields or structs can be pointers"
\* (resolver.go), and any optional field can.
EveryFieldReadAsLaidOut ==
    /\ resolved.st = "ok" => outcome = "ok"
    /\ outcome = "ok" => \A f \in ToSet(desc.fields) : Access(f.Type) = Layout[Decl[f.F].go]
=============================================================================
