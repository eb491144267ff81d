------------------------------- MODULE Resolver -------------------------------
(***************************************************************************)
(* The fields of a struct as its declaration gives them, DoResolveFields   *)
(* (internal/defs/resolver.go), and what it promises. A declaration is a   *)
(* record of the field's Go type and tags; the parts of a tag, which       *)
(* commas part in the code, are sequences of tokens.                       *)
(***************************************************************************)
EXTENDS TypeGrammar, FiniteSets, SequencesExt

CONSTANTS
    Numeral,    \* the texts that strconv.ParseUint takes for ids, and the id of each
    Decl        \* the declarations that structs are made of

\* Whether fields are anonymous or private, and their tags, <<>> if absent.
Tagged(d) == ~d.hidden /\ (d.frugal # <<>> \/ d.thrift # <<>>)

\* The name in a thrift tag is ignored.
lookupStructTag(d) == IF d.frugal # <<>> THEN d.frugal ELSE Tail(d.thrift)

ParseUint(part) == {Numeral[t] : t \in {t \in DOMAIN Numeral : part = <<t>>}}

\* The nth part, or what stands for one that is not there.
Part(ft, n, default) == IF n <= Len(ft) THEN ft[n] ELSE default
Requiredness(ft) == Part(ft, 2, <<"default">>)
Options(ft) == SubSeq(ft, 4, Len(ft))

\* Only optional fields or structs can be pointers.
PointerAllowed(spec, x) ==
    spec = <<"optional">> \/ x.T # "pointer" \/ PointsTo(x, {"struct"})

\* "nocopy", once, for strings.
OptionsAllowed(opts, x) ==
    opts = <<>> \/ (opts = <<<<"nocopy">>>> /\ Tag(x) = "string")

Used(ids, id) == id \in ids

\* One turn of the loop, whose result the next one goes on with.
ResolveField(acc, f) ==
    LET d == Decl[f]
        ft == lookupStructTag(d)
        id == IF ft = <<>> THEN {} ELSE ParseUint(ft[1])
        pt == ParseType(d.go, Part(ft, 3, <<>>))
    IN  IF acc.st # "ok" \/ ~Tagged(d) THEN acc
        ELSE IF \/ id = {} \/ \E n \in id : Used(acc.ids, n)
                \/ Requiredness(ft) \notin {<<"default">>, <<"required">>, <<"optional">>}
             THEN Err
        ELSE IF pt.st # "ok" THEN pt
        ELSE IF ~PointerAllowed(Requiredness(ft), pt.x) \/ ~OptionsAllowed(Options(ft), pt.x) THEN Err
        ELSE [st |-> "ok",
              ids |-> acc.ids \cup id,
              ff |-> Append(acc.ff, [F |-> f, ID |-> CHOOSE n \in id : TRUE, Type |-> pt.x,
                                     NoCopy |-> Options(ft) # <<>>, Spec |-> Requiredness(ft)])]

\* Faulty variant: the fields are left in the order of their declarations.
AsDeclared(ff) == ff

\* sort.Slice: a field comes after those of smaller ids.
SortedById(ff) ==
    LET Before(f) == {g \in ToSet(ff) : g.ID < f.ID}
    IN  [n \in DOMAIN ff |-> CHOOSE f \in ToSet(ff) : Cardinality(Before(f)) = n - 1]

\* s is the sequence of the struct's declarations, of which Turn[n] has resolved n.
DoResolveFields(s) ==
    LET Turn[n \in 0..Len(s)] ==
            IF n = 0 THEN [st |-> "ok", ids |-> {}, ff |-> <<>>] ELSE ResolveField(Turn[n - 1], s[n])
        r == Turn[Len(s)]
    IN  IF r.st = "ok" THEN [r EXCEPT !.ff = SortedById(@)] ELSE r
-----------------------------------------------------------------------------
(***************************************************************************)
(* What it promises, in any order of the declarations                      *)
(***************************************************************************)
\* The fields that one declaration can be: one, or none if it is wrong.
Fields(f) ==
    LET ft == lookupStructTag(Decl[f])
    IN  {x \in [F : {f}, ID : ParseUint(Part(ft, 1, <<>>)),
                Type : Denoted(Decl[f].go, Part(ft, 3, <<>>)),
                NoCopy : {Options(ft) = <<<<"nocopy">>>>},
                Spec : {Requiredness(ft)} \cap {<<"default">>, <<"required">>, <<"optional">>}] :
            /\ PointerAllowed(x.Spec, x.Type)
            /\ OptionsAllowed(Options(ft), x.Type)}

\* The fields of the struct, if every declaration is one and no two have an id.
Promised(s) ==
    LET D == {i \in DOMAIN s : Tagged(Decl[s[i]])}
        all == UNION {Fields(s[i]) : i \in D}
    IN  [ok |-> /\ \A i \in D : \E x \in all : x.F = s[i]
                /\ Cardinality({x.ID : x \in all}) = Cardinality(D),
         ff |-> all]
=============================================================================
