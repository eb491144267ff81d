----------------------------- MODULE WireGrammar -----------------------------
(***************************************************************************)
(* The Thrift binary encoding as a grammar.  W is a family of languages of *)
(* tokens that is closed under the rules: W.value[wt], the values of a     *)
(* wire type; W.fields, the fields of a struct; W.elems[wt, n], n elements *)
(* of a list; W.entries[kt, vt, n], n entries of a map.  What is in every  *)
(* such family is what the rules alone derive.                             *)
(***************************************************************************)
EXTENDS Wire

WireType == DOMAIN MinWireSize

Languages(W) ==
    /\ W.value \in [WireType -> SUBSET Seq(W.token)]
    /\ W.fields \in SUBSET Seq(W.token)
    /\ W.elems \in [WireType \X Nat -> SUBSET Seq(W.token)]
    /\ W.entries \in [WireType \X WireType \X Nat -> SUBSET Seq(W.token)]

\* A number has the width of its type.
SimpleRule(W) ==
    /\ \A wt \in WireType \cap DOMAIN FixedSize, v \in Int : <<Num(FixedSize[wt], v)>> \in W.value[wt]
    /\ \A s \in Seq(STRING) : <<Str(s)>> \in W.value["string"]

FieldRule(W) ==
    /\ <<>> \in W.fields
    /\ \A wt \in WireType, id \in Nat :
          /\ Field(wt, id) \in W.token
          /\ \A f \in W.fields, v \in W.value[wt] : (f \o <<Field(wt, id)>>) \o v \in W.fields
    /\ \A f, g \in W.fields : f \o g \in W.fields

StructRule(W) ==
    /\ Stop \in W.token
    /\ \A f \in W.fields : f \o <<Stop>> \in W.value["struct"]

\* A header counts what follows it.
ListRule(W) ==
    \A wt \in WireType :
        /\ <<>> \in W.elems[<<wt, 0>>]
        /\ \A n \in Nat :
              /\ ListHeader(wt, n) \in W.token
              /\ \A e \in W.elems[<<wt, n>>] :
                    /\ \A v \in W.value[wt] : e \o v \in W.elems[<<wt, n + 1>>]
                    /\ <<ListHeader(wt, n)>> \o e \in W.value["list"] \cap W.value["set"]

MapRule(W) ==
    \A kt, vt \in WireType :
        /\ <<>> \in W.entries[<<kt, vt, 0>>]
        /\ \A n \in Nat :
              /\ MapHeader(kt, vt, n) \in W.token
              /\ \A e \in W.entries[<<kt, vt, n>>] :
                    /\ \A k \in W.value[kt], v \in W.value[vt] : (e \o k) \o v \in W.entries[<<kt, vt, n + 1>>]
                    /\ <<MapHeader(kt, vt, n)>> \o e \in W.value["map"]

Grammar(W) ==
    /\ Languages(W)
    /\ SimpleRule(W) /\ FieldRule(W) /\ StructRule(W) /\ ListRule(W) /\ MapRule(W)

WholeFields(s) == \A W : Grammar(W) => s \in W.fields
WholeStruct(s) == \A W : Grammar(W) => s \in W.value["struct"]
=============================================================================
