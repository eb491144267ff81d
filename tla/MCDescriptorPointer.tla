-------------------------- MODULE MCDescriptorPointer --------------------------
(***************************************************************************)
(* Structs with one field: a number, an optional pointer to a number, and  *)
(* an optional pointer to a slice.                                         *)
(***************************************************************************)
EXTENDS MCDescriptorBase

MCDecl == <<Opt("1", Int64, <<"i64">>), Opt("1", Ptr(Int64), <<"i64">>),
            Opt("1", Ptr(Slice(Int64)), ListOf(<<"i64">>))>>
MCGoType == GoTypes(MCDecl)
MCDepth == Depths(MCDecl)
MCIdentifiers == Tokens(MCDecl)
MCStructs == [decls : {<<i>> : i \in DOMAIN MCDecl}, init : {FALSE}]
=============================================================================
