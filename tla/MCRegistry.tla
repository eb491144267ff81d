----------------------------- MODULE MCRegistry -----------------------------
(***************************************************************************)
(* Two goroutines and five structs.  Good and Plain are valid and refer to *)
(* each other in a cycle, one by pointer and one by value; the InitDefault *)
(* of Good encodes a Plain, or does not.  Outer fails after it has linked  *)
(* both, which are used on their own; newStructDesc panics on Nested,      *)
(* which nobody refers to.  All types but one share a bucket.              *)
(***************************************************************************)
EXTENDS InitDefault

StructDef == {"Outer", "Good", "Bad", "Nested", "Plain"}
RefsDef ==
    [s \in StructDef |->
        CASE s = "Outer" -> << <<"Good", "ptr">>, <<"Bad", "struct">> >>
          [] s = "Good" -> << <<"Plain", "struct">> >>
          [] s = "Plain" -> << <<"Good", "ptr">> >>
          [] OTHER -> <<  >>]
OutcomeDef == [s \in StructDef |->
    CASE s = "Bad" -> "error" [] s = "Nested" -> "panic" [] OTHER -> "ok"]
HashDef == [t \in StructDef \X {"struct", "ptr"} |-> IF t = <<"Plain", "ptr">> THEN 1 ELSE 0]
AskedDef ==
    {<<"Outer", "ptr">>, <<"Good", "struct">>, <<"Good", "ptr">>, <<"Plain", "struct">>,
     <<"Plain", "ptr">>, <<"Bad", "ptr">>, <<"Nested", "struct">>}
InitCallsDef == [s \in StructDef |-> IF s = "Good" THEN {<<"Plain", "ptr">>} ELSE {}]

\* The proofs' hypothesis holds here: what is invalid is on no cycle, what panics is
\* not mentioned.
ASSUME InstanceIsTame == Tame
=============================================================================
