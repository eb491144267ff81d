-------------------------- MODULE MCRegistryPanic ---------------------------
\* A struct whose second field makes newStructDesc panic, and the caller recovers.
EXTENDS DescRegistry

StructDef == {"Outer", "Good", "Nested"}
RefsDef ==
    [s \in StructDef |->
        CASE s = "Outer" -> << <<"Good", "ptr">>, <<"Nested", "ptr">> >>
          [] s = "Good" -> <<  >>
          [] s = "Nested" -> <<  >>]
OutcomeDef == [s \in StructDef |-> IF s = "Nested" THEN "panic" ELSE "ok"]
HashDef == [t \in StructDef \X {"struct", "ptr"} |-> 0]
=============================================================================
