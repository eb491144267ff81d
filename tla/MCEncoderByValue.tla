--------------------------- MODULE MCEncoderByValue ---------------------------
(***************************************************************************)
(* A list of structs held by value: []Point.  Point begins with a pointer. *)
(***************************************************************************)
EXTENDS MCEncoderBase, TLC

MCStructDesc == [
    Path |-> [fields |-> 1 :> MCField(List(Struct("Point")), "default"),
              unknown |-> FALSE, init |-> <<>>],
    Point |-> [fields |-> 1 :> MCField(Pointer(Scalar("i32")), "optional")
                       @@ 2 :> MCField(Scalar("i32"), "default"),
               unknown |-> FALSE, init |-> <<>>, first |-> 1]]

MCObject == {[sd |-> "Path", by |-> "pointer", val |-> [f |-> 1 :> points, u |-> <<>>]] :
                points \in {None, <<[f |-> 2 :> 5, u |-> <<>>]>>}}

MCTyped == Typed({<<o.sd, o.val>> : o \in MCObject})
MCValues == ByType(MCTyped)
MCValue == MCValues

MCOtherValue(s) == Zero
MCChanges(object) == {}
=============================================================================
