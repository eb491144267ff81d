----------------------- MODULE MCRegistryCyclicError ------------------------
\* An invalid struct in a cycle: Node refers to Peer, which refers back to Node, and
\* then to an invalid struct.  The call for Peer that fails has linked *Node; the
\* next one for Peer publishes what it leads to.
EXTENDS DescRegistry

StructDef == {"Node", "Peer", "Bad"}
RefsDef ==
    [s \in StructDef |->
        CASE s = "Node" -> << <<"Peer", "ptr">>, <<"Bad", "ptr">> >>
          [] s = "Peer" -> << <<"Node", "ptr">> >>
          [] s = "Bad" -> <<  >>]
OutcomeDef == [s \in StructDef |-> IF s = "Bad" THEN "error" ELSE "ok"]
HashDef == [t \in StructDef \X {"struct", "ptr"} |-> 0]
=============================================================================
