------------------------------ MODULE Allocator ------------------------------
(***************************************************************************)
(* What the decoder expects of its memory: a request for n bytes at an     *)
(* alignment is answered with a region of that size and alignment which    *)
(* has no byte in common with any region handed out before.  Nothing is    *)
(* ever taken back; that is left to the garbage collector.                 *)
(***************************************************************************)
EXTENDS Integers, Sequences

CONSTANTS Goroutine, Request, NoRequest, MaxMallocs

VARIABLES want, given

Init ==
    /\ want = [g \in Goroutine |-> NoRequest]
    /\ given = <<>>

Ask(g) ==
    /\ want[g] = NoRequest
    /\ Len(given) < MaxMallocs
    /\ \E r \in Request : want' = [want EXCEPT ![g] = r]
    /\ UNCHANGED given

Region == [lo : Nat, n : Nat]

Fresh(r) ==
    \A i \in 1..Len(given) :
        given[i].lo + given[i].n <= r.lo \/ r.lo + r.n <= given[i].lo

Answer(g) ==
    LET new == given'[Len(given) + 1]
    IN  /\ want[g] # NoRequest
        /\ Len(given') = Len(given) + 1
        /\ given' = Append(given, new)
        /\ new \in Region
        /\ new.n = want[g].n
        /\ new.lo % want[g].align = 0
        /\ Fresh(new)
        /\ want' = [want EXCEPT ![g] = NoRequest]

Next == \E g \in Goroutine : Ask(g) \/ Answer(g)

Spec == Init /\ [][Next]_<<want, given>>
=============================================================================
