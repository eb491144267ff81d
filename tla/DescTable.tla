----------------------------- MODULE DescTable -----------------------------
(***************************************************************************)
(* What the descriptor registry promises its callers: a table from types   *)
(* to descriptors whose entries are written once, in which a struct and    *)
(* its pointer type share a descriptor, and from which each call is        *)
(* answered, or refused if its struct is not valid.  Nothing is said of    *)
(* locks, slots or the order descriptors are built in.                     *)
(***************************************************************************)
CONSTANTS
    Goroutine,     \* the callers
    RType,         \* the types calls are made with
    Desc,          \* descriptors
    Elem(_),       \* the struct type of a type
    BuiltFor(_),   \* the type a descriptor was built for
    Valid(_),      \* the structs that have a descriptor
    NoDesc, NoType

VARIABLES
    table,     \* the descriptor of each type, or NoDesc
    asked,     \* the type each goroutine's call is about, or NoType
    reply      \* the descriptor its call works with, or NoDesc

vars == <<table, asked, reply>>

Init ==
    /\ table = [t \in RType |-> NoDesc]
    /\ asked = [g \in Goroutine |-> NoType]
    /\ reply = [g \in Goroutine |-> NoDesc]

Ask(g, t) ==
    /\ asked[g] = NoType
    /\ asked' = [asked EXCEPT ![g] = t]
    /\ UNCHANGED <<table, reply>>

\* A struct is bound to a new descriptor, a pointer type to its struct's.
Bind(t) ==
    /\ table[t] = NoDesc
    /\ table'[t] \in Desc
    /\ BuiltFor(table'[t]) = Elem(t)
    /\ t # Elem(t) => table'[t] = table[Elem(t)]
    /\ table' = [table EXCEPT ![t] = table'[t]]
    /\ UNCHANGED <<asked, reply>>

Answer(g) ==
    /\ asked[g] # NoType
    /\ reply[g] = NoDesc
    /\ Valid(asked[g])
    /\ table[Elem(asked[g])] # NoDesc
    /\ reply' = [reply EXCEPT ![g] = table[Elem(asked[g])]]
    /\ UNCHANGED <<table, asked>>

Refuse(g) ==
    /\ asked[g] # NoType
    /\ reply[g] = NoDesc
    /\ ~Valid(asked[g])
    /\ asked' = [asked EXCEPT ![g] = NoType]
    /\ UNCHANGED <<table, reply>>

Finish(g) ==
    /\ reply[g] # NoDesc
    /\ asked' = [asked EXCEPT ![g] = NoType]
    /\ reply' = [reply EXCEPT ![g] = NoDesc]
    /\ UNCHANGED table

Next ==
    \/ \E g \in Goroutine : Answer(g) \/ Refuse(g) \/ Finish(g) \/ \E t \in RType : Ask(g, t)
    \/ \E t \in RType : Bind(t)

Spec == Init /\ [][Next]_vars
=============================================================================
