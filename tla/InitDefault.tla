----------------------------- MODULE InitDefault -----------------------------
(***************************************************************************)
(* The registry together with the user code it runs.  newStructDesc has    *)
(* DoResolveFields call the InitDefault of a struct that has one           *)
(* (internal/defs/resolver.go), while the goroutine holds sdsmu.  That     *)
(* code may use frugal too: the call looks its type up without the lock,   *)
(* and if the type is not published it waits for the mutex its own         *)
(* goroutine holds, and nobody will ever unlock it.                        *)
(***************************************************************************)
EXTENDS DescRegistry

CONSTANTS
    Asked,       \* bound: the types that calls are made with
    InitCalls    \* InitCalls[s]: the types that InitDefault of s may call frugal
                 \* with; none if s has no InitDefault, or one that does not

ASSUME AskedAssumption == Asked \subseteq RType
ASSUME InitCallsAssumption == InitCalls \in [Struct -> SUBSET RType]

VARIABLES
    init,       \* where each goroutine is with the InitDefault of the struct key
    want, in,   \* of the call it makes: its type, and the descriptor it has come to
    answered    \* history: the types with which calls have been given a descriptor

initVars == <<init, want, in, answered>>

InitI ==
    /\ Init
    /\ init = [g \in Goroutine |-> "before"]
    /\ want = arg
    /\ in = sd
    /\ answered = {}
-----------------------------------------------------------------------------
\* newStructDesc is about to be called, and calls InitDefault first.
Initialises(g) ==
    /\ pc[g] = "enter"
    /\ cache[key[g]] = NoDesc
    /\ InitCalls[StructOf(key[g])] # {}

InitGoto(g, from, to) == init[g] = from /\ init' = [init EXCEPT ![g] = to]

\* InitDefault calls EncodedSize, EncodeObject or DecodeObject, or this time does not.
InitCall(g) ==
    /\ Initialises(g)
    /\ InitGoto(g, "before", "lookup")
    /\ \E t \in InitCalls[StructOf(key[g])] : want' = [want EXCEPT ![g] = t]
    /\ UNCHANGED <<vars, in, answered>>

InitPlain(g) ==
    /\ Initialises(g)
    /\ InitGoto(g, "before", "after")
    /\ UNCHANGED <<vars, want, in, answered>>

\* Faulty variant: the lookup does without the published table and takes what the
\* prefetch has in its cache.
InitHitCache(g) ==
    /\ cache[Elem(want[g])] # NoDesc
    /\ InitGoto(g, "lookup", "walk")
    /\ in' = [in EXCEPT ![g] = cache[Elem(want[g])]]
    /\ UNCHANGED <<vars, want, answered>>

\* The lock-free lookup.
InitHit(g) ==
    /\ Get(want[g]) # NoDesc
    /\ InitGoto(g, "lookup", "walk")
    /\ in' = [in EXCEPT ![g] = Get(want[g])]
    /\ UNCHANGED <<vars, want, answered>>

\* createStructDesc, and sdsmu.Lock.  A step beyond it would need the mutex free.
InitMiss(g) ==
    /\ Get(want[g]) = NoDesc
    /\ InitGoto(g, "lookup", "lock")
    /\ UNCHANGED <<vars, want, in, answered>>

InitFollow(g) ==
    /\ init[g] = "walk"
    /\ \E t \in RefSet(in[g][1]) :
          IF Sd[t] = NoDesc
          THEN init' = [init EXCEPT ![g] = "fault"] /\ UNCHANGED in
          ELSE in' = [in EXCEPT ![g] = Sd[t]] /\ UNCHANGED init
    /\ UNCHANGED <<vars, want, answered>>

InitReturn(g) ==
    /\ InitGoto(g, "walk", "after")
    /\ in' = [in EXCEPT ![g] = NoDesc]
    /\ UNCHANGED <<vars, want, answered>>

\* The registry goes on when InitDefault has returned; it is called again for a
\* struct that is tried again.
Goes(g) ==
    /\ Initialises(g) => init[g] = "after"
    /\ init' = [init EXCEPT ![g] = "before"]
    /\ answered' = IF pc'[g] = "walk" THEN answered \cup {arg[g]} ELSE answered
    /\ UNCHANGED <<want, in>>

InitStep(g) ==
    InitCall(g) \/ InitPlain(g) \/ InitHit(g) \/ InitMiss(g) \/ InitFollow(g) \/ InitReturn(g)

NextI ==
    \E g \in Goroutine :
        \/ Step(g) /\ Goes(g)
        \/ InitStep(g)
        \/ \E t \in Asked : Call(g, t) /\ UNCHANGED initVars

SpecI == InitI /\ [][NextI]_<<vars, initVars>>

\* A goroutine inside a call is scheduled, sync.Mutex hands the lock to a waiter in the
\* end (its starvation mode), values are finite, and so is what InitDefault does.
FairnessI ==
    \A g \in Goroutine :
        /\ WF_<<vars, initVars>>((Entry(g) \/ Create(g)) /\ Goes(g))
        /\ SF_<<vars, initVars>>(Lock(g) /\ Goes(g))
        /\ WF_<<vars, initVars>>(Return(g) /\ Goes(g))
        /\ WF_<<vars, initVars>>(InitCall(g) \/ InitPlain(g) \/ InitHit(g) \/ InitMiss(g))
        /\ WF_<<vars, initVars>>(InitReturn(g))

FairSpecI == SpecI /\ FairnessI
-----------------------------------------------------------------------------
(***************************************************************************)
(* Properties                                                              *)
(***************************************************************************)
Stuck(g) == init[g] = "lock"

\* What user code meets in the middle of a prefetch is as good as what any other
\* caller meets: no nil descriptor, though its own goroutine is linking some
\* (desc.go, resolver.go:160).
InitNoFault == \A g \in Goroutine : init[g] # "fault"

\* An InitDefault may safely use a type that any call has been given a descriptor for:
\* it does not hang, with one exception.  A pointer is not bound when it comes second
\* to its struct (desc.go:61-63), so that its calls are answered, but from under the
\* mutex, which InitDefault cannot take (desc.go:59, 69-71, resolver.go:160).
NoHangOnceUsed ==
    \A g \in Goroutine :
        Stuck(g) /\ want[g] \in answered
            => want[g] # Elem(want[g]) /\ Elem(want[g]) \in answered

\* Every call ends, on all paths, unless some goroutine is stuck in that way.  Even then
\* a call is held up only at the mutex: one with a published type does not come there,
\* as its lookup is lock-free (desc.go:33).
CallEndsUnlessStuck ==
    \A g \in Goroutine :
        pc[g] = "lookup" ~>
            \/ pc[g] = "idle"
            \/ pc[g] \in {"lock", "enter"} /\ \E h \in Goroutine : Stuck(h)
=============================================================================
