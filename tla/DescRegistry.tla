---------------------------- MODULE DescRegistry ----------------------------
(***************************************************************************)
(* The registry of struct descriptors of internal/reflect: the lock-free   *)
(* table sds (descmap.go), the mutex sdsmu, and the depth-first prefetch   *)
(* of a struct's descriptor and of every struct it refers to (desc.go).    *)
(*                                                                         *)
(* Any number of goroutines call EncodedSize, Append or Decode with a      *)
(* value of some type.  Each call first looks the type up without a lock;  *)
(* on a miss it takes sdsmu, looks again, builds the missing descriptors,  *)
(* links them to one another through the shared tType.Sd fields, publishes *)
(* the root and unlocks.  It then walks the descriptor graph without a     *)
(* lock, one Sd link after another, as the encoder and the decoder do.     *)
(***************************************************************************)
EXTENDS Naturals, Sequences, FiniteSets

CONSTANTS
    Goroutine,   \* the concurrent callers
    Struct,      \* the Go struct types
    Refs,        \* Refs[s]: the struct types the fields of s mention, in the order
                 \* prefetchSubStructDesc visits them; a map field gives the ones of
                 \* its key type and then those of its value type
    Outcome,     \* Outcome[s]: what newStructDesc does with s
    Hash,        \* abiType & mapStructDescBuckets
    NoDesc,      \* the nil *structDesc
    NoOne,       \* the value of sdsmu when it is unlocked
    MaxCalls     \* bound: the calls one goroutine makes

\* A reflect.Type: a struct, or a pointer to one.
RType == Struct \X {"struct", "ptr"}
StructOf(t) == t[1]
Elem(t) == <<t[1], "struct">>
AnyType == CHOOSE t \in RType : TRUE   \* the locals of a goroutine before its first call

\* A descriptor object.  A struct and its pointer type have each its own in the
\* prefetch cache, and a failed attempt leaves one behind that a later attempt
\* does not reuse, so the number of the attempt is part of the identity.
Desc == RType \X Nat

RefSet(t) == {Refs[StructOf(t)][i] : i \in 1..Len(Refs[StructOf(t)])}

ASSUME GoroutineAssumption == NoOne \notin Goroutine
ASSUME StructAssumption == Struct # {}
ASSUME RefsAssumption == Refs \in [Struct -> Seq(RType)]
ASSUME OutcomeAssumption == Outcome \in [Struct -> {"ok", "error", "panic"}]
ASSUME HashAssumption == Hash \in [RType -> Nat]
ASSUME NoDescAssumption == NoDesc \notin Desc
ASSUME MaxCallsAssumption == MaxCalls \in Nat

VARIABLES
    slots,       \* sds.slots: the published descriptors, bucket by bucket
    sdsmu,       \* the holder of the mutex, or NoOne
    cache,       \* prefetchStructDescCache
    Sd,          \* Sd[t]: field Sd of the tType every mention of t shares
    made,        \* made[t]: descriptors built for t so far
    pc, arg, key, stack, sd, items, at, calls  \* locals of each goroutine

shared == <<slots, sdsmu, cache, Sd, made>>
local == <<pc, arg, key, stack, sd, items, at, calls>>
vars == <<shared, local>>

Frame == [key : RType, sd : Desc, i : Nat]

Bucket == {Hash[t] : t \in RType}
Item == [RType -> Desc \cup {NoDesc}]
NoItems == [t \in RType |-> NoDesc]

\* mapStructDesc.Get: one atomic load of the slot, then a scan of a slice nobody
\* writes again.
Get(t) == slots[Hash[t]][t]

Published == {t \in RType : Get(t) # NoDesc}

Init ==
    /\ slots = [b \in Bucket |-> NoItems]
    /\ sdsmu = NoOne
    /\ cache = [t \in RType |-> NoDesc]
    /\ Sd = [t \in RType |-> NoDesc]
    /\ made = [t \in RType |-> 0]
    /\ pc = [g \in Goroutine |-> "idle"]
    /\ arg = [g \in Goroutine |-> AnyType]
    /\ key = arg
    /\ stack = [g \in Goroutine |-> <<>>]
    /\ sd = [g \in Goroutine |-> NoDesc]
    /\ items = [g \in Goroutine |-> NoItems]
    /\ at = [g \in Goroutine |-> NoDesc]
    /\ calls = [g \in Goroutine |-> 0]
-----------------------------------------------------------------------------
\* The entry points: EncodedSize, Append and Decode.

Goto(g, from, to) == pc[g] = from /\ pc' = [pc EXCEPT ![g] = to]

\* A call with a value of type t: a struct or a pointer to one.
Call(g, t) ==
    /\ calls[g] < MaxCalls
    /\ Goto(g, "idle", "lookup")
    /\ arg' = [arg EXCEPT ![g] = t]
    /\ calls' = [calls EXCEPT ![g] = @ + 1]
    /\ UNCHANGED <<shared, key, stack, sd, items, at>>

\* The lock-free lookup finds the descriptor.
LookupHit(g) ==
    /\ Get(arg[g]) # NoDesc
    /\ Goto(g, "lookup", "walk")
    /\ sd' = [sd EXCEPT ![g] = Get(arg[g])]
    /\ at' = [at EXCEPT ![g] = Get(arg[g])]
    /\ UNCHANGED <<shared, arg, key, stack, items, calls>>

LookupMiss(g) ==
    /\ Get(arg[g]) = NoDesc
    /\ Goto(g, "lookup", "lock")
    /\ UNCHANGED <<shared, arg, key, stack, sd, items, at, calls>>

-----------------------------------------------------------------------------
\* createStructDesc: everything between sdsmu.Lock and the deferred Unlock.

\* Faulty variant: the mutex does not exclude.
LockUnguarded(g) ==
    /\ Goto(g, "lock", "recheck")
    /\ sdsmu' = g
    /\ UNCHANGED <<slots, cache, Sd, made, arg, key, stack, sd, items, at, calls>>

Lock(g) ==
    /\ sdsmu = NoOne
    /\ Goto(g, "lock", "recheck")
    /\ sdsmu' = g
    /\ UNCHANGED <<slots, cache, Sd, made, arg, key, stack, sd, items, at, calls>>

\* Someone published the struct while this goroutine waited.  Only the struct
\* type is looked up, and a pointer type is not bound on this path.
RecheckHit(g) ==
    /\ Get(Elem(arg[g])) # NoDesc
    /\ Goto(g, "recheck", "unlock")
    /\ sd' = [sd EXCEPT ![g] = Get(Elem(arg[g]))]
    /\ UNCHANGED <<shared, arg, key, stack, items, at, calls>>

\* Faulty variant: the descriptor is built for the argument's type, not its struct.
RecheckMissPointer(g) ==
    /\ Get(Elem(arg[g])) = NoDesc
    /\ Goto(g, "recheck", "enter")
    /\ key' = [key EXCEPT ![g] = arg[g]]
    /\ UNCHANGED <<shared, arg, stack, sd, items, at, calls>>

RecheckMiss(g) ==
    /\ Get(Elem(arg[g])) = NoDesc
    /\ Goto(g, "recheck", "enter")
    /\ key' = [key EXCEPT ![g] = Elem(arg[g])]
    /\ UNCHANGED <<shared, arg, stack, sd, items, at, calls>>

\* newStructDescAndPrefetch(key): the cache has the type, possibly one whose
\* prefetch is still in progress further down the stack.
EnterCached(g) ==
    /\ cache[key[g]] # NoDesc
    /\ Goto(g, "enter", "return")
    /\ sd' = [sd EXCEPT ![g] = cache[key[g]]]
    /\ UNCHANGED <<shared, arg, key, stack, items, at, calls>>

\* newStructDesc succeeds: the descriptor enters the cache before the structs
\* it refers to are prefetched.
EnterNew(g) ==
    LET t == key[g]
        d == <<t, made[t]>>
    IN  /\ cache[t] = NoDesc
        /\ Outcome[StructOf(t)] = "ok"
        /\ Goto(g, "enter", "fields")
        /\ made' = [made EXCEPT ![t] = @ + 1]
        /\ cache' = [cache EXCEPT ![t] = d]
        /\ stack' = [stack EXCEPT ![g] = Append(@, [key |-> t, sd |-> d, i |-> 1])]
        /\ UNCHANGED <<slots, sdsmu, Sd, arg, key, sd, items, at, calls>>

\* Faulty variant: prefetchSubStructDesc overlooks the error and goes on.
EnterErrorIgnored(g) ==
    /\ cache[key[g]] = NoDesc
    /\ Outcome[StructOf(key[g])] = "error"
    /\ stack[g] # <<>>
    /\ Goto(g, "enter", "fields")
    /\ stack' = [stack EXCEPT ![g][Len(stack[g])].i = @ + 1]
    /\ UNCHANGED <<shared, arg, key, sd, items, at, calls>>

\* newStructDesc returns an error (an invalid tag, an unsupported type ...).
EnterError(g) ==
    /\ cache[key[g]] = NoDesc
    /\ Outcome[StructOf(key[g])] = "error"
    /\ Goto(g, "enter", "fail")
    /\ UNCHANGED <<shared, arg, key, stack, sd, items, at, calls>>

\* Faulty variant: Unlock is not deferred.
EnterPanicLocked(g) ==
    /\ cache[key[g]] = NoDesc
    /\ Outcome[StructOf(key[g])] = "panic"
    /\ Goto(g, "enter", "idle")
    /\ stack' = [stack EXCEPT ![g] = <<>>]
    /\ sd' = [sd EXCEPT ![g] = NoDesc]
    /\ UNCHANGED <<shared, arg, key, items, at, calls>>

\* newStructDesc panics: the stack unwinds to the caller of the entry point with
\* the deferred Unlock as its only effect.  The caller is assumed to recover.
EnterPanic(g) ==
    /\ cache[key[g]] = NoDesc
    /\ Outcome[StructOf(key[g])] = "panic"
    /\ Goto(g, "enter", "unlock")
    /\ stack' = [stack EXCEPT ![g] = <<>>]
    /\ sd' = [sd EXCEPT ![g] = NoDesc]
    /\ UNCHANGED <<shared, arg, key, items, at, calls>>

\* The loop of prefetchSubStructDesc in the innermost frame, and fetchStructDesc
\* on the reference it has come to.
Top(g) == stack[g][Len(stack[g])]
FieldsOf(g) == Refs[StructOf(Top(g).key)]
CurRef(g) == FieldsOf(g)[Top(g).i]
Pop(g) == SubSeq(stack[g], 1, Len(stack[g]) - 1)

Advance(g) == [stack EXCEPT ![g][Len(stack[g])].i = @ + 1]

FieldLinked(g) ==
    /\ pc[g] = "fields"
    /\ Top(g).i <= Len(FieldsOf(g))
    /\ Sd[CurRef(g)] # NoDesc
    /\ stack' = Advance(g)
    /\ UNCHANGED <<shared, pc, arg, key, sd, items, at, calls>>

\* Faulty variant: the shortcut for t.Sd != nil is gone.
FieldDescendAlways(g) ==
    /\ Goto(g, "fields", "enter")
    /\ Top(g).i <= Len(FieldsOf(g))
    /\ key' = [key EXCEPT ![g] = CurRef(g)]
    /\ UNCHANGED <<shared, arg, stack, sd, items, at, calls>>

FieldDescend(g) ==
    /\ Goto(g, "fields", "enter")
    /\ Top(g).i <= Len(FieldsOf(g))
    /\ Sd[CurRef(g)] = NoDesc
    /\ key' = [key EXCEPT ![g] = CurRef(g)]
    /\ UNCHANGED <<shared, arg, stack, sd, items, at, calls>>

\* Faulty variant: the loop stops before the last reference.
FieldsDoneEarly(g) ==
    /\ Goto(g, "fields", "return")
    /\ Top(g).i >= Len(FieldsOf(g))
    /\ sd' = [sd EXCEPT ![g] = Top(g).sd]
    /\ stack' = [stack EXCEPT ![g] = Pop(g)]
    /\ UNCHANGED <<shared, arg, key, items, at, calls>>

FieldsDone(g) ==
    /\ Goto(g, "fields", "return")
    /\ Top(g).i > Len(FieldsOf(g))
    /\ sd' = [sd EXCEPT ![g] = Top(g).sd]
    /\ stack' = [stack EXCEPT ![g] = Pop(g)]
    /\ UNCHANGED <<shared, arg, key, items, at, calls>>

\* Faulty variant: the link is left out when the descriptor is still in progress.
LinkFinishedOnly(g) ==
    /\ Goto(g, "return", "fields")
    /\ stack[g] # <<>>
    /\ Sd' = IF \E j \in 1..Len(stack[g]) : stack[g][j].sd = sd[g]
             THEN Sd ELSE [Sd EXCEPT ![CurRef(g)] = sd[g]]
    /\ stack' = Advance(g)
    /\ UNCHANGED <<slots, sdsmu, cache, made, arg, key, sd, items, at, calls>>

\* newStructDescAndPrefetch returns to fetchStructDesc, which writes t.Sd.
Link(g) ==
    /\ Goto(g, "return", "fields")
    /\ stack[g] # <<>>
    /\ Sd' = [Sd EXCEPT ![CurRef(g)] = sd[g]]
    /\ stack' = Advance(g)
    /\ UNCHANGED <<slots, sdsmu, cache, made, arg, key, sd, items, at, calls>>

\* Faulty variant: only the argument's own type is published.
RootReturnArg(g) ==
    /\ Goto(g, "return", "set")
    /\ stack[g] = <<>>
    /\ key' = [key EXCEPT ![g] = arg[g]]
    /\ UNCHANGED <<shared, arg, stack, sd, items, at, calls>>

\* It returns to createStructDesc, which publishes the struct type first.
RootReturn(g) ==
    /\ Goto(g, "return", "set")
    /\ stack[g] = <<>>
    /\ key' = [key EXCEPT ![g] = Elem(arg[g])]
    /\ UNCHANGED <<shared, arg, stack, sd, items, at, calls>>

\* An error travels up: each frame takes its own struct out of the cache.
Fail(g) ==
    /\ pc[g] = "fail"
    /\ stack[g] # <<>>
    /\ cache' = [cache EXCEPT ![Top(g).key] = NoDesc]
    /\ stack' = [stack EXCEPT ![g] = Pop(g)]
    /\ UNCHANGED <<slots, sdsmu, Sd, made, pc, arg, key, sd, items, at, calls>>

RootFail(g) ==
    /\ Goto(g, "fail", "unlock")
    /\ stack[g] = <<>>
    /\ sd' = [sd EXCEPT ![g] = NoDesc]
    /\ UNCHANGED <<shared, arg, key, stack, items, at, calls>>

-----------------------------------------------------------------------------
\* mapStructDesc.Set(key, sd), called once for the struct type and, when the
\* argument is a pointer, once more for the pointer type.

\* Faulty variant: a pointer type is not bound.
NextSetStruct(g) == "unlock"

NextSet(g) == IF key[g] = arg[g] THEN "unlock" ELSE "set"

\* Set copies the slot's items and changes the copy ...  Its early return for a key
\* that has sd already is never taken (this goroutine found the struct unbound under
\* the mutex, and a pointer type is only bound after its struct); there is no step
\* for it, so that a call which came to it would be stuck and break CallEnds.
SetCopy(g) ==
    /\ Get(key[g]) # sd[g]
    /\ Goto(g, "set", "store")
    /\ items' = [items EXCEPT ![g] = [slots[Hash[key[g]]] EXCEPT ![key[g]] = sd[g]]]
    /\ UNCHANGED <<shared, arg, key, stack, sd, at, calls>>

\* Faulty variant: the item is written over the slot without the items it had.
SetStoreAlone(g) ==
    /\ Goto(g, "store", NextSet(g))
    /\ slots' = [slots EXCEPT ![Hash[key[g]]] = [NoItems EXCEPT ![key[g]] = sd[g]]]
    /\ key' = [key EXCEPT ![g] = arg[g]]
    /\ UNCHANGED <<sdsmu, cache, Sd, made, arg, stack, sd, items, at, calls>>

\* ... and stores it over the slot.
SetStore(g) ==
    /\ Goto(g, "store", NextSet(g))
    /\ slots' = [slots EXCEPT ![Hash[key[g]]] = items[g]]
    /\ key' = [key EXCEPT ![g] = arg[g]]
    /\ UNCHANGED <<sdsmu, cache, Sd, made, arg, stack, sd, items, at, calls>>

\* The deferred Unlock.  Without a descriptor the call ends in an error or in
\* a panic the caller recovers from.
Unlock(g) ==
    /\ Goto(g, "unlock", IF sd[g] = NoDesc THEN "idle" ELSE "walk")
    /\ sdsmu' = NoOne
    /\ at' = [at EXCEPT ![g] = sd[g]]
    /\ items' = [items EXCEPT ![g] = NoItems]
    /\ UNCHANGED <<slots, cache, Sd, made, arg, key, stack, sd, calls>>

-----------------------------------------------------------------------------
\* The encoder or the decoder at work on the value.

\* It steps into a struct reference and reads the descriptor there, without a
\* lock; dereferencing a nil one is a fault.
Follow(g) ==
    /\ pc[g] = "walk"
    /\ \E t \in RefSet(at[g][1]) :
          IF Sd[t] = NoDesc
          THEN pc' = [pc EXCEPT ![g] = "fault"] /\ UNCHANGED at
          ELSE at' = [at EXCEPT ![g] = Sd[t]] /\ UNCHANGED pc
    /\ UNCHANGED <<shared, arg, key, stack, sd, items, calls>>

\* The value ends (values are finite, though the graph may be cyclic).
Return(g) ==
    /\ Goto(g, "walk", "idle")
    /\ sd' = [sd EXCEPT ![g] = NoDesc]
    /\ at' = [at EXCEPT ![g] = NoDesc]
    /\ UNCHANGED <<shared, arg, key, stack, items, calls>>

-----------------------------------------------------------------------------
Entry(g) == LookupHit(g) \/ LookupMiss(g)

Create(g) ==
    \/ Lock(g) \/ RecheckHit(g) \/ RecheckMiss(g)
    \/ EnterCached(g) \/ EnterNew(g) \/ EnterError(g) \/ EnterPanic(g)
    \/ FieldLinked(g) \/ FieldDescend(g) \/ FieldsDone(g)
    \/ Link(g) \/ RootReturn(g) \/ Fail(g) \/ RootFail(g)
    \/ SetCopy(g) \/ SetStore(g) \/ Unlock(g)

Step(g) == Entry(g) \/ Create(g) \/ Follow(g) \/ Return(g)

Next == \E g \in Goroutine : Step(g) \/ \E t \in RType : Call(g, t)

Spec == Init /\ [][Next]_vars
-----------------------------------------------------------------------------
(***************************************************************************)
(* Properties                                                              *)
(***************************************************************************)
PC == {"idle", "lookup", "lock", "recheck", "enter", "fields", "return", "fail",
       "set", "store", "unlock", "walk", "fault"}

Critical == {"recheck", "enter", "fields", "return", "fail", "set", "store", "unlock"}

Shapes ==
    /\ slots \in [Bucket -> Item]
    /\ sdsmu \in Goroutine \cup {NoOne}
    /\ cache \in Item
    /\ Sd \in Item
    /\ made \in [RType -> Nat]
    /\ pc \in [Goroutine -> PC]
    /\ arg \in [Goroutine -> RType]
    /\ key \in [Goroutine -> RType]
    /\ stack \in [Goroutine -> Seq(Frame)]
    /\ sd \in [Goroutine -> Desc \cup {NoDesc}]
    /\ items \in [Goroutine -> Item]
    /\ at \in [Goroutine -> Desc \cup {NoDesc}]
    /\ calls \in [Goroutine -> 0..MaxCalls]

\* Every descriptor is filed under the type it was built for: in the prefetch cache
\* and in the shared links a struct and its pointer type have one each, in sds both
\* have the struct's.
Filed ==
    \A t \in RType :
        /\ cache[t] # NoDesc => cache[t][1] = t
        /\ Sd[t] # NoDesc => Sd[t][1] = t
        /\ Get(t) # NoDesc => Get(t)[1] = Elem(t)

\* Type invariant.
TypeOK == Shapes /\ Filed

\* A set of types is complete when each mentions only types of the set, and the
\* tType of each mention has its descriptor.
Complete(S) ==
    \A t \in S : \A r \in RefSet(t) : Sd[r] # NoDesc /\ Sd[r][1] \in S

\* What the encoder and the decoder rely on: from a published descriptor every
\* path of struct references leads to a linked one, whatever another goroutine
\* is building meanwhile (desc.go:64-71 publishes after the whole prefetch).
PublishedComplete ==
    \E S \in SUBSET RType :
        /\ \A t \in Published : Get(t)[1] \in S
        /\ Complete(S)

\* The same as a user sees it: no call ever meets a nil descriptor.
NoFault == \A g \in Goroutine : pc[g] # "fault"

\* A walk reads t.Sd without a lock, fetchStructDesc writes it under sdsmu: no
\* write may be due on a reference that a walk is about to read.
NoLinkRace ==
    \A g, h \in Goroutine :
        (pc[g] = "return" /\ stack[g] # <<>> /\ pc[h] = "walk")
            => CurRef(g) \notin RefSet(at[h][1])

\* A struct and its pointer type share one descriptor (desc.go:70), and all the
\* calls at work on one struct use it, even those whose value came with the
\* other type or raced to create it.
OneDescriptor ==
    /\ \A t \in Published : Get(Elem(t)) = Get(t)
    /\ \A g \in Goroutine : pc[g] = "walk" => sd[g] = Get(Elem(arg[g]))

\* A published binding is never lost or changed, though Set rewrites its whole
\* slot and types of one bucket share the slot.
BindOnce ==
    [][\A t \in Published : Get(t)' = Get(t)]_vars

\* Structs from which no invalid struct can be reached.
Valid(s) ==
    \E S \in SUBSET Struct :
        /\ s \in S
        /\ \A x \in S : Outcome[x] = "ok"
        /\ \A x \in S : \A r \in RefSet(<<x, "struct">>) : StructOf(r) \in S

\* The references of t, followed any number of times, come to r: r is in every set
\* that has the references of t and, with a type, its references.
Reaches(t, r) ==
    \A S \in SUBSET RType :
        (RefSet(t) \subseteq S /\ \A u \in S : RefSet(u) \subseteq S) => r \in S

\* The programs for which the registry keeps its promises: a struct on a cycle of
\* references is valid, and no field mentions a struct newStructDesc panics on.  A
\* program without the one breaks them in MCRegistryCyclicError, without the other
\* in MCRegistryPanic.
Tame ==
    /\ \A t \in RType : Reaches(t, t) => Valid(StructOf(t))
    /\ \A t \in RType : \A r \in RefSet(t) : Outcome[StructOf(r)] # "panic"

\* The registry implements the write-once table of DescTable: a call is answered
\* with the entry its struct has for good, and refused only for an invalid struct.
Table ==
    INSTANCE DescTable WITH
        Valid <- LAMBDA t : Valid(StructOf(t)),
        BuiltFor <- LAMBDA d : d[1],
        NoType <- NoOne,
        table <- [t \in RType |-> Get(t)],
        asked <- [g \in Goroutine |-> IF pc[g] = "idle" THEN NoOne ELSE arg[g]],
        reply <- [g \in Goroutine |-> IF pc[g] \in {"walk", "fault"} THEN sd[g] ELSE NoDesc]

ImplementsTable == Table!Spec

\* What a call answers depends on the type alone and not on the calls before it:
\* a descriptor exactly if the struct and all it refers to are valid.
AnswerByType ==
    \A g \in Goroutine :
        /\ pc[g] = "walk" => Valid(StructOf(arg[g]))
        /\ pc[g] = "unlock" /\ sd[g] = NoDesc => ~Valid(StructOf(arg[g]))
=============================================================================
