------------------------- MODULE DescRegistryProofs -------------------------
(***************************************************************************)
(* What DescRegistry establishes for any goroutines, structs, references,  *)
(* outcomes and hash: the inductive invariant Inv, and from it the type    *)
(* invariant, the write-once bindings and the one descriptor per struct.   *)
(* Then what it publishes in a tame program is complete and stays so; one  *)
(* that may have invalid structs, but none on a cycle of references, and   *)
(* no mention of a struct newStructDesc panics on.  From a published       *)
(* descriptor no path of struct references meets a nil link, nor one that  *)
(* is still to be written.                                                 *)
(***************************************************************************)
EXTENDS DescRegistry, SequenceTheorems, TLAPS

Working == {"enter", "fields", "return", "fail"}

\* The goroutine that holds the mutex is the one between Lock and Unlock.
Mutex == \A g \in Goroutine : pc[g] \in Critical <=> sdsmu = g

\* Every frame of the depth-first prefetch works on its own type, the first one on
\* the struct the call is about, each other on the reference below it waits for.
StackOK(g) ==
    /\ pc[g] \notin Working => stack[g] = <<>>
    /\ \A j \in 1..Len(stack[g]) :
        /\ stack[g][j].sd[1] = stack[g][j].key
        /\ stack[g][j].i \in 1..(Len(Refs[StructOf(stack[g][j].key)]) + 1)
        /\ j = 1 => stack[g][j].key = Elem(arg[g])
        /\ j > 1 => /\ stack[g][j-1].i <= Len(Refs[StructOf(stack[g][j-1].key)])
                    /\ stack[g][j].key = Refs[StructOf(stack[g][j-1].key)][stack[g][j-1].i]

\* What the innermost frame, or createStructDesc itself, waits for.
Wanted(g) == IF stack[g] = <<>> THEN Elem(arg[g]) ELSE CurRef(g)
Waiting(g) == stack[g] # <<>> => Top(g).i <= Len(FieldsOf(g))

\* The locals of a goroutine at each of its program points.
LocalsOK(g) ==
    /\ pc[g] = "enter" => Waiting(g) /\ key[g] = Wanted(g)
    /\ pc[g] = "fields" => stack[g] # <<>>
    /\ pc[g] = "return" => Waiting(g) /\ sd[g] # NoDesc /\ sd[g][1] = Wanted(g)
    /\ pc[g] \in Working => Get(Elem(arg[g])) = NoDesc
    /\ pc[g] \in {"set", "store"} =>
        /\ sd[g] # NoDesc
        /\ sd[g][1] = Elem(arg[g])
        /\ \/ key[g] = Elem(arg[g]) /\ Get(key[g]) = NoDesc
           \/ key[g] = arg[g] /\ Get(Elem(arg[g])) = sd[g]
    /\ pc[g] = "store" =>
        /\ items[g] = [slots[Hash[key[g]]] EXCEPT ![key[g]] = sd[g]]
        /\ Get(key[g]) = NoDesc
    /\ pc[g] = "unlock" /\ sd[g] # NoDesc => Get(Elem(arg[g])) = sd[g]
    /\ pc[g] = "walk" => sd[g] # NoDesc /\ at[g] # NoDesc /\ Get(Elem(arg[g])) = sd[g]

\* A pointer type is published after its struct, with the same descriptor.
Paired == \A t \in Published : Get(Elem(t)) = Get(t)

Inv ==
    /\ TypeOK
    /\ Mutex
    /\ \A g \in Goroutine : StackOK(g) /\ LocalsOK(g)
    /\ Paired

-----------------------------------------------------------------------------
(***************************************************************************)
(* Facts about types, references and frames                                *)
(***************************************************************************)

\* The struct of a type, and the references of a type, are types.
LEMMA TypeFacts ==
    ASSUME NEW t \in RType
    PROVE  /\ Elem(t) \in RType
           /\ Elem(Elem(t)) = Elem(t)
           /\ StructOf(t) \in Struct
           /\ Refs[StructOf(t)] \in Seq(RType)
           /\ Hash[t] \in Bucket
           /\ NoItems \in Item
BY RefsAssumption DEF RType, Elem, StructOf, Bucket, NoItems, Item

\* The reference a frame has come to is a type.
LEMMA CurRefType ==
    ASSUME Shapes, NEW g \in Goroutine, StackOK(g), stack[g] # <<>>
    PROVE  /\ Len(stack[g]) \in 1..Len(stack[g])
           /\ Top(g) \in Frame
           /\ Top(g).key \in RType
           /\ Top(g).i \in 1..(Len(FieldsOf(g)) + 1)
           /\ Top(g).sd \in Desc
           /\ Top(g).sd[1] = Top(g).key
           /\ FieldsOf(g) \in Seq(RType)
           /\ Top(g).i <= Len(FieldsOf(g)) => CurRef(g) \in RType
<1>1. stack[g] \in Seq(Frame) BY DEF Shapes
<1>2. Len(stack[g]) \in 1..Len(stack[g]) BY <1>1
<1>3. Top(g) \in Frame BY <1>1, <1>2 DEF Top
<1>4. Top(g).key \in RType /\ Top(g).sd \in Desc BY <1>3 DEF Frame
<1>5. FieldsOf(g) \in Seq(RType) BY <1>4, TypeFacts DEF FieldsOf
<1>6. Top(g).i \in 1..(Len(FieldsOf(g)) + 1) /\ Top(g).sd[1] = Top(g).key
    BY <1>2 DEF StackOK, Top, FieldsOf
<1>7. Top(g).i <= Len(FieldsOf(g)) => CurRef(g) \in RType
    BY <1>5, <1>6 DEF CurRef
<1> QED BY <1>2, <1>3, <1>4, <1>5, <1>6, <1>7

\* Moving the innermost frame to its next reference, and dropping it.
LEMMA FrameFacts ==
    ASSUME Shapes, NEW g \in Goroutine, StackOK(g), stack[g] # <<>>
    PROVE  /\ Pop(g) \in Seq(Frame)
           /\ Len(Pop(g)) = Len(stack[g]) - 1
           /\ \A j \in 1..Len(Pop(g)) : Pop(g)[j] = stack[g][j]
           /\ Advance(g) \in [Goroutine -> Seq(Frame)]
           /\ Len(Advance(g)[g]) = Len(stack[g])
           /\ \A j \in 1..(Len(stack[g]) - 1) : Advance(g)[g][j] = stack[g][j]
           /\ Advance(g)[g][Len(stack[g])] = [Top(g) EXCEPT !.i = @ + 1]
           /\ \A h \in Goroutine : h # g => Advance(g)[h] = stack[h]
<1>1. stack \in [Goroutine -> Seq(Frame)] /\ stack[g] \in Seq(Frame) BY DEF Shapes
<1>2. Top(g) \in Frame /\ Len(stack[g]) \in 1..Len(stack[g]) BY CurRefType
<1>3. [Top(g) EXCEPT !.i = @ + 1] \in Frame BY <1>2 DEF Frame
<1>4. /\ Pop(g) \in Seq(Frame)
      /\ Len(Pop(g)) = Len(stack[g]) - 1
      /\ \A j \in 1..Len(Pop(g)) : Pop(g)[j] = stack[g][j]
    <2>1. \A j \in 1..(Len(stack[g]) - 1) : stack[g][j] \in Frame BY <1>1, <1>2
    <2>2. Len(stack[g]) - 1 \in Nat BY <1>2
    <2> QED BY <2>1, <2>2, SubSeqProperties DEF Pop
<1>5. Advance(g) = [stack EXCEPT ![g] = [stack[g] EXCEPT ![Len(stack[g])] = [Top(g) EXCEPT !.i = @ + 1]]]
    BY <1>1, <1>2 DEF Advance, Top
<1>6. [stack[g] EXCEPT ![Len(stack[g])] = [Top(g) EXCEPT !.i = @ + 1]] \in Seq(Frame)
    BY <1>1, <1>2, <1>3
<1> QED BY <1>1, <1>2, <1>4, <1>5, <1>6

\* What is left of a stack whose innermost frame is dropped.
LEMMA Popped ==
    ASSUME Shapes, NEW g \in Goroutine, StackOK(g), stack[g] # <<>>, stack'[g] = Pop(g)
    PROVE  /\ Len(stack[g]) \in Nat /\ Len(stack[g]) \in 1..Len(stack[g])
           /\ Len(stack'[g]) = Len(stack[g]) - 1
           /\ \A j \in 1..Len(stack'[g]) : stack'[g][j] = stack[g][j]
<1>1. Len(Pop(g)) = Len(stack[g]) - 1 /\ \A j \in 1..Len(Pop(g)) : Pop(g)[j] = stack[g][j]
    BY FrameFacts
<1>2. Len(stack[g]) \in 1..Len(stack[g]) BY CurRefType
<1>3. Len(stack[g]) \in Nat BY DEF Shapes
<1> QED BY <1>1, <1>2, <1>3, Zenon

\* The locals of a goroutine that does not move.
Same(h) ==
    /\ pc'[h] = pc[h] /\ arg'[h] = arg[h] /\ key'[h] = key[h] /\ stack'[h] = stack[h]
    /\ sd'[h] = sd[h] /\ items'[h] = items[h] /\ at'[h] = at[h]

\* Most steps move one goroutine and leave the published table alone.
LEMMA OneMoves ==
    ASSUME Inv, NEW g \in Goroutine, slots' = slots,
           \A h \in Goroutine : h # g => Same(h),
           Shapes', Filed', Mutex', StackOK(g)', LocalsOK(g)'
    PROVE  Inv'
<1>1. ASSUME NEW h \in Goroutine, h # g PROVE StackOK(h)' /\ LocalsOK(h)'
    <2>1. Same(h) BY <1>1
    <2>2. StackOK(h) /\ LocalsOK(h) BY DEF Inv
    <2>3. StackOK(h)'
        <3>1. pc'[h] = pc[h] /\ arg'[h] = arg[h] /\ stack'[h] = stack[h] BY <2>1 DEF Same
        <3> QED BY <2>2, <3>1 DEF StackOK, Working
    <2>4. LocalsOK(h)'
        BY <2>1, <2>2 DEF Same, LocalsOK, Working, Wanted, Waiting, Top, FieldsOf, CurRef, Get
    <2> QED BY <2>3, <2>4
<1>2. Paired' BY DEF Inv, Paired, Published, Get
<1> QED BY <1>1, <1>2 DEF Inv, TypeOK

\* A goroutine without a frame has nothing to keep in order.
LEMMA EmptyStackOK ==
    ASSUME NEW g \in Goroutine, stack'[g] = <<>> PROVE StackOK(g)'
<1>1. 1..Len(stack'[g]) = {} BY SMT
<1> QED BY <1>1 DEF StackOK

\* A call that begins (reflect.go) touches only its own goroutine.
LEMMA CallKeeps ==
    ASSUME Inv, NEW g \in Goroutine, NEW t \in RType, Call(g, t) PROVE Inv'
<1> USE DEF Call, Goto, shared
<1>1. Shapes' BY MaxCallsAssumption DEF Inv, TypeOK, Shapes, PC
<1>2. Filed' BY DEF Inv, TypeOK, Filed, Get
<1>3. Mutex' BY DEF Inv, TypeOK, Shapes, Mutex, Critical
<1>4. StackOK(g)' BY EmptyStackOK DEF Inv, TypeOK, Shapes, StackOK, Working
<1>5. LocalsOK(g)' BY DEF Inv, TypeOK, Shapes, LocalsOK, Working
<1>6. \A h \in Goroutine : h # g => Same(h) BY DEF Inv, TypeOK, Shapes, Same
<1> QED BY <1>1, <1>2, <1>3, <1>4, <1>5, <1>6, OneMoves

\* A lock-free lookup that finds a descriptor finds the one filed under its type.
LEMMA LookupHitKeeps ==
    ASSUME Inv, NEW g \in Goroutine, LookupHit(g) PROVE Inv'
<1> USE DEF LookupHit, Goto, shared
<1>1. Shapes'
    <2>1. Get(arg[g]) \in Desc BY TypeFacts DEF Inv, TypeOK, Shapes, Get, Item
    <2> QED BY <2>1 DEF Inv, TypeOK, Shapes, PC
<1>2. Filed' BY DEF Inv, TypeOK, Filed, Get
<1>3. Mutex' BY DEF Inv, TypeOK, Shapes, Mutex, Critical
<1>4. StackOK(g)' BY DEF Inv, TypeOK, Shapes, StackOK, Working
<1>5. LocalsOK(g)'
    <2>1. Get(Elem(arg[g])) = Get(arg[g])
        BY DEF Inv, TypeOK, Shapes, Paired, Published
    <2> QED BY <2>1 DEF Inv, TypeOK, Shapes, LocalsOK, Working, Get
<1>6. \A h \in Goroutine : h # g => Same(h) BY DEF Inv, TypeOK, Shapes, Same
<1> QED BY <1>1, <1>2, <1>3, <1>4, <1>5, <1>6, OneMoves

\* A lock-free lookup that finds nothing leads to createStructDesc.
LEMMA LookupMissKeeps ==
    ASSUME Inv, NEW g \in Goroutine, LookupMiss(g) PROVE Inv'
<1> USE DEF LookupMiss, Goto, shared
<1>1. Shapes' BY DEF Inv, TypeOK, Shapes, PC
<1>2. Filed' BY DEF Inv, TypeOK, Filed, Get
<1>3. Mutex' BY DEF Inv, TypeOK, Shapes, Mutex, Critical
<1>4. StackOK(g)' BY DEF Inv, TypeOK, Shapes, StackOK, Working
<1>5. LocalsOK(g)' BY DEF Inv, TypeOK, Shapes, LocalsOK, Working
<1>6. \A h \in Goroutine : h # g => Same(h) BY DEF Inv, TypeOK, Shapes, Same
<1> QED BY <1>1, <1>2, <1>3, <1>4, <1>5, <1>6, OneMoves

\* sdsmu.Lock: at most one goroutine is behind it.
LEMMA LockKeeps ==
    ASSUME Inv, NEW g \in Goroutine, Lock(g) PROVE Inv'
<1> USE DEF Lock, Goto, shared
<1>1. Shapes' BY DEF Inv, TypeOK, Shapes, PC
<1>2. Filed' BY DEF Inv, TypeOK, Filed, Get
<1>3. Mutex' BY GoroutineAssumption DEF Inv, TypeOK, Shapes, Mutex, Critical
<1>4. StackOK(g)' BY DEF Inv, TypeOK, Shapes, StackOK, Working
<1>5. LocalsOK(g)' BY DEF Inv, TypeOK, Shapes, LocalsOK, Working
<1>6. \A h \in Goroutine : h # g => Same(h) BY DEF Inv, TypeOK, Shapes, Same
<1> QED BY <1>1, <1>2, <1>3, <1>4, <1>5, <1>6, OneMoves

\* The second lookup, under the mutex, finds what another goroutine has published.
LEMMA RecheckHitKeeps ==
    ASSUME Inv, NEW g \in Goroutine, RecheckHit(g) PROVE Inv'
<1> USE DEF RecheckHit, Goto, shared
<1>1. Shapes'
    <2>1. Get(Elem(arg[g])) \in Desc BY TypeFacts DEF Inv, TypeOK, Shapes, Get, Item
    <2> QED BY <2>1 DEF Inv, TypeOK, Shapes, PC
<1>2. Filed' BY DEF Inv, TypeOK, Filed, Get
<1>3. Mutex' BY DEF Inv, TypeOK, Shapes, Mutex, Critical
<1>4. StackOK(g)' BY DEF Inv, TypeOK, Shapes, StackOK, Working
<1>5. LocalsOK(g)' BY DEF Inv, TypeOK, Shapes, LocalsOK, Working, Get
<1>6. \A h \in Goroutine : h # g => Same(h) BY DEF Inv, TypeOK, Shapes, Same
<1> QED BY <1>1, <1>2, <1>3, <1>4, <1>5, <1>6, OneMoves

\* The second lookup finds nothing, and the prefetch starts with an empty stack.
LEMMA RecheckMissKeeps ==
    ASSUME Inv, NEW g \in Goroutine, RecheckMiss(g) PROVE Inv'
<1> USE DEF RecheckMiss, Goto, shared
<1>1. Shapes' BY TypeFacts DEF Inv, TypeOK, Shapes, PC
<1>2. Filed' BY DEF Inv, TypeOK, Filed, Get
<1>3. Mutex' BY DEF Inv, TypeOK, Shapes, Mutex, Critical
<1>4. StackOK(g)' BY EmptyStackOK DEF Inv, TypeOK, Shapes, StackOK, Working
<1>5. LocalsOK(g)'
    <2>1. stack[g] = <<>> BY DEF Inv, StackOK, Working
    <2> QED BY <2>1 DEF Inv, TypeOK, Shapes, LocalsOK, Working, Get, Wanted, Waiting
<1>6. \A h \in Goroutine : h # g => Same(h) BY DEF Inv, TypeOK, Shapes, Same
<1> QED BY <1>1, <1>2, <1>3, <1>4, <1>5, <1>6, OneMoves

\* newStructDescAndPrefetch answers from the prefetch cache.
LEMMA EnterCachedKeeps ==
    ASSUME Inv, NEW g \in Goroutine, EnterCached(g) PROVE Inv'
<1> USE DEF EnterCached, Goto, shared
<1>0. key[g] \in RType /\ cache[key[g]] \in Desc /\ cache[key[g]][1] = key[g]
    BY DEF Inv, TypeOK, Shapes, Item, Filed
<1>1. Shapes' BY <1>0 DEF Inv, TypeOK, Shapes, PC
<1>2. Filed' BY DEF Inv, TypeOK, Filed, Get
<1>3. Mutex' BY DEF Inv, TypeOK, Shapes, Mutex, Critical
<1>4. StackOK(g)' BY DEF Inv, TypeOK, Shapes, StackOK, Working
<1>5. LocalsOK(g)'
    BY <1>0 DEF Inv, TypeOK, Shapes, LocalsOK, Working, Get, Wanted, Waiting, CurRef, FieldsOf, Top
<1>6. \A h \in Goroutine : h # g => Same(h) BY DEF Inv, TypeOK, Shapes, Same
<1> QED BY <1>1, <1>2, <1>3, <1>4, <1>5, <1>6, OneMoves

\* newStructDescAndPrefetch caches a new descriptor and opens a frame for its fields.
LEMMA EnterNewKeeps ==
    ASSUME Inv, NEW g \in Goroutine, EnterNew(g) PROVE Inv'
<1> DEFINE t == key[g]
           d == <<t, made[t]>>
           f == [key |-> t, sd |-> d, i |-> 1]
<1>0. /\ t \in RType /\ d \in Desc /\ d[1] = t /\ f \in Frame
      /\ stack[g] \in Seq(Frame) /\ stack'[g] = Append(stack[g], f)
    BY DEF EnterNew, Inv, TypeOK, Shapes, Desc, Frame
<1>1. Shapes' BY <1>0 DEF EnterNew, Goto, Inv, TypeOK, Shapes, PC, Item
<1>2. Filed' BY <1>0 DEF EnterNew, Inv, TypeOK, Shapes, Item, Filed, Get
<1>3. Mutex' BY DEF EnterNew, Goto, Inv, TypeOK, Shapes, Mutex, Critical
<1>4. StackOK(g)'
    <2>1. /\ Len(stack'[g]) = Len(stack[g]) + 1
          /\ \A j \in 1..Len(stack[g]) : stack'[g][j] = stack[g][j]
          /\ stack'[g][Len(stack[g]) + 1] = f
          /\ Len(stack[g]) \in Nat
        BY <1>0
    <2>2. StackOK(g) /\ LocalsOK(g) /\ pc[g] = "enter" /\ arg'[g] = arg[g] /\ pc'[g] = "fields"
        BY DEF EnterNew, Goto, Inv, TypeOK, Shapes
    <2>3. ASSUME NEW j \in 1..Len(stack'[g])
          PROVE  /\ stack'[g][j].sd[1] = stack'[g][j].key
                 /\ stack'[g][j].i \in 1..(Len(Refs[StructOf(stack'[g][j].key)]) + 1)
                 /\ j = 1 => stack'[g][j].key = Elem(arg'[g])
                 /\ j > 1 => /\ stack'[g][j-1].i <= Len(Refs[StructOf(stack'[g][j-1].key)])
                             /\ stack'[g][j].key = Refs[StructOf(stack'[g][j-1].key)][stack'[g][j-1].i]
        <3>1. CASE j <= Len(stack[g])
            <4>1. j \in 1..Len(stack[g]) /\ (j > 1 => j - 1 \in 1..Len(stack[g])) BY <2>1, <3>1
            <4> QED BY <4>1, <2>1, <2>2 DEF StackOK
        <3>2. CASE j = Len(stack[g]) + 1
            <4>1. stack'[g][j] = f BY <2>1, <3>2
            <4>2. Len(Refs[StructOf(t)]) \in Nat BY <1>0, TypeFacts
            <4>3. j = 1 => t = Elem(arg[g])
                <5>1. j = 1 => stack[g] = <<>> BY <1>0, <3>2, EmptySeq
                <5> QED BY <5>1, <2>2 DEF LocalsOK, Wanted
            <4>4. j > 1 => /\ stack[g] # <<>>
                           /\ j - 1 = Len(stack[g]) /\ stack'[g][j-1] = Top(g)
                BY <1>0, <2>1, <3>2 DEF Top
            <4>5. j > 1 => /\ Top(g).i <= Len(FieldsOf(g))
                           /\ t = CurRef(g)
                BY <4>4, <2>2 DEF LocalsOK, Wanted, Waiting
            <4> HIDE DEF t, d
            <4> QED BY <1>0, <2>2, <4>1, <4>2, <4>3, <4>4, <4>5 DEF CurRef, FieldsOf
        <3>3. j <= Len(stack[g]) \/ j = Len(stack[g]) + 1
            <4> DEFINE m == Len(stack[g])
            <4>1. m \in Nat /\ j \in 1..(m + 1) BY <2>1
            <4> HIDE DEF m
            <4>2. j <= m \/ j = m + 1 BY <4>1
            <4> QED BY <4>2 DEF m
        <3> QED BY <3>1, <3>2, <3>3, Zenon
    <2> QED BY <2>2, <2>3 DEF StackOK, Working
<1>5. LocalsOK(g)'
    <2>1. stack'[g] # <<>>
        <3> HIDE DEF f
        <3> QED BY <1>0
    <2>2. Get(Elem(arg[g])) = NoDesc BY DEF EnterNew, Goto, Inv, LocalsOK, Working
    <2> QED BY <2>1, <2>2 DEF EnterNew, Goto, Inv, TypeOK, Shapes, LocalsOK, Working, Get
<1>6. \A h \in Goroutine : h # g => Same(h) BY DEF EnterNew, Goto, Inv, TypeOK, Shapes, Same
<1>7. slots' = slots BY DEF EnterNew
<1> QED BY <1>1, <1>2, <1>3, <1>4, <1>5, <1>6, <1>7, OneMoves

\* newStructDesc fails: the frames above are unwound.
LEMMA EnterErrorKeeps ==
    ASSUME Inv, NEW g \in Goroutine, EnterError(g) PROVE Inv'
<1> USE DEF EnterError, Goto, shared
<1>1. Shapes' BY DEF Inv, TypeOK, Shapes, PC
<1>2. Filed' BY DEF Inv, TypeOK, Filed, Get
<1>3. Mutex' BY DEF Inv, TypeOK, Shapes, Mutex, Critical
<1>4. StackOK(g)' BY DEF Inv, TypeOK, Shapes, StackOK, Working
<1>5. LocalsOK(g)' BY DEF Inv, TypeOK, Shapes, LocalsOK, Working, Get
<1>6. \A h \in Goroutine : h # g => Same(h) BY DEF Inv, TypeOK, Shapes, Same
<1> QED BY <1>1, <1>2, <1>3, <1>4, <1>5, <1>6, OneMoves

\* newStructDesc panics: the deferred Unlock runs, the frames are gone.
LEMMA EnterPanicKeeps ==
    ASSUME Inv, NEW g \in Goroutine, EnterPanic(g) PROVE Inv'
<1> USE DEF EnterPanic, Goto, shared
<1>1. Shapes' BY EmptySeq DEF Inv, TypeOK, Shapes, PC
<1>2. Filed' BY DEF Inv, TypeOK, Filed, Get
<1>3. Mutex' BY DEF Inv, TypeOK, Shapes, Mutex, Critical
<1>4. StackOK(g)' BY EmptyStackOK DEF Inv, TypeOK, Shapes
<1>5. LocalsOK(g)' BY DEF Inv, TypeOK, Shapes, LocalsOK, Working, Get
<1>6. \A h \in Goroutine : h # g => Same(h) BY DEF Inv, TypeOK, Shapes, Same
<1> QED BY <1>1, <1>2, <1>3, <1>4, <1>5, <1>6, OneMoves

\* The innermost frame moves on, or is dropped: the other frames are as before.
LEMMA AdvanceOK ==
    ASSUME Inv, NEW g \in Goroutine, stack[g] # <<>>, Top(g).i <= Len(FieldsOf(g)),
           stack' = Advance(g), arg'[g] = arg[g], pc'[g] = "fields"
    PROVE  StackOK(g)'
<1>1. /\ Shapes /\ StackOK(g) BY DEF Inv, TypeOK
<1>2. stack[g] \in Seq(Frame) /\ Len(stack[g]) \in Nat BY DEF Inv, TypeOK, Shapes
<1>3. /\ Len(stack'[g]) = Len(stack[g])
      /\ \A j \in 1..(Len(stack[g]) - 1) : stack'[g][j] = stack[g][j]
      /\ stack'[g][Len(stack[g])] = [Top(g) EXCEPT !.i = @ + 1]
    BY <1>1, FrameFacts
<1>4. /\ Top(g) \in Frame /\ Top(g).i \in 1..(Len(FieldsOf(g)) + 1)
      /\ Len(stack[g]) \in 1..Len(stack[g]) /\ Len(FieldsOf(g)) \in Nat
    BY <1>1, CurRefType
<1>5. /\ stack'[g][Len(stack[g])].key = Top(g).key
      /\ stack'[g][Len(stack[g])].sd = Top(g).sd
      /\ stack'[g][Len(stack[g])].i = Top(g).i + 1
    BY <1>3, <1>4 DEF Frame
<1>6. ASSUME NEW j \in 1..Len(stack'[g])
      PROVE  /\ stack'[g][j].sd[1] = stack'[g][j].key
             /\ stack'[g][j].i \in 1..(Len(Refs[StructOf(stack'[g][j].key)]) + 1)
             /\ j = 1 => stack'[g][j].key = Elem(arg'[g])
             /\ j > 1 => /\ stack'[g][j-1].i <= Len(Refs[StructOf(stack'[g][j-1].key)])
                         /\ stack'[g][j].key = Refs[StructOf(stack'[g][j-1].key)][stack'[g][j-1].i]
    <2>1. j \in 1..Len(stack[g]) /\ (j > 1 => j - 1 \in 1..(Len(stack[g]) - 1)) BY <1>2, <1>3
    <2>2. stack'[g][j].key = stack[g][j].key /\ stack'[g][j].sd = stack[g][j].sd
        <3>1. CASE j = Len(stack[g]) BY <1>5, <3>1 DEF Top
        <3>2. CASE j # Len(stack[g])
            <4>1. j \in 1..(Len(stack[g]) - 1) BY <1>2, <2>1, <3>2
            <4> QED BY <4>1, <1>3
        <3> QED BY <3>1, <3>2
    <2>3. j > 1 => stack'[g][j-1] = stack[g][j-1] BY <1>3, <2>1
    <2>4. stack'[g][j].i \in 1..(Len(Refs[StructOf(stack[g][j].key)]) + 1)
        <3>1. CASE j = Len(stack[g])
            <4>1. Top(g) = stack[g][j] BY <3>1 DEF Top
            <4> QED BY <1>4, <1>5, <3>1, <4>1 DEF FieldsOf
        <3>2. CASE j # Len(stack[g])
            <4>1. stack'[g][j] = stack[g][j] BY <1>2, <1>3, <2>1, <3>2
            <4> QED BY <4>1, <2>1, <1>1 DEF StackOK
        <3> QED BY <3>1, <3>2
    <2> QED BY <1>1, <2>1, <2>2, <2>3, <2>4 DEF StackOK
<1> QED BY <1>6 DEF StackOK, Working

\* Dropping the innermost frame leaves a stack in order.
LEMMA PopOK ==
    ASSUME Inv, NEW g \in Goroutine, stack[g] # <<>>, pc[g] \in Working,
           stack'[g] = Pop(g), arg'[g] = arg[g], pc'[g] \in Working
    PROVE  StackOK(g)'
<1>1. /\ Shapes /\ StackOK(g) BY DEF Inv, TypeOK
<1>2. stack[g] \in Seq(Frame) /\ Len(stack[g]) \in Nat BY DEF Inv, TypeOK, Shapes
<1>3. /\ Len(stack'[g]) = Len(stack[g]) - 1
      /\ \A j \in 1..Len(stack'[g]) : stack'[g][j] = stack[g][j]
    BY <1>1, FrameFacts
<1>4. \A j \in 1..Len(stack'[g]) :
          /\ j \in 1..Len(stack[g])
          /\ j > 1 => stack'[g][j-1] = stack[g][j-1]
    BY <1>2, <1>3
<1> QED BY <1>1, <1>3, <1>4 DEF StackOK, Working

\* fetchStructDesc returns at once if the reference is linked already.
LEMMA FieldLinkedKeeps ==
    ASSUME Inv, NEW g \in Goroutine, FieldLinked(g) PROVE Inv'
<1> USE DEF FieldLinked, shared
<1>0. Shapes /\ StackOK(g) /\ stack[g] # <<>> BY DEF Inv, TypeOK, LocalsOK
<1>1. Shapes' BY <1>0, FrameFacts DEF Shapes
<1>2. Filed' BY DEF Inv, TypeOK, Filed, Get
<1>3. Mutex' BY DEF Inv, Mutex
<1>4. StackOK(g)' BY <1>0, AdvanceOK
<1>5. LocalsOK(g)'
    <2>1. stack'[g] # <<>>
        <3>1. Len(stack[g]) \in 1..Len(stack[g]) BY <1>0, CurRefType
        <3>2. Len(Advance(g)[g]) = Len(stack[g]) BY <1>0, FrameFacts
        <3> HIDE DEF Advance
        <3>3. stack'[g] = Advance(g)[g] OBVIOUS
        <3>4. Len(<<>>) = 0 OBVIOUS
        <3> QED BY <3>1, <3>2, <3>3, <3>4
    <2> QED BY <2>1 DEF Inv, LocalsOK, Working, Get
<1>6. \A h \in Goroutine : h # g => Same(h) BY <1>0, FrameFacts DEF Same
<1> QED BY <1>1, <1>2, <1>3, <1>4, <1>5, <1>6, OneMoves

\* fetchStructDesc goes down to the struct a reference is of.
LEMMA FieldDescendKeeps ==
    ASSUME Inv, NEW g \in Goroutine, FieldDescend(g) PROVE Inv'
<1> USE DEF FieldDescend, Goto, shared
<1>0. /\ Shapes /\ StackOK(g) /\ stack[g] # <<>> BY DEF Inv, TypeOK, LocalsOK
<1>1. Shapes' BY <1>0, CurRefType DEF Shapes, PC
<1>2. Filed' BY DEF Inv, TypeOK, Filed, Get
<1>3. Mutex' BY DEF Inv, TypeOK, Shapes, Mutex, Critical
<1>4. StackOK(g)' BY DEF Inv, TypeOK, Shapes, StackOK, Working
<1>5. LocalsOK(g)'
    BY <1>0 DEF Inv, LocalsOK, Shapes, Working, Get, Wanted, Waiting, CurRef, FieldsOf, Top
<1>6. \A h \in Goroutine : h # g => Same(h) BY DEF Inv, TypeOK, Shapes, Same
<1> QED BY <1>1, <1>2, <1>3, <1>4, <1>5, <1>6, OneMoves

\* A struct whose references are all linked returns its descriptor.
LEMMA FieldsDoneKeeps ==
    ASSUME Inv, NEW g \in Goroutine, FieldsDone(g) PROVE Inv'
<1> USE DEF FieldsDone, Goto, shared
<1>0. /\ Shapes /\ StackOK(g) /\ stack[g] # <<>> BY DEF Inv, TypeOK, LocalsOK
<1>1. Shapes' BY <1>0, CurRefType, FrameFacts DEF Shapes, PC
<1>2. Filed' BY DEF Inv, TypeOK, Filed, Get
<1>3. Mutex' BY DEF Inv, TypeOK, Shapes, Mutex, Critical
<1>4. StackOK(g)' BY <1>0, PopOK DEF Shapes, Working
<1>5. LocalsOK(g)'
    <2>1. /\ pc'[g] = "return" /\ arg'[g] = arg[g] /\ stack'[g] = Pop(g)
          /\ sd'[g] = Top(g).sd /\ sd'[g] \in Desc /\ sd'[g][1] = Top(g).key
        BY <1>0, CurRefType DEF Shapes
    <2>2. Get(Elem(arg[g]))' = NoDesc BY DEF Inv, Shapes, TypeOK, LocalsOK, Working, Get
    <2>3. Waiting(g)' /\ sd'[g][1] = Wanted(g)'
        <3>1. CASE Pop(g) = <<>>
            <4>1. Len(stack[g]) = 1
                <5>1. Len(Pop(g)) = 0 BY <3>1
                <5>2. Len(Pop(g)) = Len(stack[g]) - 1 BY <1>0, FrameFacts
                <5>3. Len(stack[g]) \in 1..Len(stack[g]) BY <1>0, CurRefType
                <5> QED BY <5>1, <5>2, <5>3
            <4> QED BY <1>0, <2>1, <3>1, <4>1 DEF StackOK, Top, Wanted, Waiting
        <3>2. CASE Pop(g) # <<>>
            <4> DEFINE n == Len(stack[g])
            <4>1. n > 1 /\ n \in 1..n /\ n - 1 \in 1..Len(Pop(g)) /\ Len(Pop(g)) = n - 1
                <5> HIDE DEF FieldsDone, Goto, shared
                <5>1. n \in Nat /\ n >= 1 BY <1>0, CurRefType DEF Shapes
                <5>2. Pop(g) \in Seq(Frame) /\ Len(Pop(g)) = n - 1 BY <1>0, FrameFacts
                <5>3. Len(Pop(g)) # 0 BY <3>2, <5>2, EmptySeq
                <5> HIDE DEF n
                <5> QED BY <5>1, <5>2, <5>3
            <4>2. Top(g)' = stack[g][n - 1]
                <5>1. Len(stack'[g]) = n - 1 /\ stack'[g][n - 1] = stack[g][n - 1]
                    BY <1>0, <2>1, <4>1, Popped
                <5> QED BY <5>1, Zenon DEF Top
            <4>3. /\ stack[g][n-1].i <= Len(Refs[StructOf(stack[g][n-1].key)])
                  /\ Top(g).key = Refs[StructOf(stack[g][n-1].key)][stack[g][n-1].i]
                BY <1>0, <4>1 DEF StackOK, Top
            <4> QED BY <2>1, <3>2, <4>2, <4>3 DEF Wanted, Waiting, CurRef, FieldsOf
        <3> QED BY <3>1, <3>2
    <2> QED BY <2>1, <2>2, <2>3, NoDescAssumption DEF LocalsOK, Working
<1>6. \A h \in Goroutine : h # g => Same(h) BY DEF Inv, TypeOK, Shapes, Same
<1> QED BY <1>1, <1>2, <1>3, <1>4, <1>5, <1>6, OneMoves

\* t.Sd = sd: the link gets the descriptor of the reference's own type.
LEMMA LinkKeeps ==
    ASSUME Inv, NEW g \in Goroutine, Link(g) PROVE Inv'
<1> USE DEF Link, Goto
<1>0. /\ Shapes /\ StackOK(g) /\ stack[g] # <<>> /\ Top(g).i <= Len(FieldsOf(g))
      /\ sd[g] # NoDesc /\ sd[g][1] = CurRef(g) /\ CurRef(g) \in RType
    BY CurRefType DEF Inv, TypeOK, LocalsOK, Waiting, Wanted
<1>1. Shapes' BY <1>0, FrameFacts DEF Shapes, PC, Item
<1>2. Filed' BY <1>0 DEF Inv, TypeOK, Filed, Get, Shapes, Item
<1>3. Mutex' BY DEF Inv, TypeOK, Shapes, Mutex, Critical
<1>4. StackOK(g)' BY <1>0, AdvanceOK DEF Shapes
<1>5. LocalsOK(g)'
    <2>1. stack'[g] # <<>>
        <3>1. Len(stack[g]) \in 1..Len(stack[g]) BY <1>0, CurRefType
        <3>2. Len(Advance(g)[g]) = Len(stack[g]) BY <1>0, FrameFacts
        <3> HIDE DEF Advance
        <3>3. stack'[g] = Advance(g)[g] OBVIOUS
        <3>4. Len(<<>>) = 0 OBVIOUS
        <3> QED BY <3>1, <3>2, <3>3, <3>4
    <2> QED BY <1>0, <2>1 DEF Inv, LocalsOK, Working, Get, Shapes
<1>6. \A h \in Goroutine : h # g => Same(h) BY <1>0, FrameFacts DEF Same, Shapes
<1> QED BY <1>1, <1>2, <1>3, <1>4, <1>5, <1>6, OneMoves

\* The prefetch returns to createStructDesc with the descriptor of the struct.
LEMMA RootReturnKeeps ==
    ASSUME Inv, NEW g \in Goroutine, RootReturn(g) PROVE Inv'
<1> USE DEF RootReturn, Goto, shared
<1>1. Shapes' BY TypeFacts DEF Inv, TypeOK, Shapes, PC
<1>2. Filed' BY DEF Inv, TypeOK, Filed, Get
<1>3. Mutex' BY DEF Inv, TypeOK, Shapes, Mutex, Critical
<1>4. StackOK(g)' BY EmptyStackOK
<1>5. LocalsOK(g)' BY DEF Inv, TypeOK, Shapes, LocalsOK, Working, Get, Wanted
<1>6. \A h \in Goroutine : h # g => Same(h) BY DEF Inv, TypeOK, Shapes, Same
<1> QED BY <1>1, <1>2, <1>3, <1>4, <1>5, <1>6, OneMoves

\* An unwound frame deletes its own cache entry and no other.
LEMMA FailKeeps ==
    ASSUME Inv, NEW g \in Goroutine, Fail(g) PROVE Inv'
<1> USE DEF Fail
<1>0. /\ Shapes /\ StackOK(g) BY DEF Inv, TypeOK
<1>1. Shapes' BY <1>0, FrameFacts, CurRefType DEF Shapes, Item
<1>2. Filed' BY <1>0, CurRefType DEF Inv, TypeOK, Filed, Get, Shapes, Item
<1>3. Mutex' BY DEF Inv, Mutex
<1>4. StackOK(g)' BY <1>0, PopOK DEF Shapes, Working
<1>5. LocalsOK(g)' BY DEF Inv, LocalsOK, Working, Get
<1>6. \A h \in Goroutine : h # g => Same(h) BY <1>0 DEF Shapes, Same
<1> QED BY <1>1, <1>2, <1>3, <1>4, <1>5, <1>6, OneMoves

\* A failed prefetch publishes nothing.
LEMMA RootFailKeeps ==
    ASSUME Inv, NEW g \in Goroutine, RootFail(g) PROVE Inv'
<1> USE DEF RootFail, Goto, shared
<1>1. Shapes' BY DEF Inv, TypeOK, Shapes, PC
<1>2. Filed' BY DEF Inv, TypeOK, Filed, Get
<1>3. Mutex' BY DEF Inv, TypeOK, Shapes, Mutex, Critical
<1>4. StackOK(g)' BY EmptyStackOK
<1>5. LocalsOK(g)' BY DEF Inv, TypeOK, Shapes, LocalsOK, Working, Get
<1>6. \A h \in Goroutine : h # g => Same(h) BY DEF Inv, TypeOK, Shapes, Same
<1> QED BY <1>1, <1>2, <1>3, <1>4, <1>5, <1>6, OneMoves

\* Set copies the items of the slot and adds its own.
LEMMA SetCopyKeeps ==
    ASSUME Inv, NEW g \in Goroutine, SetCopy(g) PROVE Inv'
<1> USE DEF SetCopy, Goto, shared
<1>0. /\ key[g] \in RType /\ arg[g] \in RType /\ slots[Hash[key[g]]] \in Item
      /\ sd[g] \in Desc /\ sd[g][1] = Elem(arg[g])
    BY TypeFacts DEF Inv, TypeOK, Shapes, LocalsOK
<1>1. Shapes'
    <2>1. [slots[Hash[key[g]]] EXCEPT ![key[g]] = sd[g]] \in Item BY <1>0 DEF Item
    <2> QED BY <2>1 DEF Inv, TypeOK, Shapes, PC
<1>2. Filed' BY DEF Inv, TypeOK, Filed, Get
<1>3. Mutex' BY DEF Inv, TypeOK, Shapes, Mutex, Critical
<1>4. StackOK(g)' BY EmptyStackOK DEF Inv, TypeOK, Shapes, StackOK, Working
<1>5. LocalsOK(g)'
    <2>1. \/ key[g] = Elem(arg[g]) /\ Get(key[g]) = NoDesc
          \/ key[g] = arg[g] /\ Get(Elem(arg[g])) = sd[g]
        BY DEF Inv, LocalsOK
    <2>2. Get(key[g]) = NoDesc
        <3>1. CASE Get(key[g]) # NoDesc
            <4>1. key[g] = arg[g] /\ Get(Elem(arg[g])) = sd[g] BY <2>1, <3>1
            <4>2. Get(Elem(arg[g])) = Get(arg[g]) BY <1>0, <3>1, <4>1 DEF Inv, Paired, Published
            <4> QED BY <4>1, <4>2
        <3> QED BY <3>1
    <2> QED BY <1>0, <2>1, <2>2, NoDescAssumption DEF Inv, TypeOK, Shapes, LocalsOK, Working, Get
<1>6. \A h \in Goroutine : h # g => Same(h) BY DEF Inv, TypeOK, Shapes, Same
<1> QED BY <1>1, <1>2, <1>3, <1>4, <1>5, <1>6, OneMoves

\* What the one store to a slot changes: it binds key[g] and nothing else.
LEMMA StoreBinds ==
    ASSUME Inv, NEW g \in Goroutine, SetStore(g)
    PROVE  /\ Get(key[g]) = NoDesc
           /\ \A t \in RType : Get(t)' = IF t = key[g] THEN sd[g] ELSE Get(t)
<1>1. /\ key[g] \in RType /\ slots \in [Bucket -> Item]
      /\ \A t \in RType : Hash[t] \in Bucket
    BY TypeFacts DEF Inv, TypeOK, Shapes
<1>2. /\ items[g] = [slots[Hash[key[g]]] EXCEPT ![key[g]] = sd[g]]
      /\ Get(key[g]) = NoDesc
    BY DEF Inv, LocalsOK, SetStore, Goto
<1>3. slots' = [slots EXCEPT ![Hash[key[g]]] = items[g]] BY DEF SetStore
<1>4. slots'[Hash[key[g]]] = [slots[Hash[key[g]]] EXCEPT ![key[g]] = sd[g]] BY <1>1, <1>2, <1>3
<1>5. \A t \in RType : slots'[Hash[t]][t] = IF t = key[g] THEN sd[g] ELSE slots[Hash[t]][t]
    <2> TAKE t \in RType
    <2>1. slots[Hash[key[g]]] \in Item BY <1>1
    <2>2. CASE Hash[t] = Hash[key[g]] BY <2>1, <2>2, <1>1, <1>4 DEF Item
    <2>3. CASE Hash[t] # Hash[key[g]] BY <2>3, <1>1, <1>3
    <2> QED BY <2>2, <2>3
<1> QED BY <1>1, <1>2, <1>5 DEF Get

\* Set stores the copy: under the mutex it still holds all the items there are.
LEMMA SetStoreKeeps ==
    ASSUME Inv, NEW g \in Goroutine, SetStore(g) PROVE Inv'
<1>0. /\ key[g] \in RType /\ arg[g] \in RType /\ sd[g] \in Desc /\ sd[g][1] = Elem(arg[g])
      /\ items[g] \in Item /\ pc[g] = "store" /\ Elem(arg[g]) \in RType
      /\ Elem(Elem(arg[g])) = Elem(arg[g])
    BY TypeFacts DEF Inv, TypeOK, Shapes, LocalsOK, SetStore, Goto
<1>1. \/ key[g] = Elem(arg[g])
      \/ key[g] = arg[g] /\ Get(Elem(arg[g])) = sd[g]
    BY <1>0 DEF Inv, LocalsOK
<1>2. /\ Get(key[g]) = NoDesc
      /\ \A t \in RType : Get(t)' = IF t = key[g] THEN sd[g] ELSE Get(t)
    BY StoreBinds
<1>3. /\ pc' = [pc EXCEPT ![g] = NextSet(g)] /\ key' = [key EXCEPT ![g] = arg[g]]
      /\ arg' = arg /\ stack' = stack /\ sd' = sd /\ items' = items /\ at' = at
      /\ sdsmu' = sdsmu /\ cache' = cache /\ Sd' = Sd /\ made' = made /\ calls' = calls
    BY DEF SetStore, Goto
<1>4. Shapes'
    <2>1. slots' \in [Bucket -> Item] BY <1>0 DEF SetStore, Inv, TypeOK, Shapes
    <2> QED BY <1>0, <1>3, <2>1 DEF Inv, TypeOK, Shapes, PC, NextSet
<1>5. Filed'
    <2>1. \A t \in RType : Get(t)' # NoDesc => Get(t)'[1] = Elem(t)
        <3> TAKE t \in RType
        <3>1. CASE t = key[g] BY <1>0, <1>1, <1>2, <3>1
        <3>2. CASE t # key[g] BY <1>2, <3>2 DEF Inv, TypeOK, Filed
        <3> QED BY <3>1, <3>2
    <2> QED BY <1>3, <2>1 DEF Inv, TypeOK, Filed
<1>6. Mutex' BY <1>0, <1>3 DEF Inv, TypeOK, Shapes, Mutex, Critical, NextSet
<1>7. Get(Elem(arg[g]))' = sd[g]
    <2>1. \A t \in RType : t = Elem(arg[g]) => Get(t)' = sd[g] BY <1>1, <1>2
    <2>2. arg'[g] = arg[g] BY <1>3
    <2> QED BY <1>0, <2>1, <2>2
<1>8. ASSUME NEW h \in Goroutine PROVE StackOK(h)' /\ LocalsOK(h)'
    <2>1. StackOK(h) /\ LocalsOK(h) BY DEF Inv
    <2>2. CASE h = g
        <3>1. stack[g] = <<>> BY <1>0, <2>1, <2>2 DEF StackOK, Working
        <3>2. StackOK(g)' BY <1>3, <3>1, EmptyStackOK
        <3>3. LocalsOK(g)'
            <4>1. /\ pc'[g] \in {"set", "unlock"} /\ key'[g] = arg[g] /\ sd'[g] = sd[g]
                  /\ arg'[g] = arg[g]
                BY <1>3 DEF Inv, TypeOK, Shapes, NextSet
            <4> QED BY <4>1, <1>0, <1>7, NoDescAssumption DEF LocalsOK, Working
        <3> QED BY <2>2, <3>2, <3>3
    <2>3. CASE h # g
        <3>1. /\ pc'[h] = pc[h] /\ arg'[h] = arg[h] /\ key'[h] = key[h] /\ stack'[h] = stack[h]
              /\ sd'[h] = sd[h] /\ items'[h] = items[h] /\ at'[h] = at[h]
            BY <1>3, <2>3 DEF Inv, TypeOK, Shapes
        <3>2. StackOK(h)' BY <2>1, <3>1 DEF StackOK, Working
        <3>3. pc[h] \notin Critical BY <1>0, <2>3, GoroutineAssumption DEF Inv, Mutex, Critical
        <3>4. pc[h] = "walk" => sd[h] # NoDesc /\ at[h] # NoDesc /\ Get(Elem(arg[h]))' = sd[h]
            <4>1. arg[h] \in RType /\ Elem(arg[h]) \in RType BY TypeFacts DEF Inv, TypeOK, Shapes
            <4>2. pc[h] = "walk" => /\ sd[h] # NoDesc /\ at[h] # NoDesc
                                   /\ Get(Elem(arg[h])) = sd[h]
                BY <2>1 DEF LocalsOK
            <4>3. pc[h] = "walk" => \A t \in RType : t = Elem(arg[h]) => Get(t)' = sd[h]
                BY <1>2, <4>2, NoDescAssumption
            <4> QED BY <4>1, <4>2, <4>3, <3>1
        <3>5. LocalsOK(h)' BY <3>1, <3>3, <3>4 DEF LocalsOK, Working, Critical
        <3> QED BY <3>2, <3>5
    <2> QED BY <2>2, <2>3
<1>9. Paired'
    <2> SUFFICES ASSUME NEW t \in RType, Get(t)' # NoDesc PROVE Get(Elem(t))' = Get(t)'
        BY DEF Paired, Published
    <2>1. CASE t = key[g] BY <1>0, <1>1, <1>2, <1>7, <2>1
    <2>2. CASE t # key[g]
        <3>1. Get(t) # NoDesc /\ Get(Elem(t)) = Get(t) /\ Elem(t) \in RType
            BY <1>2, <2>2, TypeFacts DEF Inv, Paired, Published
        <3>2. Elem(t) # key[g] BY <1>2, <3>1
        <3> QED BY <1>2, <2>2, <3>1, <3>2
    <2> QED BY <2>1, <2>2
<1> QED BY <1>4, <1>5, <1>6, <1>8, <1>9 DEF Inv, TypeOK

\* The deferred Unlock.
LEMMA UnlockKeeps ==
    ASSUME Inv, NEW g \in Goroutine, Unlock(g) PROVE Inv'
<1> USE DEF Unlock, Goto
<1>1. Shapes' BY DEF Inv, TypeOK, Shapes, PC, NoItems, Item
<1>2. Filed' BY DEF Inv, TypeOK, Filed, Get
<1>3. Mutex' BY GoroutineAssumption DEF Inv, TypeOK, Shapes, Mutex, Critical
<1>4. StackOK(g)' BY EmptyStackOK DEF Inv, TypeOK, Shapes, StackOK, Working
<1>5. LocalsOK(g)' BY DEF Inv, TypeOK, Shapes, LocalsOK, Working, Get
<1>6. \A h \in Goroutine : h # g => Same(h) BY DEF Inv, TypeOK, Shapes, Same
<1> QED BY <1>1, <1>2, <1>3, <1>4, <1>5, <1>6, OneMoves

\* A walk through the descriptors writes nothing.
LEMMA FollowKeeps ==
    ASSUME Inv, NEW g \in Goroutine, Follow(g) PROVE Inv'
<1> USE DEF shared
<1>0. /\ pc[g] = "walk" /\ UNCHANGED <<shared, arg, key, stack, sd, items, calls>>
      /\ \/ pc' = [pc EXCEPT ![g] = "fault"] /\ at' = at
         \/ \E t \in RType : Sd[t] # NoDesc /\ at' = [at EXCEPT ![g] = Sd[t]] /\ pc' = pc
    <2>1. at[g] \in Desc /\ at[g][1] \in RType BY DEF Follow, Inv, TypeOK, Shapes, LocalsOK, Desc
    <2>2. RefSet(at[g][1]) \subseteq RType BY <2>1, TypeFacts DEF RefSet
    <2> QED BY <2>2 DEF Follow
<1>1. Shapes' BY <1>0 DEF Inv, TypeOK, Shapes, PC, Item
<1>2. Filed' BY <1>0 DEF Inv, TypeOK, Filed, Get
<1>3. Mutex' BY <1>0 DEF Inv, TypeOK, Shapes, Mutex, Critical
<1>4. StackOK(g)' BY <1>0, EmptyStackOK DEF Inv, StackOK, Working
<1>5. LocalsOK(g)' BY <1>0 DEF Inv, TypeOK, Shapes, LocalsOK, Working, Get
<1>6. \A h \in Goroutine : h # g => Same(h) BY <1>0 DEF Inv, TypeOK, Shapes, Same
<1> QED BY <1>0, <1>1, <1>2, <1>3, <1>4, <1>5, <1>6, OneMoves

\* The call returns to its caller.
LEMMA ReturnKeeps ==
    ASSUME Inv, NEW g \in Goroutine, Return(g) PROVE Inv'
<1> USE DEF Return, Goto, shared
<1>1. Shapes' BY DEF Inv, TypeOK, Shapes, PC
<1>2. Filed' BY DEF Inv, TypeOK, Filed, Get
<1>3. Mutex' BY DEF Inv, TypeOK, Shapes, Mutex, Critical
<1>4. StackOK(g)' BY EmptyStackOK DEF Inv, TypeOK, Shapes, StackOK, Working
<1>5. LocalsOK(g)' BY DEF Inv, TypeOK, Shapes, LocalsOK, Working, Get
<1>6. \A h \in Goroutine : h # g => Same(h) BY DEF Inv, TypeOK, Shapes, Same
<1> QED BY <1>1, <1>2, <1>3, <1>4, <1>5, <1>6, OneMoves

-----------------------------------------------------------------------------
(***************************************************************************)
(* The theorems                                                            *)
(***************************************************************************)

\* The invariant holds when the package is loaded.
LEMMA InitInv == Init => Inv
<1> SUFFICES ASSUME Init PROVE Inv OBVIOUS
<1> USE DEF Init
<1>1. AnyType \in RType
    <2>1. PICK s \in Struct : TRUE BY StructAssumption
    <2>2. <<s, "struct">> \in RType BY DEF RType
    <2> QED BY <2>2 DEF AnyType
<1>2. \A t \in RType : Get(t) = NoDesc BY TypeFacts DEF Get, NoItems
<1>3. Shapes BY <1>1, TypeFacts, EmptySeq, MaxCallsAssumption DEF Shapes, PC, NoItems, Item
<1>4. Filed BY <1>2 DEF Filed
<1>5. Mutex BY GoroutineAssumption DEF Mutex, Critical
<1>6. ASSUME NEW g \in Goroutine PROVE StackOK(g) /\ LocalsOK(g)
    <2>1. stack[g] = <<>> /\ pc[g] = "idle" OBVIOUS
    <2>2. 1..Len(stack[g]) = {} BY <2>1
    <2> QED BY <2>1, <2>2 DEF StackOK, LocalsOK, Working
<1>7. Paired BY <1>2 DEF Paired, Published
<1> QED BY <1>3, <1>4, <1>5, <1>6, <1>7 DEF Inv, TypeOK

\* Every step of lookups, creation and publication keeps the invariant.
LEMMA StepInv == Inv /\ [Next]_vars => Inv'
<1> SUFFICES ASSUME Inv, [Next]_vars PROVE Inv' OBVIOUS
<1>1. CASE Next
    <2>1. ASSUME NEW g \in Goroutine, NEW t \in RType, Call(g, t) PROVE Inv'
        BY <2>1, CallKeeps
    <2>2. ASSUME NEW g \in Goroutine, Entry(g) PROVE Inv'
        BY <2>2, LookupHitKeeps, LookupMissKeeps DEF Entry
    <2>3. ASSUME NEW g \in Goroutine, Create(g) PROVE Inv'
        BY <2>3, LockKeeps, RecheckHitKeeps, RecheckMissKeeps, EnterCachedKeeps, EnterNewKeeps,
           EnterErrorKeeps, EnterPanicKeeps, FieldLinkedKeeps, FieldDescendKeeps, FieldsDoneKeeps,
           LinkKeeps, RootReturnKeeps, FailKeeps, RootFailKeeps, SetCopyKeeps,
           SetStoreKeeps, UnlockKeeps
        DEF Create
    <2>4. ASSUME NEW g \in Goroutine, Follow(g) \/ Return(g) PROVE Inv'
        BY <2>4, FollowKeeps, ReturnKeeps
    <2> QED BY <1>1, <2>1, <2>2, <2>3, <2>4 DEF Next, Step
<1>2. CASE UNCHANGED vars
    <2>1. (Shapes /\ Filed /\ Mutex /\ Paired)'
        BY <1>2 DEF vars, shared, local, Inv, TypeOK, Shapes, Filed, Mutex, Paired, Published, Get
    <2>2. ASSUME NEW g \in Goroutine PROVE StackOK(g)'
        <3>1. StackOK(g) /\ UNCHANGED <<pc, arg, stack>> BY <1>2 DEF vars, local, Inv
        <3> QED BY <3>1 DEF StackOK, Working
    <2>3. ASSUME NEW g \in Goroutine PROVE LocalsOK(g)'
        <3>1. LocalsOK(g) /\ UNCHANGED <<pc, arg, key, stack, sd, items, at, slots>>
            BY <1>2 DEF vars, shared, local, Inv
        <3> QED BY <3>1 DEF LocalsOK, Working, Wanted, Waiting, CurRef, FieldsOf, Top, Get
    <2> QED BY <2>1, <2>2, <2>3 DEF Inv, TypeOK
<1> QED BY <1>1, <1>2

\* The registry's invariant: types, the mutex, the frames of the prefetch, and
\* a struct and its pointer type bound to one descriptor (desc.go, descmap.go).
THEOREM Invariance == Spec => []Inv
BY InitInv, StepInv, PTL DEF Spec

\* Type correctness, every descriptor filed under its own type included: TypeOK,
\* for any struct graph, any invalid structs and any hash.
THEOREM TypeCorrect == Spec => []TypeOK
<1>1. Inv => TypeOK BY DEF Inv
<1> QED BY <1>1, Invariance, PTL

\* A struct and its pointer type have one descriptor, and every call at work on the
\* struct holds it, however the calls raced to create it (OneDescriptor).
THEOREM SharedDescriptor == Spec => []OneDescriptor
<1>1. Inv => OneDescriptor BY DEF Inv, Paired, OneDescriptor, LocalsOK
<1> QED BY <1>1, Invariance, PTL

\* Only the store in mapStructDesc.Set changes the published table.
LEMMA SlotsChange ==
    ASSUME Next PROVE slots' = slots \/ \E g \in Goroutine : SetStore(g)
BY DEF Next, Step, Call, Entry, LookupHit, LookupMiss, Create, Lock, RecheckHit, RecheckMiss,
    EnterCached, EnterNew, EnterError, EnterPanic, FieldLinked, FieldDescend, FieldsDone, Link,
    RootReturn, Fail, RootFail, SetCopy, Unlock, Follow, Return, shared

\* A published binding is never lost or changed, though every Set rewrites the items
\* of all the types that share the slot (BindOnce).
THEOREM WriteOnce == Spec => BindOnce
<1>1. Inv /\ [Next]_vars => [\A t \in Published : Get(t)' = Get(t)]_vars
    <2> SUFFICES ASSUME Inv, Next PROVE \A t \in Published : Get(t)' = Get(t) OBVIOUS
    <2>1. CASE slots' = slots BY <2>1 DEF Get
    <2>2. ASSUME NEW g \in Goroutine, SetStore(g) PROVE \A t \in Published : Get(t)' = Get(t)
        BY <2>2, StoreBinds DEF Published
    <2> QED BY <2>1, <2>2, SlotsChange
<1> QED BY <1>1, Invariance, PTL DEF Spec, BindOnce

-----------------------------------------------------------------------------
Cached == {t \in RType : cache[t] # NoDesc}

\* All the references of a type are linked.
Linked(t) == \A r \in RefSet(t) : Sd[r] # NoDesc

OnStack(t) == \E g \in Goroutine : \E j \in 1..Len(stack[g]) : stack[g][j].key = t

\* A link leads to the cached descriptor, of a valid struct; a cached descriptor is
\* linked unless its own frame is still at work on it.
CacheOK ==
    /\ \A t \in RType : Sd[t] # NoDesc => Sd[t] = cache[t] /\ Valid(StructOf(t))
    /\ \A t \in Cached : Outcome[StructOf(t)] = "ok" /\ (OnStack(t) \/ Linked(t))

\* A frame is reached from every frame below it.
Chain(g) ==
    \A j, m \in 1..Len(stack[g]) : j < m => Reaches(stack[g][j].key, stack[g][m].key)

\* A frame has linked the references before its current one.  What returns is valid,
\* and what fails is not.
FramesOK(g) ==
    /\ pc[g] # "fault"
    /\ pc[g] = "fail" =>
        /\ ~Valid(StructOf(arg[g]))
        /\ \A j \in 1..Len(stack[g]) : ~Valid(StructOf(stack[g][j].key))
    /\ pc[g] = "unlock" /\ sd[g] = NoDesc => ~Valid(StructOf(arg[g]))
    /\ \A j \in 1..Len(stack[g]) :
        /\ cache[stack[g][j].key] = stack[g][j].sd
        /\ \A m \in 1..(stack[g][j].i - 1) : Sd[Refs[StructOf(stack[g][j].key)][m]] # NoDesc
    /\ pc[g] = "return" => cache[sd[g][1]] = sd[g] /\ Valid(StructOf(sd[g][1]))
    /\ pc[g] \in {"set", "store"} => cache[Elem(arg[g])] = sd[g]

RefsOf(S) == UNION {RefSet(t) : t \in S}

\* The reference frame j of g has found unlinked and will link.
Pending(g, j) == j < Len(stack[g]) \/ pc[g] \in {"enter", "return"}

\* A complete set of cached and valid types that holds all that walks can reach, and none of
\* whose references awaits its link.
Settled(S) ==
    /\ S \subseteq Cached /\ \A t \in S : Valid(StructOf(t))
    /\ Complete(S)
    /\ \A t \in Published : Get(t)[1] \in S
    /\ \A g \in Goroutine :
        /\ pc[g] = "walk" => at[g][1] \in S
        /\ \A j \in 1..Len(stack[g]) :
            Pending(g, j) => Refs[StructOf(stack[g][j].key)][stack[g][j].i] \notin RefsOf(S)

Chains == \A g \in Goroutine : Chain(g)

CInv ==
    /\ Inv
    /\ Chains
    /\ CacheOK
    /\ \A g \in Goroutine : FramesOK(g)
    /\ \E S \in SUBSET RType : Settled(S)

-----------------------------------------------------------------------------
(***************************************************************************)
(* Valid structs and references                                            *)
(***************************************************************************)

\* The references of a struct do not depend on whether it is pointed to.
LEMMA RefsOfStruct ==
    ASSUME NEW t \in RType
    PROVE  RefSet(<<StructOf(t), "struct">>) = RefSet(t) /\ RefSet(t) \subseteq RType
<1>1. StructOf(<<StructOf(t), "struct">>) = StructOf(t) BY DEF StructOf
<1> QED BY <1>1, TypeFacts DEF RefSet

\* A struct is valid exactly if it is well-formed itself and all it mentions is valid.
LEMMA ValidFromRefs ==
    ASSUME NEW t \in RType, Outcome[StructOf(t)] = "ok",
           \A r \in RefSet(t) : Valid(StructOf(r))
    PROVE  Valid(StructOf(t))
<1> DEFINE S == {x \in Struct : Valid(x)} \cup {StructOf(t)}
<1>1. S \in SUBSET Struct /\ StructOf(t) \in S BY TypeFacts
<1>2. ASSUME NEW x \in S
      PROVE  Outcome[x] = "ok" /\ \A r \in RefSet(<<x, "struct">>) : StructOf(r) \in S
    <2>1. CASE x = StructOf(t)
        <3>1. \A r \in RefSet(t) : StructOf(r) \in S BY RefsOfStruct, TypeFacts
        <3> QED BY <2>1, <3>1, RefsOfStruct
    <2>2. CASE x # StructOf(t)
        <3>1. x \in Struct /\ Valid(x) BY <2>2
        <3>2. PICK T \in SUBSET Struct :
                 /\ x \in T /\ \A y \in T : Outcome[y] = "ok"
                 /\ \A y \in T : \A r \in RefSet(<<y, "struct">>) : StructOf(r) \in T
            BY <3>1 DEF Valid
        <3>3. \A y \in T : Valid(y) BY <3>2 DEF Valid
        <3> QED BY <3>2, <3>3
    <2> QED BY <2>1, <2>2
<1> QED BY <1>1, <1>2 DEF Valid

LEMMA ValidRefs ==
    ASSUME NEW t \in RType, Valid(StructOf(t))
    PROVE  Outcome[StructOf(t)] = "ok" /\ \A r \in RefSet(t) : Valid(StructOf(r))
<1>1. PICK T \in SUBSET Struct :
         /\ StructOf(t) \in T /\ \A y \in T : Outcome[y] = "ok"
         /\ \A y \in T : \A r \in RefSet(<<y, "struct">>) : StructOf(r) \in T
    BY DEF Valid
<1>2. \A y \in T : Valid(y) BY <1>1 DEF Valid
<1> QED BY <1>1, <1>2, RefsOfStruct

\* A struct and its pointer type are valid together.
LEMMA ValidElem == ASSUME NEW t \in RType PROVE StructOf(Elem(t)) = StructOf(t)
BY DEF StructOf, Elem

\* Reaches is transitive along references, and keeps valid structs together.
LEMMA ReachesRef ==
    ASSUME NEW t, NEW u, NEW r \in RefSet(u), t = u \/ Reaches(t, u)
    PROVE  Reaches(t, r)
BY DEF Reaches

LEMMA ReachesValid ==
    ASSUME NEW t \in RType, NEW r \in RType, Reaches(t, r), Valid(StructOf(t))
    PROVE  Valid(StructOf(r))
<1> DEFINE S == {u \in RType : Valid(StructOf(u))}
<1>1. \A u \in S : RefSet(u) \subseteq S BY ValidRefs, RefsOfStruct
<1>2. RefSet(t) \subseteq S /\ S \in SUBSET RType BY <1>1
<1> HIDE DEF S
<1>3. r \in S BY <1>1, <1>2 DEF Reaches
<1> QED BY <1>3 DEF S

\* A cached type whose references are linked is valid.
LEMMA LinkedValid ==
    ASSUME CacheOK, NEW t \in Cached, Linked(t) PROVE Valid(StructOf(t))
<1>1. t \in RType /\ Outcome[StructOf(t)] = "ok" BY DEF CacheOK, Cached
<1>2. \A r \in RefSet(t) : Valid(StructOf(r)) BY <1>1, RefsOfStruct DEF CacheOK, Linked
<1> QED BY <1>1, <1>2, ValidFromRefs

\* The reference a frame has come to is one of the frame's struct.
LEMMA CurRefIsRef ==
    ASSUME Shapes, NEW g \in Goroutine, StackOK(g), stack[g] # <<>>, Top(g).i <= Len(FieldsOf(g))
    PROVE  CurRef(g) \in RefSet(Top(g).key)
<1>1. Top(g).i \in 1..Len(FieldsOf(g)) BY CurRefType
<1> QED BY <1>1 DEF CurRef, FieldsOf, RefSet

\* What is about to be looked up or linked is reached from every frame.
LEMMA CurRefReached ==
    ASSUME Shapes, NEW g \in Goroutine, StackOK(g), Chain(g), stack[g] # <<>>,
           Top(g).i <= Len(FieldsOf(g)), NEW j \in 1..Len(stack[g])
    PROVE  Reaches(stack[g][j].key, CurRef(g))
<1>1. CurRef(g) \in RefSet(Top(g).key) /\ Len(stack[g]) \in 1..Len(stack[g])
    BY CurRefIsRef, CurRefType
<1>2. j = Len(stack[g]) \/ j < Len(stack[g]) BY <1>1
<1>3. stack[g][j].key = Top(g).key \/ Reaches(stack[g][j].key, Top(g).key)
    BY <1>1, <1>2 DEF Chain, Top
<1> QED BY <1>1, <1>3, ReachesRef

-----------------------------------------------------------------------------
(***************************************************************************)
(* Every step keeps the chains                                             *)
(***************************************************************************)

\* A stack that is cut, or whose frames move on, keeps its chain.
LEMMA PrefixChain ==
    ASSUME NEW g \in Goroutine, Chain(g), Len(stack'[g]) \in Nat, Len(stack[g]) \in Nat,
           Len(stack'[g]) <= Len(stack[g]),
           \A j \in 1..Len(stack'[g]) : stack'[g][j].key = stack[g][j].key
    PROVE  Chain(g)'
<1>1. 1..Len(stack'[g]) \subseteq 1..Len(stack[g]) OBVIOUS
<1> QED BY <1>1 DEF Chain

LEMMA StepChains == Inv /\ Chains /\ [Next]_vars => Chains'
<1> SUFFICES ASSUME Inv, Chains, [Next]_vars, NEW h \in Goroutine PROVE Chain(h)'
    BY DEF Chains
<1>0. Shapes /\ StackOK(h) /\ LocalsOK(h) /\ Chain(h) /\ stack[h] \in Seq(Frame) /\ Len(stack[h]) \in Nat
    BY DEF Inv, TypeOK, Shapes, Chains
<1>1. CASE stack'[h] = stack[h] BY <1>0, <1>1 DEF Chain
<1>2. CASE stack'[h] = <<>>
    <2>1. 1..Len(stack'[h]) = {} BY <1>2
    <2> QED BY <2>1 DEF Chain
<1>3. CASE stack' = Advance(h) /\ stack[h] # <<>>
    <2>1. \A j \in 1..Len(stack[h]) : stack'[h][j].key = stack[h][j].key
        <3> TAKE j \in 1..Len(stack[h])
        <3>1. CASE j = Len(stack[h]) BY <1>0, <1>3, <3>1, FrameFacts, CurRefType DEF Top, Frame
        <3>2. CASE j # Len(stack[h])
            <4>1. j \in 1..(Len(stack[h]) - 1) BY <1>0, <3>2
            <4> QED BY <1>0, <1>3, <4>1, FrameFacts
        <3> QED BY <3>1, <3>2
    <2>2. Len(stack'[h]) = Len(stack[h]) BY <1>0, <1>3, FrameFacts
    <2> QED BY <1>0, <2>1, <2>2, PrefixChain
<1>4. CASE stack'[h] = Pop(h) /\ stack[h] # <<>>
    <2>1. Len(stack'[h]) = Len(stack[h]) - 1 /\ \A j \in 1..Len(stack'[h]) : stack'[h][j] = stack[h][j]
        BY <1>0, <1>4, Popped
    <2>2. Len(stack[h]) \in 1..Len(stack[h]) BY <1>0, <1>4, Popped
    <2>3. Len(stack'[h]) \in Nat /\ Len(stack'[h]) <= Len(stack[h]) BY <1>0, <2>1, <2>2
    <2> QED BY <1>0, <2>1, <2>3, PrefixChain
<1>5. CASE EnterNew(h)
    <2> DEFINE n == Len(stack[h])
               f == [key |-> key[h], sd |-> <<key[h], made[key[h]]>>, i |-> 1]
    <2>1. stack'[h] = Append(stack[h], f) /\ pc[h] = "enter" BY <1>0, <1>5 DEF EnterNew, Goto, Shapes
    <2>2. f \in Frame BY <1>0 DEF Shapes, Frame, Desc
    <2>3. /\ Len(stack'[h]) = n + 1 /\ stack'[h][n + 1] = f
          /\ \A j \in 1..n : stack'[h][j] = stack[h][j]
        BY <1>0, <2>1, <2>2
    <2>4. ASSUME NEW j \in 1..n PROVE Reaches(stack[h][j].key, f.key)
        <3>1. stack[h] # <<>> BY <2>4
        <3>2. key[h] = CurRef(h) /\ Top(h).i <= Len(FieldsOf(h))
            BY <1>0, <2>1, <3>1 DEF LocalsOK, Wanted, Waiting
        <3> QED BY <1>0, <3>1, <3>2, CurRefReached
    <2>5. ASSUME NEW j \in 1..Len(stack'[h]), NEW m \in 1..Len(stack'[h]), j < m
          PROVE  Reaches(stack'[h][j].key, stack'[h][m].key)
        <3>1. j \in 1..n /\ (m \in 1..n \/ m = n + 1) BY <1>0, <2>3, <2>5
        <3> HIDE DEF n, f
        <3>2. CASE m = n + 1 BY <2>3, <2>4, <3>1, <3>2
        <3>3. CASE m \in 1..n BY <1>0, <2>3, <2>5, <3>1, <3>3 DEF Chain, n
        <3> QED BY <3>1, <3>2, <3>3
    <2> QED BY <2>5 DEF Chain
<1>6. CASE \E g \in Goroutine : Step(g) \/ \E t \in RType : Call(g, t)
    <2>1. PICK g \in Goroutine : Step(g) \/ \E t \in RType : Call(g, t) BY <1>6
    <2>2. CASE h # g
        <3>1. stack'[h] = stack[h]
            BY <1>0, <2>1, <2>2 DEF Shapes, Step, Entry, Create, Goto, shared, Call, LookupHit, LookupMiss,
                Lock, RecheckHit, RecheckMiss, EnterCached, EnterNew, EnterError, EnterPanic, Advance,
                FieldLinked, FieldDescend, FieldsDone, Link, RootReturn, Fail, RootFail, SetCopy,
                SetStore, Unlock, Follow, Return
        <3> QED BY <1>1, <3>1
    <2>3. CASE h = g
        <3>1. CASE FieldLinked(h) \/ Link(h)
            BY <1>0, <1>3, <3>1 DEF FieldLinked, Link, LocalsOK
        <3>2. CASE FieldsDone(h) \/ Fail(h)
            BY <1>0, <1>4, <3>2 DEF FieldsDone, Fail, LocalsOK, Shapes, Goto
        <3>3. CASE EnterPanic(h) BY <1>0, <1>2, <3>3 DEF EnterPanic, Shapes
        <3>4. CASE ~FieldLinked(h) /\ ~Link(h) /\ ~FieldsDone(h) /\ ~Fail(h) /\ ~EnterPanic(h) /\ ~EnterNew(h)
            <4>1. stack'[h] = stack[h]
                BY <1>0, <2>1, <2>3, <3>4 DEF Step, Entry, Create, shared, Call, LookupHit,
                    LookupMiss, Lock, RecheckHit, RecheckMiss, EnterCached, EnterError,
                    FieldDescend, RootReturn, RootFail, SetCopy, SetStore, Unlock, Follow, Return
            <4> QED BY <1>1, <4>1
        <3> QED BY <1>5, <3>1, <3>2, <3>3, <3>4
    <2> QED BY <2>2, <2>3
<1> QED BY <1>1, <1>6 DEF Next, vars, local

-----------------------------------------------------------------------------
(***************************************************************************)
(* Every step keeps what is published complete                             *)
(***************************************************************************)

\* While one goroutine holds the mutex the others have no frame.
LEMMA Alone ==
    ASSUME Inv, NEW g \in Goroutine, pc[g] \in Critical, NEW h \in Goroutine, h # g
    PROVE  pc[h] \notin Critical /\ stack[h] = <<>> /\ 1..Len(stack[h]) = {}
<1>1. pc[h] \notin Critical BY GoroutineAssumption DEF Inv, Mutex
<1>2. stack[h] = <<>> BY <1>1 DEF Inv, StackOK, Working, Critical
<1> QED BY <1>1, <1>2

\* A goroutine that does not move keeps its part, if what it relies on is kept.
LEMMA Idle ==
    ASSUME NEW h \in Goroutine, FramesOK(h), Same(h), pc[h] \notin Critical,
           stack[h] = <<>>, 1..Len(stack[h]) = {}
    PROVE  FramesOK(h)'
BY DEF FramesOK, Same, Critical

\* Steps that change neither the cache, the links, the table nor a stack.
LEMMA Quiet ==
    ASSUME CInv, Inv', Chains', NEW g \in Goroutine,
           UNCHANGED <<slots, cache, Sd, stack>>,
           \A h \in Goroutine : h # g => Same(h),
           FramesOK(g)',
           \A S \in SUBSET RType : Settled(S) /\ pc'[g] = "walk" => at'[g][1] \in S,
           \A j \in 1..Len(stack[g]), S \in SUBSET RType :
              Settled(S) /\ pc'[g] \in {"enter", "return"}
                => Refs[StructOf(stack[g][j].key)][stack[g][j].i] \notin RefsOf(S)
    PROVE  CInv'
<1>1. CacheOK' BY DEF CInv, CacheOK, Cached, OnStack, Linked
<1>2. ASSUME NEW h \in Goroutine, h # g PROVE FramesOK(h)'
    <2>1. Same(h) /\ FramesOK(h) BY <1>2 DEF CInv
    <2> QED BY <2>1 DEF Same, FramesOK
<1>3. PICK S \in SUBSET RType : Settled(S) BY DEF CInv
<1>4. Settled(S)'
    <2>1. S \subseteq Cached' /\ Complete(S)' /\ \A t \in S : Valid(StructOf(t)) BY <1>3 DEF Settled, Cached, Complete
    <2>2. \A t \in Published' : Get(t)'[1] \in S BY <1>3 DEF Settled, Published, Get
    <2>3. ASSUME NEW h \in Goroutine
          PROVE  /\ pc'[h] = "walk" => at'[h][1] \in S
                 /\ \A j \in 1..Len(stack'[h]) :
                      Pending(h, j)' => Refs[StructOf(stack'[h][j].key)][stack'[h][j].i] \notin RefsOf(S)
        <3>1. CASE h = g BY <1>3, <3>1 DEF Settled, Pending
        <3>2. CASE h # g
            <4>1. Same(h) BY <3>2
            <4> QED BY <1>3, <4>1 DEF Settled, Pending, Same
        <3> QED BY <3>1, <3>2
    <2> QED BY <2>1, <2>2, <2>3 DEF Settled
<1> QED BY <1>1, <1>2, <1>3, <1>4 DEF CInv

\* The steps outside the mutex, and the ones under it that only move on.
LEMMA QuietSteps ==
    ASSUME CInv, Inv', Chains', Tame, NEW g \in Goroutine,
           \/ \E t \in RType : Call(g, t)
           \/ LookupHit(g) \/ LookupMiss(g) \/ Lock(g) \/ RecheckHit(g) \/ RecheckMiss(g)
           \/ EnterCached(g) \/ RootReturn(g) \/ SetCopy(g) \/ Unlock(g)
           \/ Return(g)
    PROVE  CInv'
<1> USE DEF Goto, shared
<1>0. /\ Inv /\ Shapes /\ StackOK(g) /\ LocalsOK(g) /\ FramesOK(g) /\ CacheOK
      /\ arg[g] \in RType /\ Elem(arg[g]) \in RType
    BY TypeFacts DEF CInv, Inv, TypeOK, Shapes
<1>1. UNCHANGED <<slots, cache, Sd, stack>>
    BY DEF Call, LookupHit, LookupMiss, Lock, RecheckHit, RecheckMiss, EnterCached, RootReturn,
        SetCopy, Unlock, Return
<1>2. \A h \in Goroutine : h # g => Same(h)
    BY <1>0 DEF Shapes, Same, Call, LookupHit, LookupMiss, Lock, RecheckHit, RecheckMiss,
        EnterCached, RootReturn, SetCopy, Unlock, Return
<1>3. CASE EnterCached(g)
    <2>1. /\ pc[g] = "enter" /\ pc'[g] = "return" /\ sd'[g] = cache[key[g]] /\ cache' = cache
          /\ sd'[g] \in Desc /\ sd'[g][1] = key[g]
        BY <1>0, <1>3 DEF EnterCached, Shapes, Item, Inv, TypeOK, Filed
    <2>2. FramesOK(g)'
        <3>1. key[g] \in Cached /\ key[g] \in RType BY <1>0, <1>3 DEF EnterCached, Cached, Shapes
        <3>2. ASSUME NEW j \in 1..Len(stack[g]), stack[g][j].key = key[g] PROVE Valid(StructOf(key[g]))
            <4>1. stack[g] # <<>> BY <3>2
            <4>2. key[g] = CurRef(g) /\ Top(g).i <= Len(FieldsOf(g))
                BY <1>0, <2>1, <4>1 DEF LocalsOK, Wanted, Waiting
            <4>3. Reaches(key[g], key[g])
                BY <1>0, <3>2, <4>1, <4>2, CurRefReached DEF CInv, Chains
            <4> QED BY <3>1, <4>3 DEF Tame
        <3>3. OnStack(key[g]) => \E j \in 1..Len(stack[g]) : stack[g][j].key = key[g]
            BY <1>0, <2>1, Alone DEF OnStack, Critical
        <3>4. Valid(StructOf(key[g])) BY <1>0, <3>1, <3>2, <3>3, LinkedValid DEF CacheOK
        <3> QED BY <1>0, <1>1, <2>1, <3>4 DEF FramesOK
    <2>3. \A j \in 1..Len(stack[g]), S \in SUBSET RType :
              Settled(S) => Refs[StructOf(stack[g][j].key)][stack[g][j].i] \notin RefsOf(S)
        BY <2>1 DEF Settled, Pending
    <2> QED BY <1>1, <1>2, <2>1, <2>2, <2>3, Quiet
<1>4. CASE ~EnterCached(g)
    <2>1. stack[g] = <<>>
        BY <1>0, <1>4 DEF StackOK, Working, Call, LookupHit, LookupMiss, Lock, RecheckHit, RecheckMiss,
            RootReturn, SetCopy, Unlock, Return
    <2>2. 1..Len(stack[g]) = {} BY <2>1
    <2>3. FramesOK(g)'
        <3>1. pc'[g] \notin {"fail", "fault", "return"}
            BY <1>0, <1>4 DEF Shapes, Call, LookupHit, LookupMiss, Lock, RecheckHit, RecheckMiss,
                RootReturn, SetCopy, Unlock, Return, NextSet
        <3>2. pc'[g] \in {"set", "store"} => cache[Elem(arg[g])] = sd[g] /\ arg'[g] = arg[g] /\ sd'[g] = sd[g]
            BY <1>0, <1>4, <2>1 DEF Shapes, Call, LookupHit, LookupMiss, Lock, RecheckHit, RecheckMiss,
                RootReturn, SetCopy, Unlock, Return, NextSet, FramesOK, LocalsOK, Wanted
        <3>3. pc'[g] = "unlock" => sd'[g] # NoDesc
            BY <1>0, <1>4 DEF Shapes, Call, LookupHit, LookupMiss, Lock, RecheckHit, RecheckMiss,
                RootReturn, SetCopy, Unlock, Return
        <3> QED BY <1>1, <2>2, <3>1, <3>2, <3>3 DEF FramesOK
    <2>4. ASSUME NEW S \in SUBSET RType, Settled(S), pc'[g] = "walk" PROVE at'[g][1] \in S
        <3>1. \E t \in Published : at'[g] = Get(t)
            <4>1. CASE LookupHit(g) BY <1>0, <4>1 DEF LookupHit, Published, Shapes
            <4>2. CASE Unlock(g)
                BY <1>0, <2>4, <4>2 DEF Unlock, Published, Shapes, LocalsOK
            <4>3. CASE ~LookupHit(g) /\ ~Unlock(g)
                BY <1>0, <1>4, <2>4, <4>3 DEF Shapes, Call, LookupMiss, Lock, RecheckHit, RecheckMiss,
                    RootReturn, SetCopy, Return, NextSet
            <4> QED BY <4>1, <4>2, <4>3
        <3> QED BY <2>4, <3>1 DEF Settled
    <2> QED BY <1>1, <1>2, <2>2, <2>3, <2>4, Quiet
<1> QED BY <1>3, <1>4

\* An error reaches only frames of invalid structs, and a panic finds no frame.
LEMMA RefusalSteps ==
    ASSUME CInv, Inv', Chains', Tame, NEW g \in Goroutine,
           EnterError(g) \/ EnterPanic(g) \/ RootFail(g)
    PROVE  CInv'
<1> USE DEF Goto, shared
<1>0. /\ Inv /\ Shapes /\ StackOK(g) /\ LocalsOK(g) /\ FramesOK(g) /\ Chain(g)
      /\ arg[g] \in RType /\ key[g] \in RType /\ stack[g] \in Seq(Frame)
    BY DEF CInv, Inv, TypeOK, Shapes, Chains
<1>1. CASE RootFail(g)
    <2>1. FramesOK(g)' BY <1>0, <1>1 DEF FramesOK, RootFail, Shapes
    <2>2. \A h \in Goroutine : h # g => Same(h) BY <1>0, <1>1 DEF Shapes, Same, RootFail
    <2>3. UNCHANGED <<slots, cache, Sd, stack>> /\ pc'[g] = "unlock"
        BY <1>0, <1>1 DEF RootFail, Shapes
    <2> QED BY <2>1, <2>2, <2>3, Quiet
<1>2. CASE EnterError(g) \/ EnterPanic(g)
    <2>1. /\ pc[g] = "enter" /\ Waiting(g) /\ key[g] = Wanted(g) /\ Outcome[StructOf(key[g])] # "ok"
          /\ UNCHANGED <<slots, cache, Sd, arg>>
        BY <1>0, <1>2 DEF LocalsOK, EnterError, EnterPanic
    <2>2. ~Valid(StructOf(key[g])) BY <1>0, <2>1, ValidRefs
    <2>3. \A j \in 1..Len(stack[g]) : ~Valid(StructOf(stack[g][j].key))
        <3> SUFFICES ASSUME NEW j \in 1..Len(stack[g]) PROVE ~Valid(StructOf(stack[g][j].key))
            OBVIOUS
        <3>1. stack[g] # <<>> OBVIOUS
        <3>2. Reaches(stack[g][j].key, key[g])
            BY <1>0, <2>1, <3>1, CurRefReached DEF Wanted, Waiting
        <3>3. stack[g][j] \in Frame BY <1>0
        <3>4. stack[g][j].key \in RType BY <3>3 DEF Frame
        <3> QED BY <1>0, <2>2, <3>2, <3>4, ReachesValid
    <2>4. ~Valid(StructOf(arg[g]))
        <3>1. CASE stack[g] = <<>> BY <1>0, <2>1, <2>2, <3>1, ValidElem DEF Wanted
        <3>2. CASE stack[g] # <<>>
            <4>1. Len(stack[g]) \in Nat /\ Len(stack[g]) # 0 BY <1>0, <3>2
            <4>2. 1 \in 1..Len(stack[g]) BY <4>1
            <4>3. stack[g][1].key = Elem(arg[g]) BY <1>0, <4>2 DEF StackOK
            <4> QED BY <1>0, <2>3, <4>2, <4>3, ValidElem
        <3> QED BY <3>1, <3>2
    <2>5. EnterPanic(g) => stack[g] = <<>>
        <3> SUFFICES ASSUME EnterPanic(g), stack[g] # <<>> PROVE FALSE OBVIOUS
        <3>1. key[g] \in RefSet(Top(g).key) /\ Top(g).key \in RType
            BY <1>0, <2>1, CurRefIsRef, CurRefType DEF Wanted, Waiting
        <3> QED BY <3>1 DEF Tame, EnterPanic
    <2>6. stack' = stack BY <1>0, <1>2, <2>5 DEF EnterError, EnterPanic, Shapes
    <2>7. pc'[g] \in {"fail", "unlock"} /\ \A h \in Goroutine : h # g => Same(h)
        BY <1>0, <1>2 DEF EnterError, EnterPanic, Shapes, Same
    <2>8. FramesOK(g)' BY <1>0, <2>1, <2>3, <2>4, <2>6, <2>7 DEF FramesOK
    <2> QED BY <2>1, <2>6, <2>7, <2>8, Quiet
<1> QED BY <1>1, <1>2

\* A walk stays where everything is linked, so it never faults.
LEMMA FollowSettled ==
    ASSUME CInv, Inv', Chains', NEW g \in Goroutine, Follow(g) PROVE CInv'
<1> USE DEF shared
<1>0. /\ Shapes /\ StackOK(g) /\ LocalsOK(g) /\ FramesOK(g) /\ pc[g] = "walk"
      /\ UNCHANGED <<slots, cache, Sd, stack, arg, key, sd, items>>
    BY DEF CInv, Inv, TypeOK, Follow
<1>1. stack[g] = <<>> /\ 1..Len(stack[g]) = {} BY <1>0 DEF StackOK, Working
<1>2. PICK S \in SUBSET RType : Settled(S) BY DEF CInv
<1>3. \A r \in RefSet(at[g][1]) : Sd[r] # NoDesc BY <1>0, <1>2 DEF Settled, Complete
<1>4. PICK r \in RefSet(at[g][1]) : at' = [at EXCEPT ![g] = Sd[r]] /\ pc' = pc
    BY <1>3 DEF Follow
<1>5. \A h \in Goroutine : h # g => Same(h) BY <1>0, <1>4 DEF Shapes, Same
<1>6. FramesOK(g)' BY <1>0, <1>1, <1>4 DEF FramesOK
<1>7. ASSUME NEW T \in SUBSET RType, Settled(T) PROVE at'[g][1] \in T
    <2>1. at[g][1] \in T /\ at'[g] = Sd[r] BY <1>0, <1>4, <1>7 DEF Settled, Shapes
    <2> QED BY <1>7, <2>1 DEF Settled, Complete
<1> QED BY <1>0, <1>1, <1>5, <1>6, <1>7, Quiet

\* The other goroutines, while g builds.
LEMMA OthersIdle ==
    ASSUME CInv, NEW g \in Goroutine, pc[g] \in Critical,
           \A h \in Goroutine : h # g => Same(h)
    PROVE  \A h \in Goroutine : h # g =>
              FramesOK(h)' /\ stack'[h] = <<>> /\ stack[h] = <<>> /\ pc'[h] = pc[h] /\ at'[h] = at[h]
<1> SUFFICES ASSUME NEW h \in Goroutine, h # g
             PROVE  FramesOK(h)' /\ stack'[h] = <<>> /\ stack[h] = <<>> /\ pc'[h] = pc[h] /\ at'[h] = at[h]
    OBVIOUS
<1>1. pc[h] \notin Critical /\ stack[h] = <<>> /\ 1..Len(stack[h]) = {}
    BY Alone DEF CInv
<1>2. FramesOK(h) /\ Same(h) BY DEF CInv
<1> QED BY <1>1, <1>2, Idle DEF Same

\* A set stays settled when links are only added outside its references, none of its
\* types leaves the cache, and the frames that wait were waiting before.
LEMMA StaysSettled ==
    ASSUME CInv, NEW S \in SUBSET RType, Settled(S), NEW g \in Goroutine, pc[g] \in Critical,
           slots' = slots, S \subseteq Cached',
           \A r \in RefsOf(S) : Sd'[r] = Sd[r],
           \A h \in Goroutine : h # g => stack'[h] = <<>> /\ pc'[h] = pc[h] /\ at'[h] = at[h],
           pc'[g] # "walk",
           \A j \in 1..Len(stack'[g]) :
               Pending(g, j)' => Refs[StructOf(stack'[g][j].key)][stack'[g][j].i] \notin RefsOf(S)
    PROVE  Settled(S)'
<1>1. S \subseteq Cached' /\ \A t \in S : Valid(StructOf(t)) BY DEF Settled
<1>2. Complete(S)'
    <2> SUFFICES ASSUME NEW t \in S, NEW r \in RefSet(t) PROVE Sd'[r] # NoDesc /\ Sd'[r][1] \in S
        BY DEF Complete
    <2>1. r \in RefsOf(S) BY DEF RefsOf
    <2> QED BY <2>1 DEF Settled, Complete
<1>3. \A t \in Published' : Get(t)'[1] \in S BY DEF Settled, Published, Get
<1>4. ASSUME NEW h \in Goroutine
      PROVE  /\ pc'[h] = "walk" => at'[h][1] \in S
             /\ \A j \in 1..Len(stack'[h]) :
                  Pending(h, j)' => Refs[StructOf(stack'[h][j].key)][stack'[h][j].i] \notin RefsOf(S)
    <2>1. CASE h = g BY <2>1
    <2>2. CASE h # g
        <3>1. 1..Len(stack'[h]) = {}
            <4>1. stack'[h] = <<>> BY <2>2
            <4> QED BY <4>1
        <3> QED BY <2>2, <3>1 DEF Settled
    <2> QED BY <2>1, <2>2
<1> QED BY <1>1, <1>2, <1>3, <1>4 DEF Settled

\* A new descriptor is not yet among the settled ones, and its frame waits for its links.
LEMMA EnterNewSettled ==
    ASSUME CInv, Inv', Chains', NEW g \in Goroutine, EnterNew(g) PROVE CInv'
<1> DEFINE t == key[g]
           d == <<t, made[t]>>
           f == [key |-> t, sd |-> d, i |-> 1]
<1>0. /\ Shapes /\ StackOK(g) /\ FramesOK(g) /\ CacheOK /\ pc[g] = "enter" /\ pc'[g] = "fields"
      /\ slots' = slots /\ Sd' = Sd /\ cache[t] = NoDesc /\ Outcome[StructOf(t)] = "ok" /\ cache' = [cache EXCEPT ![t] = d]
      /\ t \in RType /\ d \in Desc /\ d # NoDesc /\ f \in Frame
      /\ stack[g] \in Seq(Frame) /\ stack'[g] = Append(stack[g], f)
    <2>1. /\ Shapes /\ StackOK(g) /\ FramesOK(g) /\ CacheOK /\ t \in RType
          /\ made[t] \in Nat /\ stack[g] \in Seq(Frame)
        BY DEF CInv, Inv, TypeOK, Shapes
    <2>2. /\ pc[g] = "enter" /\ pc'[g] = "fields" /\ slots' = slots /\ Sd' = Sd
          /\ cache[t] = NoDesc /\ Outcome[StructOf(t)] = "ok" /\ cache' = [cache EXCEPT ![t] = d]
          /\ stack'[g] = Append(stack[g], f)
        BY <2>1 DEF EnterNew, Goto, Shapes
    <2>3. d \in Desc /\ d # NoDesc BY <2>1, NoDescAssumption DEF Desc
    <2>4. f \in Frame BY <2>1, <2>3 DEF Frame
    <2> HIDE DEF t, d, f
    <2> QED BY <2>1, <2>2, <2>3, <2>4
<1>1. /\ Len(stack'[g]) = Len(stack[g]) + 1
      /\ \A j \in 1..Len(stack[g]) : stack'[g][j] = stack[g][j]
      /\ stack'[g][Len(stack[g]) + 1] = f
      /\ Len(stack[g]) \in Nat
    BY <1>0
<1>2. \A h \in Goroutine : h # g => Same(h) BY <1>0 DEF EnterNew, Goto, Same, Shapes
<1>3. \A h \in Goroutine : h # g =>
         FramesOK(h)' /\ stack'[h] = <<>> /\ stack[h] = <<>> /\ pc'[h] = pc[h] /\ at'[h] = at[h]
    BY <1>0, <1>2, OthersIdle DEF Critical
<1> HIDE DEF t, d
<1>4. CacheOK'
    <2>1. \A u \in RType : Sd[u] # NoDesc => cache'[u] = cache[u] BY <1>0 DEF CacheOK, Shapes, Item
    <2>2. ASSUME NEW u \in Cached' PROVE Outcome[StructOf(u)] = "ok" /\ (OnStack(u)' \/ Linked(u)')
        <3>1. CASE u = t
            <4>1. Len(stack[g]) + 1 \in 1..Len(stack'[g]) /\ stack'[g][Len(stack[g]) + 1].key = t
                BY <1>1
            <4> QED BY <1>0, <3>1, <4>1 DEF OnStack
        <3>2. CASE u # t
            <4>1. u \in Cached BY <1>0, <3>2 DEF Cached, Shapes, Item
            <4>2. CASE Linked(u) BY <1>0, <4>1, <4>2 DEF Linked, CacheOK
            <4>3. ASSUME NEW h \in Goroutine, NEW j \in 1..Len(stack[h]), stack[h][j].key = u
                  PROVE  OnStack(u)'
                <5>1. h = g
                    <6>1. h # g => 1..Len(stack[h]) = {} BY <1>0, Alone DEF CInv, Critical
                    <6> QED BY <6>1
                <5>2. j \in 1..Len(stack'[g]) /\ stack'[g][j].key = u BY <1>1, <4>3, <5>1
                <5> QED BY <5>2 DEF OnStack
            <4> QED BY <1>0, <4>1, <4>2, <4>3 DEF CacheOK, OnStack
        <3> QED BY <3>1, <3>2
    <2> QED BY <1>0, <2>1, <2>2 DEF CacheOK
<1>5. FramesOK(g)'
    <2>1. ASSUME NEW j \in 1..Len(stack'[g])
          PROVE  /\ cache'[stack'[g][j].key] = stack'[g][j].sd
                 /\ \A m \in 1..(stack'[g][j].i - 1) : Sd'[Refs[StructOf(stack'[g][j].key)][m]] # NoDesc
        <3>1. CASE j = Len(stack[g]) + 1
            <4>1. stack'[g][j] = f BY <1>1, <3>1
            <4>2. cache'[t] = d BY <1>0 DEF Shapes, Item
            <4>3. 1..(f.i - 1) = {} OBVIOUS
            <4> QED BY <4>1, <4>2, <4>3
        <3>2. CASE j # Len(stack[g]) + 1
            <4>1. j \in 1..Len(stack[g]) BY <1>1, <3>2
            <4>2. stack'[g][j] = stack[g][j] BY <1>1, <4>1
            <4>3. stack[g][j] \in Frame BY <1>0, <4>1
            <4>4. stack[g][j].key \in RType /\ stack[g][j].sd # NoDesc
                BY <4>3, NoDescAssumption DEF Frame
            <4>5. cache[stack[g][j].key] = stack[g][j].sd BY <1>0, <4>1 DEF FramesOK
            <4>6. stack[g][j].key # t BY <1>0, <4>4, <4>5
            <4>7. cache'[stack[g][j].key] = stack[g][j].sd
                BY <1>0, <4>4, <4>5, <4>6 DEF Shapes, Item
            <4>8. \A m \in 1..(stack[g][j].i - 1) : Sd'[Refs[StructOf(stack[g][j].key)][m]] # NoDesc
                BY <1>0, <4>1 DEF FramesOK
            <4> QED BY <4>2, <4>7, <4>8
        <3> QED BY <3>1, <3>2
    <2> QED BY <1>0, <2>1 DEF FramesOK
<1>6. PICK S \in SUBSET RType : Settled(S) BY DEF CInv
<1>7. \A j \in 1..Len(stack'[g]) :
         Pending(g, j)' => Refs[StructOf(stack'[g][j].key)][stack'[g][j].i] \notin RefsOf(S)
    <2> SUFFICES ASSUME NEW j \in 1..Len(stack'[g]), Pending(g, j)'
                 PROVE  Refs[StructOf(stack'[g][j].key)][stack'[g][j].i] \notin RefsOf(S)
        OBVIOUS
    <2>1. j \in 1..Len(stack[g]) BY <1>0, <1>1 DEF Pending
    <2> QED BY <1>0, <1>1, <1>6, <2>1 DEF Settled, Pending
<1>8. Cached \subseteq Cached' BY <1>0 DEF Cached, Shapes, Item
<1>9. Settled(S)'
    <2>1. pc[g] \in Critical /\ pc'[g] # "walk" BY <1>0 DEF Critical
    <2>2. S \subseteq Cached' BY <1>6, <1>8 DEF Settled
    <2>3. \A r \in RefsOf(S) : Sd'[r] = Sd[r] BY <1>0
    <2> QED BY <1>0, <1>3, <1>6, <1>7, <2>1, <2>2, <2>3, StaysSettled
<1> QED BY <1>3, <1>4, <1>5, <1>6, <1>9 DEF CInv

\* The innermost frame moves past a reference that is linked now.
LEMMA AdvanceSettled ==
    ASSUME CInv, Inv', Chains', NEW g \in Goroutine, pc[g] \in {"fields", "return"}, stack[g] # <<>>,
           Top(g).i <= Len(FieldsOf(g)), stack' = Advance(g), pc'[g] = "fields",
           UNCHANGED <<slots, cache>>, \A h \in Goroutine : h # g => Same(h),
           \A r \in RType : r # CurRef(g) => Sd'[r] = Sd[r],
           Sd'[CurRef(g)] # NoDesc, Sd'[CurRef(g)] = cache[CurRef(g)], Valid(StructOf(CurRef(g))),
           \A S \in SUBSET RType : Settled(S) => \A r \in RefsOf(S) : Sd'[r] = Sd[r]
    PROVE  CInv'
<1> DEFINE n == Len(stack[g])
<1>0. /\ Shapes /\ StackOK(g) /\ FramesOK(g) /\ CacheOK /\ n \in Nat /\ n >= 1
      /\ stack[g] \in Seq(Frame)
    <2>1. /\ Shapes /\ StackOK(g) /\ FramesOK(g) /\ CacheOK /\ stack[g] \in Seq(Frame)
        BY DEF CInv, Inv, TypeOK, Shapes
    <2>2. n \in Nat BY <2>1
    <2>3. n \in 1..n BY <2>1, CurRefType
    <2> HIDE DEF n
    <2> QED BY <2>1, <2>2, <2>3
<1>1. /\ Len(stack'[g]) = n
      /\ \A j \in 1..(n - 1) : stack'[g][j] = stack[g][j]
      /\ stack'[g][n] = [Top(g) EXCEPT !.i = @ + 1]
      /\ Top(g) \in Frame /\ Top(g).i \in Nat
    BY <1>0, FrameFacts, CurRefType
<1>2. /\ stack'[g][n].key = Top(g).key /\ stack'[g][n].sd = Top(g).sd
      /\ stack'[g][n].i = Top(g).i + 1
    BY <1>1 DEF Frame
<1>3. \A h \in Goroutine : h # g =>
         FramesOK(h)' /\ stack'[h] = <<>> /\ stack[h] = <<>> /\ pc'[h] = pc[h] /\ at'[h] = at[h]
    BY OthersIdle DEF Critical
<1> HIDE DEF n
<1>4. \A r \in RType : Sd[r] # NoDesc => Sd'[r] # NoDesc OBVIOUS
<1>5. \A j \in 1..n : stack'[g][j].key = stack[g][j].key /\ stack'[g][j].sd = stack[g][j].sd
    <2> TAKE j \in 1..n
    <2>1. CASE j = n BY <1>2, <2>1 DEF Top, n
    <2>2. CASE j # n
        <3>1. j \in 1..(n - 1) BY <1>0, <2>2
        <3> QED BY <1>1, <3>1
    <2> QED BY <2>1, <2>2
<1>6. CacheOK'
    <2>1. ASSUME NEW u \in RType, Sd'[u] # NoDesc PROVE Sd'[u] = cache[u] /\ Valid(StructOf(u))
        BY <1>0, <2>1 DEF CacheOK
    <2>2. ASSUME NEW u \in Cached PROVE OnStack(u)' \/ Linked(u)'
        <3>1. CASE Linked(u)
            <4>1. RefSet(u) \subseteq RType BY TypeFacts DEF RefSet, Cached
            <4> QED BY <1>4, <3>1, <4>1 DEF Linked
        <3>2. ASSUME NEW h \in Goroutine, NEW j \in 1..Len(stack[h]), stack[h][j].key = u
              PROVE  OnStack(u)'
            <4>1. h # g => stack[h] = <<>> BY <1>3
            <4>2. h = g
                <5>1. Len(<<>>) = 0 /\ 1..0 = {} OBVIOUS
                <5> QED BY <4>1, <5>1
            <4>3. j \in 1..n BY <4>2 DEF n
            <4>4. j \in 1..Len(stack'[g]) /\ stack'[g][j].key = u BY <1>1, <1>5, <4>2, <4>3, <3>2
            <4> QED BY <4>4 DEF OnStack
        <3> QED BY <1>0, <3>1, <3>2 DEF CacheOK, OnStack
    <2> QED BY <1>0, <2>1, <2>2 DEF CacheOK, Cached
<1>7. FramesOK(g)'
    <2>1. ASSUME NEW j \in 1..n
          PROVE  /\ cache[stack'[g][j].key] = stack'[g][j].sd
                 /\ \A m \in 1..(stack'[g][j].i - 1) : Sd'[Refs[StructOf(stack'[g][j].key)][m]] # NoDesc
        <3>1. j \in 1..Len(stack[g]) BY DEF n
        <3>2. cache[stack'[g][j].key] = stack'[g][j].sd BY <1>0, <1>5, <3>1 DEF FramesOK
        <3>3. /\ stack[g][j].key \in RType
              /\ stack[g][j].i \in 1..(Len(Refs[StructOf(stack[g][j].key)]) + 1)
              /\ Refs[StructOf(stack[g][j].key)] \in Seq(RType)
            <4>1. stack[g][j] \in Frame BY <1>0, <3>1
            <4>2. stack[g][j].key \in RType BY <4>1 DEF Frame
            <4>3. stack[g][j].i \in 1..(Len(Refs[StructOf(stack[g][j].key)]) + 1)
                BY <1>0, <3>1 DEF StackOK
            <4> QED BY <4>2, <4>3, TypeFacts
        <3>4. \A m \in 1..(stack[g][j].i - 1) : Sd'[Refs[StructOf(stack[g][j].key)][m]] # NoDesc
            <4> TAKE m \in 1..(stack[g][j].i - 1)
            <4>1. Refs[StructOf(stack[g][j].key)][m] \in RType BY <3>3
            <4>2. Sd[Refs[StructOf(stack[g][j].key)][m]] # NoDesc BY <1>0, <3>1 DEF FramesOK
            <4> QED BY <1>4, <4>1, <4>2
        <3>5. CASE j = n
            <4>1. stack[g][j] = Top(g) BY <3>5 DEF Top, n
            <4>2. \A m \in 1..Top(g).i : m # Top(g).i => m \in 1..(Top(g).i - 1) BY <1>1
            <4>3. Sd'[Refs[StructOf(Top(g).key)][Top(g).i]] # NoDesc BY DEF CurRef, FieldsOf
            <4>4. stack'[g][j].i - 1 = Top(g).i
                <5>1. stack'[g][j].i = Top(g).i + 1 BY <1>2, <3>5
                <5>2. Top(g).i \in Nat BY <1>1
                <5> QED BY <5>1, <5>2
            <4>5. stack'[g][j].key = Top(g).key BY <1>5, <4>1
            <4>6. \A m \in 1..Top(g).i : Sd'[Refs[StructOf(Top(g).key)][m]] # NoDesc
                BY <3>4, <4>1, <4>2, <4>3
            <4> QED BY <3>2, <4>4, <4>5, <4>6
        <3>6. CASE j # n
            <4>1. j \in 1..(n - 1) BY <1>0, <3>6
            <4> QED BY <1>1, <3>2, <3>4, <4>1
        <3> QED BY <3>5, <3>6
    <2> QED BY <1>1, <2>1 DEF FramesOK
<1>8. PICK S \in SUBSET RType : Settled(S) BY DEF CInv
<1>9. \A j \in 1..Len(stack'[g]) :
         Pending(g, j)' => Refs[StructOf(stack'[g][j].key)][stack'[g][j].i] \notin RefsOf(S)
    <2> SUFFICES ASSUME NEW j \in 1..Len(stack'[g]), Pending(g, j)'
                 PROVE  Refs[StructOf(stack'[g][j].key)][stack'[g][j].i] \notin RefsOf(S)
        OBVIOUS
    <2>1. j \in 1..(n - 1) BY <1>0, <1>1 DEF Pending
    <2>2. j \in 1..Len(stack[g]) /\ Pending(g, j) BY <1>0, <2>1 DEF Pending, n
    <2> QED BY <1>1, <1>8, <2>1, <2>2 DEF Settled
<1>10. Settled(S)'
    <2>1. pc[g] \in Critical /\ pc'[g] # "walk" BY DEF Critical
    <2>2. S \subseteq Cached' BY <1>8 DEF Settled, Cached
    <2>3. \A r \in RefsOf(S) : Sd'[r] = Sd[r] BY <1>8
    <2> QED BY <1>3, <1>8, <1>9, <2>1, <2>2, <2>3, StaysSettled
<1> QED BY <1>3, <1>6, <1>7, <1>8, <1>10 DEF CInv

\* A reference that is linked already is passed.
LEMMA FieldLinkedSettled ==
    ASSUME CInv, Inv', Chains', NEW g \in Goroutine, FieldLinked(g) PROVE CInv'
<1> USE DEF FieldLinked, shared
<1>0. Shapes /\ StackOK(g) /\ stack[g] # <<>> /\ CacheOK
    BY DEF CInv, Inv, TypeOK, LocalsOK
<1>1. \A h \in Goroutine : h # g => Same(h) BY <1>0, FrameFacts DEF Same
<1>2. Sd[CurRef(g)] = cache[CurRef(g)] /\ Valid(StructOf(CurRef(g))) BY <1>0, CurRefType DEF CacheOK
<1> QED BY <1>0, <1>1, <1>2, AdvanceSettled

\* A new link points to a descriptor of the cache.
LEMMA LinkSettled ==
    ASSUME CInv, Inv', Chains', NEW g \in Goroutine, Link(g) PROVE CInv'
<1>0. /\ Shapes /\ StackOK(g) /\ stack[g] # <<>> /\ CacheOK /\ pc[g] = "return" /\ pc'[g] = "fields"
      /\ Top(g).i <= Len(FieldsOf(g)) /\ sd[g] # NoDesc /\ sd[g][1] = CurRef(g)
      /\ cache[sd[g][1]] = sd[g] /\ Valid(StructOf(sd[g][1]))
    BY DEF CInv, Inv, TypeOK, Shapes, LocalsOK, Waiting, Wanted, FramesOK, Link, Goto
<1>1. /\ CurRef(g) \in RType /\ Sd' = [Sd EXCEPT ![CurRef(g)] = sd[g]] /\ stack' = Advance(g)
      /\ UNCHANGED <<slots, cache>>
    BY <1>0, CurRefType DEF Link
<1>2. \A h \in Goroutine : h # g => Same(h) BY <1>0, FrameFacts DEF Link, Goto, Same, Shapes
<1>3. \A r \in RType : r # CurRef(g) => Sd'[r] = Sd[r] BY <1>0, <1>1 DEF Shapes, Item
<1>4. Sd'[CurRef(g)] # NoDesc /\ Sd'[CurRef(g)] = cache[CurRef(g)]
    BY <1>0, <1>1 DEF Shapes, Item
<1>5. ASSUME NEW S \in SUBSET RType, Settled(S), NEW r \in RefsOf(S) PROVE Sd'[r] = Sd[r]
    <2>1. Len(stack[g]) \in 1..Len(stack[g]) /\ Pending(g, Len(stack[g]))
        BY <1>0, CurRefType DEF Pending
    <2>2. CurRef(g) \notin RefsOf(S) BY <1>5, <2>1 DEF Settled, CurRef, FieldsOf, Top
    <2>3. r \in RType BY TypeFacts DEF RefsOf, RefSet
    <2> QED BY <1>3, <2>2, <2>3
<1> QED BY <1>0, <1>1, <1>2, <1>3, <1>4, <1>5, AdvanceSettled

\* Going down a reference changes no link.
LEMMA FieldDescendSettled ==
    ASSUME CInv, Inv', Chains', NEW g \in Goroutine, FieldDescend(g) PROVE CInv'
<1>0. /\ Shapes /\ StackOK(g) /\ FramesOK(g) /\ pc[g] = "fields" /\ pc'[g] = "enter"
      /\ UNCHANGED <<slots, cache, Sd, stack>> /\ sd' = sd /\ arg' = arg
      /\ Sd[CurRef(g)] = NoDesc /\ Len(stack[g]) \in Nat
    BY DEF CInv, Inv, TypeOK, Shapes, FieldDescend, Goto, shared
<1>1. \A h \in Goroutine : h # g => Same(h) BY <1>0 DEF FieldDescend, Goto, Same, Shapes, shared
<1>2. FramesOK(g)' BY <1>0 DEF FramesOK
<1>3. ASSUME NEW j \in 1..Len(stack[g]), NEW S \in SUBSET RType, Settled(S)
      PROVE  Refs[StructOf(stack[g][j].key)][stack[g][j].i] \notin RefsOf(S)
    <2>1. CASE j = Len(stack[g])
        <3>1. Refs[StructOf(stack[g][j].key)][stack[g][j].i] = CurRef(g)
            BY <2>1 DEF CurRef, FieldsOf, Top
        <3> QED BY <1>0, <1>3, <3>1 DEF Settled, Complete, RefsOf
    <2>2. CASE j # Len(stack[g])
        <3>1. Pending(g, j) BY <1>0, <2>2 DEF Pending
        <3> QED BY <1>3, <3>1 DEF Settled
    <2> QED BY <2>1, <2>2
<1> QED BY <1>0, <1>1, <1>2, <1>3, Quiet

\* A frame that is done leaves a struct with all its references linked.
LEMMA FieldsDoneSettled ==
    ASSUME CInv, Inv', Chains', NEW g \in Goroutine, FieldsDone(g) PROVE CInv'
<1> DEFINE n == Len(stack[g])
<1>0. /\ Shapes /\ StackOK(g) /\ FramesOK(g) /\ CacheOK /\ stack[g] # <<>>
      /\ pc[g] = "fields" /\ pc'[g] = "return" /\ UNCHANGED <<slots, cache, Sd>>
      /\ stack'[g] = Pop(g) /\ sd'[g] = Top(g).sd /\ Top(g).i > Len(FieldsOf(g))
    BY DEF CInv, Inv, TypeOK, Shapes, LocalsOK, FieldsDone, Goto, shared
<1>1. /\ n \in Nat /\ n >= 1 /\ Len(stack'[g]) = n - 1
      /\ \A j \in 1..(n - 1) : stack'[g][j] = stack[g][j]
    <2>1. stack[g] \in Seq(Frame) BY <1>0 DEF Shapes
    <2>2. n \in Nat BY <2>1
    <2>3. n \in 1..n BY <1>0, CurRefType
    <2>4. Len(stack'[g]) = n - 1 /\ \A j \in 1..Len(stack'[g]) : stack'[g][j] = stack[g][j]
        BY <1>0, Popped
    <2> HIDE DEF n
    <2> QED BY <2>2, <2>3, <2>4
<1>2. \A h \in Goroutine : h # g => Same(h) BY <1>0 DEF FieldsDone, Goto, Same, Shapes, shared
<1>3. \A h \in Goroutine : h # g =>
         FramesOK(h)' /\ stack'[h] = <<>> /\ stack[h] = <<>> /\ pc'[h] = pc[h] /\ at'[h] = at[h]
    BY <1>0, <1>2, OthersIdle DEF Critical
<1>4. Linked(Top(g).key)
    <2>1. Top(g) = stack[g][n] /\ n \in 1..n BY <1>1 DEF Top
    <2>2. Top(g).i \in 1..(Len(FieldsOf(g)) + 1) /\ FieldsOf(g) \in Seq(RType)
        BY <1>0, CurRefType
    <2>3. 1..Len(FieldsOf(g)) \subseteq 1..(Top(g).i - 1) BY <1>0, <2>2
    <2>4. \A m \in 1..(Top(g).i - 1) : Sd[Refs[StructOf(Top(g).key)][m]] # NoDesc
        BY <1>0, <2>1 DEF FramesOK
    <2> QED BY <2>3, <2>4 DEF Linked, RefSet, FieldsOf
<1>5. CacheOK'
    <2>1. ASSUME NEW u \in Cached PROVE OnStack(u)' \/ Linked(u)
        <3>1. ASSUME NEW h \in Goroutine, NEW j \in 1..Len(stack[h]), stack[h][j].key = u
              PROVE  OnStack(u)' \/ Linked(u)
            <4>1. h = g
                <5>1. h # g => stack[h] = <<>> BY <1>3
                <5>2. Len(<<>>) = 0 /\ 1..0 = {} OBVIOUS
                <5> QED BY <5>1, <5>2
            <4>2. CASE j = n
                <5>1. u = Top(g).key BY <3>1, <4>1, <4>2 DEF Top
                <5> QED BY <1>4, <5>1
            <4>3. CASE j # n
                <5>1. j \in 1..(n - 1) BY <1>1, <4>1, <4>3
                <5>2. j \in 1..Len(stack'[g]) /\ stack'[g][j].key = u BY <1>1, <3>1, <4>1, <5>1
                <5> QED BY <5>2 DEF OnStack
            <4> QED BY <4>2, <4>3
        <3> QED BY <1>0, <3>1 DEF CacheOK, OnStack
    <2> QED BY <1>0, <2>1 DEF CacheOK, Cached, Linked
<1>6. FramesOK(g)'
    <2>1. cache[Top(g).key] = Top(g).sd /\ Top(g).sd[1] = Top(g).key /\ Top(g).sd \in Desc
          /\ Top(g).key \in RType
        BY <1>0, <1>1, CurRefType DEF FramesOK, Top
    <2>3. Valid(StructOf(Top(g).key)) BY <1>0, <1>4, <2>1, NoDescAssumption, LinkedValid DEF Cached
    <2>2. \A j \in 1..Len(stack'[g]) : j \in 1..Len(stack[g]) /\ stack'[g][j] = stack[g][j]
        BY <1>1
    <2> QED BY <1>0, <2>1, <2>2, <2>3 DEF FramesOK
<1>7. PICK S \in SUBSET RType : Settled(S) BY DEF CInv
<1>8. \A j \in 1..Len(stack'[g]) :
         Refs[StructOf(stack'[g][j].key)][stack'[g][j].i] \notin RefsOf(S)
    <2> TAKE j \in 1..Len(stack'[g])
    <2>1. j \in 1..Len(stack[g]) /\ Pending(g, j) /\ stack'[g][j] = stack[g][j]
        BY <1>1 DEF Pending
    <2> QED BY <1>7, <2>1 DEF Settled
<1>9. Settled(S)'
    <2>1. pc[g] \in Critical /\ pc'[g] # "walk" BY <1>0 DEF Critical
    <2>2. S \subseteq Cached' BY <1>0, <1>7 DEF Settled, Cached
    <2>3. \A r \in RefsOf(S) : Sd'[r] = Sd[r] BY <1>0
    <2> QED BY <1>0, <1>3, <1>7, <1>8, <2>1, <2>2, <2>3, StaysSettled
<1> QED BY <1>3, <1>5, <1>6, <1>7, <1>9 DEF CInv

\* A frame that fails takes its struct out of the cache; the struct is invalid, so no
\* link leads to it, no walk is there, and no frame below works on it again.
LEMMA FailSettled ==
    ASSUME CInv, Inv', Chains', Tame, NEW g \in Goroutine, Fail(g) PROVE CInv'
<1> DEFINE n == Len(stack[g])
           t == Top(g).key
<1>0. /\ Shapes /\ StackOK(g) /\ FramesOK(g) /\ CacheOK /\ Chain(g) /\ stack[g] # <<>>
      /\ pc[g] = "fail" /\ pc' = pc /\ UNCHANGED <<slots, Sd>> /\ arg' = arg
      /\ stack'[g] = Pop(g) /\ t \in RType /\ cache' = [cache EXCEPT ![t] = NoDesc]
      /\ stack[g] \in Seq(Frame)
    BY CurRefType DEF CInv, Inv, TypeOK, Shapes, Chains, Fail
<1>1. /\ n \in 1..n /\ n \in Nat /\ Len(stack'[g]) = n - 1 /\ t = stack[g][n].key
      /\ \A j \in 1..(n - 1) : j \in 1..n /\ j < n /\ stack'[g][j] = stack[g][j]
    <2>1. n \in 1..n /\ n \in Nat BY <1>0, Popped
    <2>2. Len(stack'[g]) = n - 1 /\ \A j \in 1..Len(stack'[g]) : stack'[g][j] = stack[g][j]
        BY <1>0, Popped
    <2>3. t = stack[g][n].key BY DEF Top
    <2> HIDE DEF n, t
    <2> QED BY <2>1, <2>2, <2>3
<1>2. \A h \in Goroutine : h # g => Same(h) BY <1>0 DEF Fail, Same, Shapes
<1>3. \A h \in Goroutine : h # g =>
         FramesOK(h)' /\ stack'[h] = <<>> /\ stack[h] = <<>> /\ pc'[h] = pc[h] /\ at'[h] = at[h]
    BY <1>0, <1>2, OthersIdle DEF Critical
<1>4. ~Valid(StructOf(t)) /\ Sd[t] = NoDesc BY <1>0, <1>1 DEF FramesOK, CacheOK
<1> HIDE DEF n, t
<1>5. \A u \in RType : cache'[u] = IF u = t THEN NoDesc ELSE cache[u] BY <1>0 DEF Shapes, Item
<1>6. \A j \in 1..(n - 1) : stack[g][j].key \in RType /\ stack[g][j].key # t
    <2> TAKE j \in 1..(n - 1)
    <2>1. stack[g][j] \in Frame BY <1>0, <1>1 DEF n
    <2>2. Reaches(stack[g][j].key, t) BY <1>0, <1>1 DEF Chain, n
    <2>3. stack[g][j].key # t BY <1>0, <1>4, <2>2 DEF Tame
    <2> QED BY <2>1, <2>3 DEF Frame
<1>7. CacheOK'
    <2>1. ASSUME NEW u \in Cached' PROVE OnStack(u)' \/ Linked(u)
        <3>0. u \in Cached /\ u # t BY <1>5, <2>1 DEF Cached
        <3>1. ASSUME NEW h \in Goroutine, NEW j \in 1..Len(stack[h]), stack[h][j].key = u
              PROVE OnStack(u)'
            <4>1. h = g
                <5>1. h # g => stack[h] = <<>> BY <1>3
                <5>2. Len(<<>>) = 0 /\ 1..0 = {} OBVIOUS
                <5> QED BY <5>1, <5>2
            <4>2. j # n BY <1>1, <3>0, <3>1, <4>1
            <4>3. j \in 1..n BY <4>1 DEF n
            <4>4. j \in 1..(n - 1) BY <1>1, <4>2, <4>3
            <4>5. j \in 1..Len(stack'[g]) /\ stack'[g][j].key = u BY <1>1, <3>1, <4>1, <4>4
            <4> QED BY <4>5 DEF OnStack
        <3> QED BY <1>0, <3>0, <3>1 DEF CacheOK, OnStack
    <2>2. Cached' \subseteq Cached BY <1>5 DEF Cached
    <2>3. \A u \in RType : Sd'[u] # NoDesc => Sd'[u] = cache'[u] /\ Valid(StructOf(u))
        BY <1>0, <1>4, <1>5 DEF CacheOK
    <2>4. \A u \in Cached' : Outcome[StructOf(u)] = "ok" BY <1>0, <2>2 DEF CacheOK
    <2> QED BY <1>0, <2>1, <2>3, <2>4 DEF CacheOK, Linked
<1>8. FramesOK(g)'
    <2>1. ASSUME NEW j \in 1..Len(stack'[g])
          PROVE  /\ cache'[stack'[g][j].key] = stack'[g][j].sd
                 /\ \A m \in 1..(stack'[g][j].i - 1) : Sd'[Refs[StructOf(stack'[g][j].key)][m]] # NoDesc
                 /\ ~Valid(StructOf(stack'[g][j].key))
        <3>1. j \in 1..(n - 1) /\ j \in 1..Len(stack[g]) BY <1>1 DEF n
        <3> QED BY <1>0, <1>1, <1>5, <1>6, <3>1 DEF FramesOK
    <2> QED BY <1>0, <2>1 DEF FramesOK
<1>9. PICK S \in SUBSET RType : Settled(S) BY DEF CInv
<1>10. S \subseteq Cached' BY <1>4, <1>5, <1>9 DEF Settled, Cached
<1>11. \A j \in 1..Len(stack'[g]) :
          Refs[StructOf(stack'[g][j].key)][stack'[g][j].i] \notin RefsOf(S)
    <2> TAKE j \in 1..Len(stack'[g])
    <2>1. j \in 1..Len(stack[g]) /\ Pending(g, j) /\ stack'[g][j] = stack[g][j]
        BY <1>1 DEF Pending, n
    <2> QED BY <1>9, <2>1 DEF Settled
<1>12. Settled(S)' BY <1>0, <1>3, <1>9, <1>10, <1>11, StaysSettled DEF Critical
<1> QED BY <1>3, <1>7, <1>8, <1>9, <1>12 DEF CInv

\* Publication: nothing is in progress, so the set of all cached types is complete.
LEMMA SetStoreSettled ==
    ASSUME CInv, Inv', Chains', NEW g \in Goroutine, SetStore(g) PROVE CInv'
<1>0. /\ Inv /\ Shapes /\ StackOK(g) /\ LocalsOK(g) /\ FramesOK(g) /\ CacheOK /\ pc[g] = "store"
      /\ pc' = [pc EXCEPT ![g] = NextSet(g)]
      /\ UNCHANGED <<cache, Sd, stack, sd, arg, at, items>> /\ sd[g] # NoDesc
      /\ sd[g][1] = Elem(arg[g]) /\ arg[g] \in RType /\ Elem(arg[g]) \in RType
    BY TypeFacts DEF CInv, Inv, TypeOK, Shapes, LocalsOK, SetStore, Goto
<1>1. \A h \in Goroutine : stack[h] = <<>>
    <2>1. stack[g] = <<>> BY <1>0 DEF StackOK, Working
    <2>2. \A h \in Goroutine : h # g => stack[h] = <<>> BY <1>0, Alone DEF Critical
    <2> QED BY <2>1, <2>2
<1>2. \A h \in Goroutine : 1..Len(stack[h]) = {} BY <1>1
<1>3. \A t \in Cached : Linked(t) BY <1>0, <1>2 DEF CacheOK, OnStack
<1>4. CacheOK' BY <1>0 DEF CacheOK, Cached, OnStack, Linked
<1>5. ASSUME NEW h \in Goroutine PROVE FramesOK(h)'
    <2>1. CASE h = g
        <3>1. pc'[g] \in {"set", "unlock"} BY <1>0 DEF NextSet, Shapes
        <3> QED BY <1>0, <1>2, <2>1, <3>1 DEF FramesOK
    <2>2. CASE h # g
        <3>1. pc'[h] = pc[h] /\ FramesOK(h) BY <1>0, <2>2 DEF CInv, Shapes
        <3> QED BY <1>0, <3>1 DEF FramesOK
    <2> QED BY <2>1, <2>2
<1>6. Settled(Cached)'
    <2>1. Complete(Cached)'
        <3> SUFFICES ASSUME NEW t \in Cached, NEW r \in RefSet(t)
                     PROVE  Sd[r] # NoDesc /\ Sd[r][1] \in Cached
            BY <1>0 DEF Complete, Cached
        <3>1. r \in RType BY TypeFacts DEF RefSet, Cached
        <3>2. Sd[r] # NoDesc BY <1>3 DEF Linked
        <3>3. Sd[r] = cache[r] /\ Sd[r][1] = r
            BY <1>0, <3>1, <3>2 DEF CacheOK, Inv, TypeOK, Filed
        <3> QED BY <3>1, <3>2, <3>3 DEF Cached
    <2>2. PICK S \in SUBSET RType : Settled(S) BY DEF CInv
    <2>3. Elem(arg[g]) \in Cached BY <1>0 DEF FramesOK, Cached
    <2>4. ASSUME NEW t \in RType, Get(t)' # NoDesc PROVE Get(t)'[1] \in Cached
        <3>1. Get(t)' = IF t = key[g] THEN sd[g] ELSE Get(t) BY <1>0, StoreBinds
        <3>2. CASE t = key[g] BY <1>0, <2>3, <3>1, <3>2
        <3>3. CASE t # key[g] BY <2>2, <2>4, <3>1, <3>3 DEF Settled, Published
        <3> QED BY <3>2, <3>3
    <2>5. ASSUME NEW h \in Goroutine, pc'[h] = "walk" PROVE at[h][1] \in Cached
        <3>1. h # g BY <1>0, <2>5 DEF NextSet, Shapes
        <3>2. pc[h] = "walk" BY <1>0, <2>5, <3>1 DEF Shapes
        <3> QED BY <2>2, <3>2 DEF Settled
    <2>6. Cached' = Cached BY <1>0 DEF Cached
    <2>7. \A t \in Cached : Valid(StructOf(t)) BY <1>0, <1>3, LinkedValid
    <2> QED BY <1>0, <1>2, <2>1, <2>4, <2>5, <2>6, <2>7 DEF Settled, Published
<1>7. \E S \in SUBSET RType : Settled(S)'
    <2>1. Cached' = Cached /\ Cached \in SUBSET RType BY <1>0 DEF Cached
    <2> HIDE DEF Cached
    <2> QED BY <1>6, <2>1
<1> QED BY <1>4, <1>5, <1>7 DEF CInv

\* Nothing is published when the package is loaded.
LEMMA InitCInv == Init => CInv
<1> SUFFICES ASSUME Init PROVE CInv OBVIOUS
<1>1. Inv BY InitInv
<1>2. \A t \in RType : cache[t] = NoDesc /\ Sd[t] = NoDesc /\ Get(t) = NoDesc
    BY TypeFacts DEF Init, Get, NoItems
<1>3. \A g \in Goroutine : stack[g] = <<>> /\ 1..Len(stack[g]) = {} /\ pc[g] = "idle"
    <2>1. Len(<<>>) = 0 /\ 1..0 = {} OBVIOUS
    <2> QED BY <2>1 DEF Init
<1>4. Cached = {} /\ Published = {} BY <1>2 DEF Cached, Published
<1>5. Settled({})
    BY <1>3, <1>4 DEF Settled, Complete, RefsOf
<1> QED BY <1>1, <1>2, <1>3, <1>4, <1>5 DEF CInv, Chains, Chain, CacheOK, FramesOK

\* In a tame program every step keeps what is published complete.
LEMMA StepCInv == Tame /\ CInv /\ [Next]_vars => CInv'
<1> SUFFICES ASSUME Tame, CInv, [Next]_vars PROVE CInv' OBVIOUS
<1>0. Inv' /\ Chains' BY StepInv, StepChains DEF CInv
<1>1. CASE Next
    <2>1. ASSUME NEW g \in Goroutine, NEW t \in RType, Call(g, t) PROVE CInv'
        BY <1>0, <2>1, QuietSteps
    <2>2. ASSUME NEW g \in Goroutine, Entry(g) PROVE CInv'
        BY <1>0, <2>2, QuietSteps DEF Entry
    <2>3. ASSUME NEW g \in Goroutine, Create(g) PROVE CInv'
        BY <1>0, <2>3, QuietSteps, RefusalSteps, EnterNewSettled, FieldLinkedSettled,
            FieldDescendSettled, FieldsDoneSettled, LinkSettled, FailSettled, SetStoreSettled
        DEF Create
    <2>4. ASSUME NEW g \in Goroutine, Follow(g) \/ Return(g) PROVE CInv'
        BY <1>0, <2>4, QuietSteps, FollowSettled
    <2> QED BY <1>1, <2>1, <2>2, <2>3, <2>4 DEF Next, Step
<1>2. CASE UNCHANGED vars
    <2>1. CacheOK' BY <1>2 DEF vars, shared, local, CInv, CacheOK, Cached, OnStack, Linked
    <2>2. \A g \in Goroutine : FramesOK(g)' BY <1>2 DEF vars, shared, local, CInv, FramesOK
    <2>3. \A S \in SUBSET RType : Settled(S) => Settled(S)'
        BY <1>2 DEF vars, shared, local, Settled, Cached, Complete, Published, Get, Pending
    <2> QED BY <1>0, <2>1, <2>2, <2>3 DEF CInv
<1> QED BY <1>1, <1>2

\* The invariant that makes publication safe in a tame program.
LEMMA Completeness == ASSUME Tame PROVE Spec => []CInv
<1>1. CInv /\ [Next]_vars => CInv' BY StepCInv
<1> QED BY <1>1, InitCInv, PTL DEF Spec

-----------------------------------------------------------------------------
\* From a published descriptor every path of references leads to a linked one, at
\* every moment of every other goroutine's prefetch (PublishedComplete).
THEOREM CompleteWhenTame == ASSUME Tame PROVE Spec => []PublishedComplete
<1>1. CInv => PublishedComplete BY DEF CInv, Settled, PublishedComplete
<1> QED BY <1>1, Completeness, PTL

\* No call ever meets a nil descriptor (NoFault).
THEOREM FaultFree == ASSUME Tame PROVE Spec => []NoFault
<1>1. CInv => NoFault BY DEF CInv, FramesOK, NoFault
<1> QED BY <1>1, Completeness, PTL

\* fetchStructDesc never writes a link that a lock-free walk may be reading
\* (NoLinkRace).
THEOREM RaceFree == ASSUME Tame PROVE Spec => []NoLinkRace
<1>1. CInv => NoLinkRace
    <2> SUFFICES ASSUME CInv, NEW g \in Goroutine, NEW h \in Goroutine,
                        pc[g] = "return", stack[g] # <<>>, pc[h] = "walk"
                 PROVE  CurRef(g) \notin RefSet(at[h][1])
        BY DEF NoLinkRace
    <2>1. PICK S \in SUBSET RType : Settled(S) BY DEF CInv
    <2>2. Len(stack[g]) \in 1..Len(stack[g]) BY CurRefType DEF CInv, Inv, TypeOK
    <2>3. CurRef(g) \notin RefsOf(S)
        BY <2>1, <2>2 DEF Settled, Pending, CurRef, FieldsOf, Top
    <2>4. at[h][1] \in S BY <2>1 DEF Settled
    <2> QED BY <2>3, <2>4 DEF RefsOf
<1> QED BY <1>1, Completeness, PTL

-----------------------------------------------------------------------------
(***************************************************************************)
(* In a tame program DescRegistry implements the write-once table          *)
(* DescTable: a call is answered when it finds its type or unlocks with a  *)
(* descriptor, and refused when it unlocks without one; an entry is bound  *)
(* when a slot is stored; no other step can be seen from outside.          *)
(***************************************************************************)
\* Only valid structs are published.
LEMMA PublishedValid ==
    ASSUME CInv, NEW t \in RType, Get(Elem(t)) # NoDesc PROVE Valid(StructOf(t))
<1>1. Elem(t) \in Published /\ Get(Elem(t))[1] = Elem(t)
    BY TypeFacts DEF Published, CInv, Inv, TypeOK, Filed
<1>2. Valid(StructOf(Elem(t))) BY <1>1 DEF CInv, Settled
<1> QED BY <1>2, ValidElem

\* What a call is answered does not depend on the calls before it, whether they
\* succeeded, failed or are still at work (AnswerByType).
THEOREM AnswersByType == ASSUME Tame PROVE Spec => []AnswerByType
<1>1. CInv => AnswerByType
    <2> SUFFICES ASSUME CInv, NEW g \in Goroutine
                 PROVE  /\ pc[g] = "walk" => Valid(StructOf(arg[g]))
                        /\ pc[g] = "unlock" /\ sd[g] = NoDesc => ~Valid(StructOf(arg[g]))
        BY DEF AnswerByType
    <2>1. arg[g] \in RType /\ LocalsOK(g) /\ FramesOK(g) BY DEF CInv, Inv, TypeOK, Shapes
    <2>2. pc[g] = "walk" => Get(Elem(arg[g])) # NoDesc BY <2>1 DEF LocalsOK
    <2> QED BY <2>1, <2>2, PublishedValid DEF FramesOK
<1> QED BY <1>1, Completeness, PTL

-----------------------------------------------------------------------------
LEMMA TableInit == Init => Table!Init
<1> SUFFICES ASSUME Init PROVE Table!Init OBVIOUS
<1>1. \A t \in RType : Get(t) = NoDesc BY TypeFacts DEF Init, Get, NoItems
<1> QED BY <1>1 DEF Init, Table!Init

\* A step that changes neither the table, nor who calls for what, nor who has a reply.
Unseen(g) ==
    /\ slots' = slots
    /\ \A h \in Goroutine : h # g => Same(h)
    /\ pc'[g] = "idle" <=> pc[g] = "idle"
    /\ pc'[g] \in {"walk", "fault"} <=> pc[g] \in {"walk", "fault"}
    /\ pc[g] # "idle" => arg'[g] = arg[g]
    /\ pc[g] \in {"walk", "fault"} => sd'[g] = sd[g]

LEMMA UnseenStutters == ASSUME NEW g \in Goroutine, Unseen(g) PROVE UNCHANGED Table!vars
<1>1. \A t \in RType : Get(t)' = Get(t) BY DEF Unseen, Get
<1>2. ASSUME NEW h \in Goroutine
      PROVE  /\ (IF pc'[h] = "idle" THEN NoOne ELSE arg'[h]) = IF pc[h] = "idle" THEN NoOne ELSE arg[h]
             /\ (IF pc'[h] \in {"walk", "fault"} THEN sd'[h] ELSE NoDesc)
                    = IF pc[h] \in {"walk", "fault"} THEN sd[h] ELSE NoDesc
    <2>1. CASE h = g BY <2>1 DEF Unseen
    <2>2. CASE h # g BY <2>2 DEF Unseen, Same
    <2> QED BY <2>1, <2>2
<1> QED BY <1>1, <1>2 DEF Table!vars

\* The steps before a reply, and those of a walk, are not seen.
LEMMA UnseenSteps ==
    ASSUME Inv, NEW g \in Goroutine,
           \/ LookupMiss(g) \/ Lock(g) \/ RecheckHit(g) \/ RecheckMiss(g)
           \/ EnterCached(g) \/ EnterNew(g) \/ EnterError(g) \/ EnterPanic(g)
           \/ FieldLinked(g) \/ FieldDescend(g) \/ FieldsDone(g)
           \/ Link(g) \/ RootReturn(g) \/ Fail(g) \/ RootFail(g)
           \/ SetCopy(g) \/ Follow(g)
    PROVE  Unseen(g)
<1>1. Shapes BY DEF Inv, TypeOK
<1>2. slots' = slots
    BY DEF shared, LookupMiss, Lock, RecheckHit, RecheckMiss, EnterCached, EnterNew, EnterError,
        EnterPanic, FieldLinked, FieldDescend, FieldsDone, Link, RootReturn, Fail, RootFail, SetCopy,
        Follow
<1>3. \A h \in Goroutine : h # g => Same(h)
    BY <1>1 DEF Shapes, Same, Goto, Advance, shared, LookupMiss, Lock, RecheckHit, RecheckMiss,
        EnterCached, EnterNew, EnterError, EnterPanic, FieldLinked, FieldDescend, FieldsDone, Link,
        RootReturn, Fail, RootFail, SetCopy, Follow
<1>4. CASE Follow(g)
    <2>1. pc[g] = "walk" /\ pc'[g] \in {"walk", "fault"} /\ arg' = arg /\ sd' = sd
        BY <1>1, <1>4 DEF Shapes, Follow
    <2> QED BY <1>2, <1>3, <2>1 DEF Unseen
<1>5. CASE ~Follow(g)
    <2>1. /\ pc[g] \notin {"idle", "walk", "fault"} /\ pc'[g] \notin {"idle", "walk", "fault"}
          /\ arg' = arg
        BY <1>1, <1>5 DEF Shapes, Goto, shared, LookupMiss, Lock, RecheckHit, RecheckMiss, EnterCached,
            EnterNew, EnterError, EnterPanic, FieldLinked, FieldDescend, FieldsDone, Link, RootReturn,
            Fail, RootFail, SetCopy
    <2> QED BY <1>2, <1>3, <2>1 DEF Unseen
<1> QED BY <1>4, <1>5

\* The step that gives a call its descriptor.
LEMMA AnswerStep ==
    ASSUME CInv, NoOne \notin RType, NEW g \in Goroutine,
           pc[g] \notin {"idle", "walk", "fault"}, pc' = [pc EXCEPT ![g] = "walk"],
           UNCHANGED <<slots, arg>>, \A h \in Goroutine : h # g => sd'[h] = sd[h],
           sd'[g] = Get(Elem(arg[g])), sd'[g] # NoDesc
    PROVE  Table!Answer(g)
<1>1. Shapes /\ arg[g] \in RType /\ Elem(arg[g]) \in RType /\ StructOf(arg[g]) \in Struct
    BY TypeFacts DEF CInv, Inv, TypeOK, Shapes
<1>2. Valid(StructOf(arg[g])) BY <1>1, PublishedValid
<1>3. \A t \in RType : Get(t)' = Get(t) BY DEF Get
<1>4. \A h \in Goroutine : pc'[h] = IF h = g THEN "walk" ELSE pc[h] BY <1>1 DEF Shapes
<1> DEFINE asked == [h \in Goroutine |-> IF pc[h] = "idle" THEN NoOne ELSE arg[h]]
           reply == [h \in Goroutine |-> IF pc[h] \in {"walk", "fault"} THEN sd[h] ELSE NoDesc]
           reply2 == [h \in Goroutine |-> IF pc'[h] \in {"walk", "fault"} THEN sd'[h] ELSE NoDesc]
<1>5. asked[g] = arg[g] /\ reply[g] = NoDesc OBVIOUS
<1>6. reply2 = [reply EXCEPT ![g] = Get(Elem(arg[g]))] BY <1>4
<1>7. [h \in Goroutine |-> IF pc'[h] = "idle" THEN NoOne ELSE arg'[h]] = asked BY <1>4
<1> QED BY <1>1, <1>2, <1>3, <1>5, <1>6, <1>7 DEF Table!Answer

\* The end of a call for which there is none.
LEMMA RefuseStep ==
    ASSUME CInv, NoOne \notin RType, NEW g \in Goroutine, Unlock(g), sd[g] = NoDesc
    PROVE  Table!Refuse(g)
<1>1. /\ Shapes /\ arg[g] \in RType /\ pc[g] = "unlock" /\ pc' = [pc EXCEPT ![g] = "idle"]
      /\ UNCHANGED <<slots, arg, sd>> /\ ~Valid(StructOf(arg[g]))
    BY DEF CInv, Inv, TypeOK, Shapes, FramesOK, Unlock, Goto
<1>2. \A t \in RType : Get(t)' = Get(t) BY <1>1 DEF Get
<1>3. \A h \in Goroutine : pc'[h] = IF h = g THEN "idle" ELSE pc[h] BY <1>1 DEF Shapes
<1>4. ASSUME NEW h \in Goroutine
      PROVE  /\ (IF pc'[h] = "idle" THEN NoOne ELSE arg'[h])
                    = IF h = g THEN NoOne ELSE IF pc[h] = "idle" THEN NoOne ELSE arg[h]
             /\ (IF pc'[h] \in {"walk", "fault"} THEN sd'[h] ELSE NoDesc)
                    = IF pc[h] \in {"walk", "fault"} THEN sd[h] ELSE NoDesc
    BY <1>1, <1>3
<1> QED BY <1>1, <1>2, <1>4 DEF Table!Refuse

LEMMA BindStep ==
    ASSUME Inv, NEW g \in Goroutine, SetStore(g) PROVE Table!Bind(key[g])
<1>1. /\ Shapes /\ LocalsOK(g) /\ pc[g] = "store" /\ key[g] \in RType /\ arg[g] \in RType
      /\ sd[g] \in Desc /\ Get(key[g]) = NoDesc /\ sd[g][1] = Elem(arg[g])
      /\ key[g] = Elem(arg[g]) \/ (key[g] = arg[g] /\ Get(Elem(arg[g])) = sd[g])
    BY DEF Inv, TypeOK, Shapes, SetStore, Goto, LocalsOK
<1>2. Elem(key[g]) = Elem(arg[g]) /\ Elem(key[g]) \in RType BY <1>1, TypeFacts
<1>3. \A t \in RType : Get(t)' = IF t = key[g] THEN sd[g] ELSE Get(t) BY StoreBinds
<1>4. ASSUME NEW h \in Goroutine
      PROVE  /\ pc'[h] = "idle" <=> pc[h] = "idle"
             /\ pc'[h] \in {"walk", "fault"} <=> pc[h] \in {"walk", "fault"}
             /\ arg'[h] = arg[h] /\ sd'[h] = sd[h]
    BY <1>1 DEF Shapes, SetStore, Goto, NextSet
<1> DEFINE T == [t \in RType |-> Get(t)]
           T2 == [t \in RType |-> Get(t)']
<1>5. T2 = [T EXCEPT ![key[g]] = T2[key[g]]] BY <1>1, <1>3
<1>6. T[key[g]] = NoDesc /\ T2[key[g]] = sd[g] /\ T[Elem(key[g])] = Get(Elem(key[g])) BY <1>1, <1>2, <1>3
<1>7. key[g] # Elem(key[g]) => sd[g] = Get(Elem(key[g])) BY <1>1, <1>2
<1> QED BY <1>1, <1>2, <1>4, <1>5, <1>6, <1>7 DEF Table!Bind

LEMMA AskStep ==
    ASSUME Inv, NEW g \in Goroutine, NEW t \in RType, Call(g, t) PROVE Table!Ask(g, t)
<1>1. Shapes /\ pc[g] = "idle" /\ pc' = [pc EXCEPT ![g] = "lookup"] /\ arg' = [arg EXCEPT ![g] = t]
      /\ UNCHANGED <<slots, sd>>
    BY DEF Inv, TypeOK, Call, Goto, shared
<1>2. \A h \in Goroutine : /\ pc'[h] = IF h = g THEN "lookup" ELSE pc[h]
                           /\ arg'[h] = IF h = g THEN t ELSE arg[h]
    BY <1>1 DEF Shapes
<1>3. \A r \in RType : Get(r)' = Get(r) BY <1>1 DEF Get
<1>4. ASSUME NEW h \in Goroutine
      PROVE  /\ (IF pc'[h] = "idle" THEN NoOne ELSE arg'[h])
                    = IF h = g THEN t ELSE IF pc[h] = "idle" THEN NoOne ELSE arg[h]
             /\ (IF pc'[h] \in {"walk", "fault"} THEN sd'[h] ELSE NoDesc)
                    = IF pc[h] \in {"walk", "fault"} THEN sd[h] ELSE NoDesc
    BY <1>1, <1>2
<1> QED BY <1>1, <1>3, <1>4 DEF Table!Ask

LEMMA FinishStep ==
    ASSUME Inv, NEW g \in Goroutine, Return(g) PROVE Table!Finish(g)
<1>1. Shapes /\ pc[g] = "walk" /\ pc' = [pc EXCEPT ![g] = "idle"] /\ sd' = [sd EXCEPT ![g] = NoDesc]
      /\ UNCHANGED <<slots, arg>> /\ sd[g] # NoDesc
    BY DEF Inv, TypeOK, Return, Goto, shared, LocalsOK
<1>2. \A h \in Goroutine : /\ pc'[h] = IF h = g THEN "idle" ELSE pc[h]
                           /\ sd'[h] = IF h = g THEN NoDesc ELSE sd[h]
    BY <1>1 DEF Shapes
<1>3. \A r \in RType : Get(r)' = Get(r) BY <1>1 DEF Get
<1> QED BY <1>1, <1>2, <1>3 DEF Table!Finish

LEMMA TableStep ==
    ASSUME NoOne \notin RType, CInv, [Next]_vars
    PROVE  [Table!Next]_Table!vars
<1> USE DEF CInv
<1>1. ASSUME NEW g \in Goroutine, NEW t \in RType, Call(g, t) PROVE Table!Next
    BY <1>1, AskStep DEF Table!Next
<1>2. ASSUME NEW g \in Goroutine, Step(g) PROVE [Table!Next]_Table!vars
    <2>0. Shapes /\ LocalsOK(g) /\ arg[g] \in RType /\ key[g] \in RType
        BY DEF Inv, TypeOK, Shapes
    <2>1. CASE LookupHit(g)
        <3>1. /\ pc[g] = "lookup" /\ pc' = [pc EXCEPT ![g] = "walk"] /\ UNCHANGED <<slots, arg>>
              /\ sd' = [sd EXCEPT ![g] = Get(arg[g])] /\ Get(arg[g]) # NoDesc
            BY <2>1 DEF LookupHit, Goto, shared
        <3>2. Get(Elem(arg[g])) = Get(arg[g]) BY <2>0, <3>1 DEF Inv, Paired, Published
        <3>3. sd'[g] = Get(Elem(arg[g])) /\ sd'[g] # NoDesc /\ \A h \in Goroutine : h # g => sd'[h] = sd[h]
            BY <2>0, <3>1, <3>2 DEF Shapes
        <3>4. Table!Answer(g) BY <3>1, <3>3, AnswerStep
        <3> QED BY <3>4 DEF Table!Next
    <2>2. CASE Unlock(g) /\ sd[g] # NoDesc
        <3>1. pc[g] = "unlock" /\ UNCHANGED <<slots, arg, sd>> /\ sd[g] # NoDesc
              /\ pc' = [pc EXCEPT ![g] = IF sd[g] = NoDesc THEN "idle" ELSE "walk"]
            BY <2>2 DEF Unlock, Goto
        <3>2. sd[g] = Get(Elem(arg[g])) /\ pc' = [pc EXCEPT ![g] = "walk"]
            BY <2>0, <3>1 DEF LocalsOK
        <3>3. sd'[g] = Get(Elem(arg[g])) /\ sd'[g] # NoDesc /\ \A h \in Goroutine : h # g => sd'[h] = sd[h]
            BY <3>1, <3>2
        <3>4. Table!Answer(g) BY <3>1, <3>2, <3>3, AnswerStep
        <3> QED BY <3>4 DEF Table!Next
    <2>3. CASE SetStore(g)
        BY <2>0, <2>3, BindStep DEF Table!Next
    <2>4. CASE Return(g)
        BY <2>4, FinishStep DEF Table!Next
    <2>5. CASE Unlock(g) /\ sd[g] = NoDesc
        BY <2>5, RefuseStep DEF Table!Next
    <2>6. CASE ~LookupHit(g) /\ ~Unlock(g) /\ ~SetStore(g) /\ ~Return(g)
        <3>1. Unseen(g) BY <1>2, <2>6, UnseenSteps DEF Step, Entry, Create
        <3> QED BY <3>1, UnseenStutters
    <2> QED BY <2>1, <2>2, <2>3, <2>4, <2>5, <2>6
<1>3. CASE UNCHANGED vars
    <2>1. \A t \in RType : Get(t)' = Get(t) BY <1>3 DEF vars, shared, Get
    <2> QED BY <1>3, <2>1 DEF vars, local, Table!vars
<1> QED BY <1>1, <1>2, <1>3 DEF Next

\* However calls race, the registry is a table whose entries are written once, a
\* struct and its pointer type with one entry, and every call gets the entry of its
\* struct, or is refused if that is not valid (ImplementsTable).
THEOREM IsTable == ASSUME Tame, NoOne \notin RType PROVE Spec => ImplementsTable
<1>1. CInv /\ [Next]_vars => [Table!Next]_Table!vars BY TableStep
<1> QED BY <1>1, TableInit, Completeness, PTL DEF Spec, ImplementsTable, Table!Spec
=============================================================================
