-------------------------- MODULE InitDefaultProofs --------------------------
(***************************************************************************)
(* User code in the middle of a prefetch.  What is proved of DescRegistry  *)
(* holds with it.  It hangs only where it asks for a type that is not      *)
(* published, and a type that calls have been given a descriptor for is    *)
(* not published only if it is a pointer that came second to its struct:   *)
(* AInv says where the binding of a pointer is until it is published or    *)
(* left out.  And it meets no nil descriptor in a tame program.            *)
(***************************************************************************)
EXTENDS InitDefault, DescRegistryProofs

\* A step of the program is a step of the registry, or one of InitDefault's own.
LEMMA StepKeeps ==
    ASSUME [NextI]_<<vars, initVars>> PROVE [Next]_vars
<1>1. ASSUME NEW g \in Goroutine, Step(g), Goes(g) PROVE Next
  BY <1>1 DEF Next
<1>2. ASSUME NEW g \in Goroutine, InitStep(g) PROVE UNCHANGED vars
  BY <1>2 DEF InitStep, InitCall, InitPlain, InitHit, InitMiss, InitFollow, InitReturn, vars
<1>3. ASSUME NEW g \in Goroutine, NEW t \in Asked, Call(g, t) PROVE Next
  BY <1>3, AskedAssumption DEF Next
<1>4. CASE UNCHANGED <<vars, initVars>>
  BY <1>4
<1> QED
  BY <1>1, <1>2, <1>3, <1>4 DEF NextI

\* All that is proved of the registry alone can be used of the whole program.
LEMMA KeepsRegistry == SpecI => Spec
<1>1. InitI => Init
  BY DEF InitI
<1> QED
  BY <1>1, StepKeeps, PTL DEF SpecI, Spec

-----------------------------------------------------------------------------
\* InitDefault runs where its goroutine prefetches, and waits only for a type that
\* was not published when it looked.
Inside(g) == init[g] # "before"

HangsForNew ==
    \A g \in Goroutine :
        /\ Inside(g) => pc[g] = "enter"
        /\ Stuck(g) => Get(want[g]) = NoDesc

InitTypes ==
    /\ init \in [Goroutine -> {"before", "lookup", "lock", "walk", "after", "fault"}]
    /\ want \in [Goroutine -> RType]

HInv == Inv /\ InitTypes /\ HangsForNew

LEMMA HInit == InitI => HInv
<1> SUFFICES ASSUME InitI PROVE HInv
  OBVIOUS
<1>1. Inv
  BY InitInv DEF InitI
<1>2. InitTypes
  BY <1>1 DEF InitI, InitTypes, Inv, TypeOK, Shapes
<1>3. HangsForNew
  BY DEF InitI, HangsForNew, Inside, Stuck
<1> QED
  BY <1>1, <1>2, <1>3 DEF HInv

\* The registry's own steps: a goroutine inside InitDefault makes none, and holds the
\* mutex, so that no other one publishes.
LEMMA GoKeeps ==
    ASSUME HInv, Inv', NEW g \in Goroutine, Step(g), Goes(g) PROVE HInv'
<1>1. /\ Step(g)
      /\ init' = [init EXCEPT ![g] = "before"]
      /\ want' = want
  BY DEF Goes
<1>2. Next
  BY <1>1 DEF Next
<1>3. InitTypes'
  BY <1>1 DEF HInv, InitTypes
<1>4. ASSUME NEW h \in Goroutine, h # g, Inside(h) PROVE pc'[h] = "enter"
  <2>1. pc'[h] = pc[h]
    BY <1>1, <1>4 DEF Step, Entry, LookupHit, LookupMiss, Create, Lock, RecheckHit, RecheckMiss,
       EnterCached, EnterNew, EnterError, EnterPanic, FieldLinked, FieldDescend, FieldsDone, Link,
       RootReturn, Fail, RootFail, SetCopy, SetStore, Unlock, Follow, Return, Goto, HInv, Inv,
       TypeOK, Shapes
  <2> QED
    BY <2>1, <1>4 DEF HInv, HangsForNew
<1>5. ASSUME NEW h \in Goroutine, h # g, Stuck(h) PROVE Get(want[h]) = NoDesc /\ slots' = slots
  <2>1. pc[h] = "enter" /\ Get(want[h]) = NoDesc
    BY <1>5 DEF HInv, HangsForNew, Stuck, Inside
  <2>2. sdsmu = h
    BY <2>1 DEF HInv, Inv, Mutex, Critical
  <2>3. ASSUME NEW k \in Goroutine, SetStore(k) PROVE FALSE
    <3>1. pc[k] = "store"
      BY <2>3 DEF SetStore, Goto
    <3>2. sdsmu = k
      BY <3>1 DEF HInv, Inv, Mutex, Critical
    <3> QED
      BY <3>1, <3>2, <2>1, <2>2
  <2> QED
    BY <2>1, <2>3, <1>2, SlotsChange
<1>6. ASSUME NEW h \in Goroutine, Inside(h)' PROVE h # g /\ Inside(h)
  BY <1>1, <1>6 DEF HInv, InitTypes, Inside
<1>7. ASSUME NEW h \in Goroutine, Stuck(h)' PROVE h # g /\ Stuck(h)
  BY <1>1, <1>7 DEF HInv, InitTypes, Stuck
<1>8. HangsForNew'
  BY <1>1, <1>4, <1>5, <1>6, <1>7 DEF HangsForNew, Get
<1> QED
  BY <1>3, <1>8 DEF HInv

\* A call is made from outside InitDefault.
LEMMA CallKeepsH ==
    ASSUME HInv, Inv', NEW g \in Goroutine, NEW t \in Asked, Call(g, t), UNCHANGED initVars
    PROVE  HInv'
<1>1. /\ pc[g] = "idle" /\ slots' = slots
      /\ \A h \in Goroutine : h # g => pc'[h] = pc[h]
      /\ init' = init /\ want' = want
  BY DEF Call, Goto, shared, initVars, HInv, Inv, TypeOK, Shapes
<1>2. InitTypes'
  BY <1>1 DEF HInv, InitTypes
<1>3. HangsForNew'
  BY <1>1 DEF HInv, HangsForNew, Inside, Stuck, Get
<1> QED
  BY <1>2, <1>3 DEF HInv

\* InitDefault starts where newStructDesc does, and hangs after a lookup in vain.
LEMMA InitStepKeeps ==
    ASSUME HInv, Inv', NEW g \in Goroutine, InitStep(g) PROVE HInv'
<1>1. pc' = pc /\ slots' = slots
  BY DEF InitStep, InitCall, InitPlain, InitHit, InitMiss, InitFollow, InitReturn, vars, local,
     shared
<1>2. InitTypes /\ HangsForNew
  BY DEF HInv
<1>3. CASE InitCall(g)
  <2>1. PICK t \in InitCalls[StructOf(key[g])] : want' = [want EXCEPT ![g] = t]
    BY <1>3 DEF InitCall
  <2>2. key[g] \in RType
    BY DEF HInv, Inv, TypeOK, Shapes
  <2>3. t \in RType
    BY <2>1, <2>2, TypeFacts, InitCallsAssumption
  <2>4. pc[g] = "enter" /\ init' = [init EXCEPT ![g] = "lookup"]
    BY <1>3 DEF InitCall, InitGoto, Initialises
  <2>5. InitTypes' /\ HangsForNew'
    BY <1>1, <1>2, <2>1, <2>3, <2>4 DEF InitTypes, HangsForNew, Inside, Stuck, Get
  <2> QED
    BY <2>5 DEF HInv
<1>4. CASE InitPlain(g)
  <2>1. pc[g] = "enter" /\ init' = [init EXCEPT ![g] = "after"] /\ want' = want
    BY <1>4 DEF InitPlain, InitGoto, Initialises
  <2>2. InitTypes' /\ HangsForNew'
    BY <1>1, <1>2, <2>1 DEF InitTypes, HangsForNew, Inside, Stuck, Get
  <2> QED
    BY <2>2 DEF HInv
<1>5. CASE InitMiss(g)
  <2>1. /\ init[g] = "lookup" /\ init' = [init EXCEPT ![g] = "lock"] /\ want' = want
        /\ Get(want[g]) = NoDesc
    BY <1>5 DEF InitMiss, InitGoto
  <2>2. InitTypes' /\ HangsForNew'
    BY <1>1, <1>2, <2>1 DEF InitTypes, HangsForNew, Inside, Stuck, Get
  <2> QED
    BY <2>2 DEF HInv
<1>6. CASE InitHit(g) \/ InitFollow(g) \/ InitReturn(g)
  <2>1. /\ init[g] \in {"lookup", "walk"} /\ want' = want
        /\ \/ init' = init
           \/ \E x \in {"walk", "after", "fault"} : init' = [init EXCEPT ![g] = x]
    BY <1>6 DEF InitHit, InitFollow, InitReturn, InitGoto
  <2>2. InitTypes' /\ HangsForNew'
    BY <1>1, <1>2, <2>1 DEF InitTypes, HangsForNew, Inside, Stuck, Get
  <2> QED
    BY <2>2 DEF HInv
<1> QED
  BY <1>3, <1>4, <1>5, <1>6 DEF InitStep

LEMMA HStep == HInv /\ [NextI]_<<vars, initVars>> => HInv'
<1> SUFFICES ASSUME HInv, [NextI]_<<vars, initVars>> PROVE HInv'
  OBVIOUS
<1>1. Inv'
  BY StepKeeps, StepInv DEF HInv
<1>2. CASE UNCHANGED <<vars, initVars>>
  BY <1>1, <1>2 DEF HInv, InitTypes, HangsForNew, Inside, Stuck, Get, vars, shared, local, initVars
<1>3. CASE NextI
  BY <1>1, <1>3, GoKeeps, CallKeepsH, InitStepKeeps DEF NextI
<1> QED
  BY <1>2, <1>3

-----------------------------------------------------------------------------
\* The pointer type t is about to be bound, or its struct about to be answered by the
\* goroutine that has bound it.
Binding(g, t) ==
    \/ pc[g] \in {"set", "store"} /\ arg[g] = t
    \/ pc[g] = "unlock" /\ sd[g] # NoDesc /\ arg[g] = Elem(t)

\* The type can be looked up, or calls have been answered with its struct.
Known(t) == Get(t) # NoDesc \/ Elem(t) \in answered

\* A type that was answered has a published struct; and one with a published struct is
\* known, or soon will be.
AInv ==
    /\ answered \subseteq RType
    /\ \A t \in answered : Get(Elem(t)) # NoDesc /\ Known(t)
    /\ \A t \in RType : Get(Elem(t)) # NoDesc => Known(t) \/ \E g \in Goroutine : Binding(g, t)
    /\ \A g \in Goroutine : pc[g] = "walk" => arg[g] \in answered

LEMMA AInit == InitI => AInv
<1> SUFFICES ASSUME InitI PROVE AInv
  OBVIOUS
<1>1. \A t \in RType : Get(Elem(t)) = NoDesc
  BY TypeFacts DEF InitI, Init, Get, NoItems
<1> QED
  BY <1>1 DEF InitI, Init, AInv

\* The goroutine behind the mutex is the only one that binds.
LEMMA OneBinds ==
    ASSUME Inv, NEW g \in Goroutine, NEW h \in Goroutine, NEW t \in RType,
           Binding(g, t), pc[h] \in Critical
    PROVE  g = h
BY DEF Inv, Mutex, Critical, Binding

\* A binding in progress is of no concern to the other goroutines.
LEMMA BindingStays ==
    ASSUME NEW g \in Goroutine, NEW t \in RType, Same(g) PROVE Binding(g, t)' <=> Binding(g, t)
BY DEF Binding, Same

\* One goroutine moves, to where it walks or not.
LEMMA OthersSame ==
    ASSUME Inv, NEW g \in Goroutine, Step(g), NEW h \in Goroutine, h # g PROVE Same(h)
BY DEF Step, Entry, LookupHit, LookupMiss, Create, Lock, RecheckHit, RecheckMiss, EnterCached,
   EnterNew, EnterError, EnterPanic, FieldLinked, FieldDescend, FieldsDone, Link, RootReturn,
   Fail, RootFail, SetCopy, SetStore, Unlock, Follow, Return, Goto, Advance, Inv, TypeOK, Shapes,
   Same, shared

\* A step that publishes nothing keeps what is known of each type, if no binding is lost.
LEMMA QuietKeepsA ==
    ASSUME Inv, Inv', AInv, slots' = slots, answered' = answered,
           \A t \in RType : \A g \in Goroutine : Binding(g, t) => Binding(g, t)',
           \A g \in Goroutine : pc'[g] = "walk" => pc[g] = "walk" /\ arg'[g] = arg[g]
    PROVE  AInv'
<1>1. \A t \in RType : Get(t)' = Get(t) /\ (Known(t)' <=> Known(t))
  BY DEF Get, Known
<1>2. answered \subseteq RType /\ \A t \in RType : Elem(t) \in RType
  BY TypeFacts DEF AInv
<1>3. \A t \in RType : Get(Elem(t))' = Get(Elem(t))
  BY <1>1, <1>2
<1>4. \A t \in answered' : Get(Elem(t))' # NoDesc /\ Known(t)'
  BY <1>1, <1>2, <1>3 DEF AInv
<1>5. \A t \in RType : Get(Elem(t))' # NoDesc => Known(t)' \/ \E g \in Goroutine : Binding(g, t)'
  <2> SUFFICES ASSUME NEW t \in RType, Get(Elem(t))' # NoDesc
               PROVE  Known(t)' \/ \E g \in Goroutine : Binding(g, t)'
    OBVIOUS
  <2>1. Known(t) \/ \E g \in Goroutine : Binding(g, t)
    BY <1>3 DEF AInv
  <2> QED
    BY <2>1, <1>1
<1> QED
  BY <1>2, <1>4, <1>5 DEF AInv

\* A call is answered with the descriptor of its struct.
LEMMA AnswerKeepsA ==
    ASSUME Inv, Inv', AInv, slots' = slots, NEW g \in Goroutine, arg' = arg,
           answered' = answered \cup {arg[g]},
           Get(Elem(arg[g])) # NoDesc, Known(arg[g])',
           \A t \in RType : \A h \in Goroutine :
               Binding(h, t) => Binding(h, t)' \/ arg[g] = Elem(t),
           \A h \in Goroutine : pc'[h] = "walk" => h = g \/ pc[h] = "walk"
    PROVE  AInv'
<1>1. \A t \in RType : Get(t)' = Get(t) /\ (Known(t) => Known(t)')
  BY DEF Get, Known
<1>2. answered' \subseteq RType /\ \A t \in RType : Elem(t) \in RType
  BY TypeFacts DEF AInv, Inv, TypeOK, Shapes
<1>3. \A t \in RType : Get(Elem(t))' = Get(Elem(t))
  BY <1>1, <1>2
<1>4. \A t \in answered' : Get(Elem(t))' # NoDesc /\ Known(t)'
  BY <1>1, <1>2, <1>3 DEF AInv
<1>5. \A t \in RType : Get(Elem(t))' # NoDesc => Known(t)' \/ \E h \in Goroutine : Binding(h, t)'
  <2> SUFFICES ASSUME NEW t \in RType, Get(Elem(t))' # NoDesc
               PROVE  Known(t)' \/ \E h \in Goroutine : Binding(h, t)'
    OBVIOUS
  <2>1. Known(t) \/ \E h \in Goroutine : Binding(h, t)
    BY <1>3 DEF AInv
  <2>2. arg[g] = Elem(t) => Known(t)'
    BY DEF Known
  <2> QED
    BY <2>1, <2>2, <1>1
<1>6. \A h \in Goroutine : pc'[h] = "walk" => arg'[h] \in answered'
  BY DEF AInv
<1> QED
  BY <1>2, <1>4, <1>5, <1>6 DEF AInv

\* The lookup without the lock answers with what is published for the very type, the
\* one under the mutex with what is published for its struct (desc.go:33, 59-71).
LEMMA AnswersKnown ==
    ASSUME Inv, Inv', AInv, NEW g \in Goroutine, LookupHit(g) \/ Unlock(g), Goes(g) PROVE AInv'
<1>1. /\ slots' = slots /\ arg' = arg /\ arg[g] \in RType
      /\ \A h \in Goroutine : h # g => Same(h)
  BY OthersSame DEF LookupHit, Unlock, shared, Step, Entry, Create, Inv, TypeOK, Shapes
<1>2. \A h \in Goroutine : pc'[h] = "walk" => h = g \/ pc[h] = "walk"
  BY <1>1 DEF Same
<1>3. \A t \in RType : \A h \in Goroutine \ {g} : Binding(h, t) => Binding(h, t)'
  BY <1>1, BindingStays
<1>4. CASE LookupHit(g)
  <2>1. pc[g] = "lookup" /\ pc'[g] = "walk" /\ Get(arg[g]) # NoDesc
    BY <1>4 DEF LookupHit, Goto, Inv, TypeOK, Shapes
  <2>2. Get(Elem(arg[g])) # NoDesc
    BY <1>1, <2>1 DEF Inv, Paired, Published
  <2>3. answered' = answered \cup {arg[g]} /\ Known(arg[g])'
    BY <1>1, <2>1 DEF Goes, Known, Get
  <2>4. \A t \in RType : ~Binding(g, t)
    BY <2>1 DEF Binding
  <2> QED
    BY <1>1, <1>2, <1>3, <2>2, <2>3, <2>4, AnswerKeepsA
<1>5. CASE Unlock(g) /\ sd[g] = NoDesc
  <2>1. pc[g] = "unlock" /\ pc'[g] = "idle"
    BY <1>5 DEF Unlock, Goto, Inv, TypeOK, Shapes
  <2>2. answered' = answered
    BY <2>1 DEF Goes
  <2>3. \A t \in RType : ~Binding(g, t)
    BY <1>5, <2>1 DEF Binding
  <2> QED
    BY <1>1, <1>2, <1>3, <2>1, <2>2, <2>3, QuietKeepsA
<1>6. CASE Unlock(g) /\ sd[g] # NoDesc
  <2>1. pc[g] = "unlock" /\ pc'[g] = "walk"
    BY <1>6 DEF Unlock, Goto, Inv, TypeOK, Shapes
  <2>2. Get(Elem(arg[g])) # NoDesc
    BY <1>6, <2>1 DEF Inv, LocalsOK
  <2>3. answered' = answered \cup {arg[g]}
    BY <2>1 DEF Goes
  <2>4. \A h \in Goroutine : Binding(h, arg[g]) => h = g
    BY <1>1, <2>1, OneBinds DEF Critical
  <2>5. Known(arg[g]) \/ Binding(g, arg[g])
    BY <1>1, <2>2, <2>4 DEF AInv
  <2>6. Known(arg[g])'
    BY <1>1, <2>1, <2>3, <2>5 DEF Known, Get, Binding
  <2>7. \A t \in RType : Binding(g, t) => arg[g] = Elem(t)
    BY <2>1 DEF Binding
  <2> QED
    BY <1>1, <1>2, <1>3, <2>2, <2>3, <2>6, <2>7, AnswerKeepsA
<1> QED
  BY <1>4, <1>5, <1>6

\* Set binds the struct, then the pointer if the argument is one (desc.go:68-71).
LEMMA StoresKnown ==
    ASSUME Inv, Inv', AInv, NEW g \in Goroutine, SetStore(g), Goes(g) PROVE AInv'
<1>1. /\ pc[g] = "store" /\ pc'[g] = NextSet(g) /\ arg' = arg /\ sd' = sd
      /\ arg[g] \in RType /\ key[g] \in RType
      /\ \A h \in Goroutine : h # g => Same(h)
  BY OthersSame DEF SetStore, Goto, Step, Create, Inv, TypeOK, Shapes
<1>2. answered' = answered
  BY <1>1 DEF Goes, NextSet
<1>3. /\ sd[g] # NoDesc
      /\ key[g] = Elem(arg[g]) \/ key[g] = arg[g]
      /\ \A t \in RType : Get(t)' = IF t = key[g] THEN sd[g] ELSE Get(t)
  BY <1>1, StoreBinds DEF Inv, LocalsOK
<1>4. \A t \in RType : Get(t) # NoDesc => Get(t)' # NoDesc
  BY <1>3
<1>5. \A t \in RType : Known(t) => Known(t)'
  BY <1>2, <1>4 DEF Known
<1>6. answered \subseteq RType /\ \A t \in RType : Elem(t) \in RType /\ Elem(Elem(t)) = Elem(t)
  BY TypeFacts DEF AInv
<1>7. \A t \in answered' : Get(Elem(t))' # NoDesc /\ Known(t)'
  BY <1>2, <1>4, <1>5, <1>6 DEF AInv
<1>8. ASSUME NEW t \in RType, Get(Elem(t))' # NoDesc
      PROVE  Known(t)' \/ \E h \in Goroutine : Binding(h, t)'
  <2>1. CASE Elem(t) = key[g]
    <3>1. CASE t = arg[g]
      <4>1. CASE key[g] = arg[g]
        BY <1>3, <3>1, <4>1 DEF Known
      <4>2. CASE key[g] # arg[g]
        <5>1. Binding(g, t)'
          BY <1>1, <3>1, <4>2 DEF NextSet, Binding
        <5> QED
          BY <5>1
      <4> QED
        BY <4>1, <4>2
    <3>2. CASE t # arg[g]
      <4>1. CASE key[g] = arg[g]
        <5>1. Binding(g, t)'
          BY <1>1, <1>3, <2>1, <4>1 DEF NextSet, Binding
        <5> QED
          BY <5>1
      <4>2. CASE key[g] # arg[g]
        <5>1. arg[g] # Elem(arg[g]) /\ Elem(t) = Elem(arg[g])
          BY <1>3, <2>1, <4>2
        <5>2. t = Elem(t)
          BY <1>1, <3>2, <5>1 DEF Elem, RType
        <5> QED
          BY <5>2, <1>3, <2>1 DEF Known
      <4> QED
        BY <4>1, <4>2
    <3> QED
      BY <3>1, <3>2
  <2>2. CASE Elem(t) # key[g]
    <3>1. Get(Elem(t)) # NoDesc
      BY <1>3, <1>6, <1>8, <2>2
    <3>2. Known(t) \/ \E h \in Goroutine : Binding(h, t)
      BY <3>1 DEF AInv
    <3>3. ASSUME NEW h \in Goroutine, Binding(h, t) PROVE Known(t)'
      <4>1. h = g
        BY <3>3, <1>1, OneBinds DEF Critical
      <4>2. arg[g] = t
        BY <3>3, <4>1, <1>1 DEF Binding
      <4>3. key[g] = t
        BY <4>2, <1>3, <2>2
      <4> QED
        BY <4>3, <1>3 DEF Known
    <3> QED
      BY <3>2, <3>3, <1>5
  <2> QED
    BY <2>1, <2>2
<1>9. \A h \in Goroutine : pc'[h] = "walk" => arg'[h] \in answered'
  <2>1. pc'[g] # "walk"
    BY <1>1 DEF NextSet
  <2> QED
    BY <2>1, <1>1, <1>2 DEF AInv, Same
<1> QED
  BY <1>2, <1>6, <1>7, <1>8, <1>9 DEF AInv

\* All other steps of the registry publish nothing and answer nothing.
LEMMA OtherStepsKnown ==
    ASSUME Inv, Inv', AInv, NEW g \in Goroutine, Step(g), Goes(g),
           ~LookupHit(g), ~Unlock(g), ~SetStore(g)
    PROVE  AInv'
<1>1. \A h \in Goroutine : h # g => Same(h)
  BY OthersSame
<1>2. /\ slots' = slots /\ arg'[g] = arg[g] /\ arg[g] \in RType
      /\ pc'[g] = "walk" => pc[g] = "walk"
      /\ pc[g] = "set" => pc'[g] = "store"
      /\ pc[g] \notin {"store", "unlock"}
  BY DEF Step, Entry, LookupMiss, Create, Lock, RecheckHit, RecheckMiss, EnterCached,
     EnterNew, EnterError, EnterPanic, FieldLinked, FieldDescend, FieldsDone, Link, RootReturn,
     Fail, RootFail, SetCopy, Follow, Return, Goto, Inv, TypeOK, Shapes, shared
<1>3. answered' = answered
  <2>1. CASE pc'[g] = "walk"
    BY <2>1, <1>2 DEF Goes, AInv
  <2>2. CASE pc'[g] # "walk"
    BY <2>2 DEF Goes
  <2> QED
    BY <2>1, <2>2
<1>4. \A t \in RType : Binding(g, t) => Binding(g, t)'
  BY <1>2 DEF Binding
<1>5. \A t \in RType : \A h \in Goroutine : Binding(h, t) => Binding(h, t)'
  BY <1>1, <1>4, BindingStays
<1>6. \A h \in Goroutine : pc'[h] = "walk" => pc[h] = "walk" /\ arg'[h] = arg[h]
  BY <1>1, <1>2 DEF Same
<1> QED
  BY <1>2, <1>3, <1>5, <1>6, QuietKeepsA

\* A call starts from where its goroutine neither binds nor walks.
LEMMA CallKnown ==
    ASSUME Inv, Inv', AInv, NEW g \in Goroutine, NEW t \in Asked, Call(g, t), UNCHANGED initVars
    PROVE  AInv'
<1>1. /\ pc[g] = "idle" /\ pc'[g] = "lookup" /\ slots' = slots /\ answered' = answered
      /\ \A h \in Goroutine : h # g => Same(h)
  BY DEF Call, Goto, shared, initVars, Same, Inv, TypeOK, Shapes
<1>2. \A u \in RType : \A h \in Goroutine : Binding(h, u) => Binding(h, u)'
  <2>1. \A u \in RType : ~Binding(g, u)
    BY <1>1 DEF Binding
  <2> QED
    BY <2>1, <1>1, BindingStays
<1>3. \A h \in Goroutine : pc'[h] = "walk" => pc[h] = "walk" /\ arg'[h] = arg[h]
  BY <1>1 DEF Same
<1> QED
  BY <1>1, <1>2, <1>3, QuietKeepsA

LEMMA AStep ==
    ASSUME HInv, HInv', AInv, [NextI]_<<vars, initVars>> PROVE AInv'
<1>1. Inv /\ Inv'
  BY DEF HInv
<1>2. ASSUME UNCHANGED vars, answered' = answered PROVE AInv'
  <2>1. slots' = slots /\ pc' = pc /\ arg' = arg /\ sd' = sd
    BY <1>2 DEF vars, shared, local
  <2>2. \A t \in RType : \A g \in Goroutine : Binding(g, t) => Binding(g, t)'
    BY <2>1 DEF Binding
  <2> QED
    BY <1>1, <1>2, <2>1, <2>2, QuietKeepsA
<1>3. ASSUME NEW g \in Goroutine, Step(g), Goes(g) PROVE AInv'
  BY <1>1, <1>3, AnswersKnown, StoresKnown, OtherStepsKnown
<1>4. ASSUME NEW g \in Goroutine, InitStep(g) PROVE AInv'
  <2>1. UNCHANGED vars /\ answered' = answered
    BY <1>4 DEF InitStep, InitCall, InitPlain, InitHit, InitMiss, InitFollow, InitReturn
  <2> QED
    BY <2>1, <1>2
<1>5. CASE UNCHANGED <<vars, initVars>>
  BY <1>2, <1>5 DEF initVars
<1> QED
  BY <1>1, <1>3, <1>4, <1>5, CallKnown DEF NextI

\* With any goroutines, types and user code, an InitDefault hangs on a type that calls
\* have been answered for only if it is a pointer type whose struct was answered too,
\* and so may have been bound first (NoHangOnceUsed; desc.go:59-71, resolver.go:160).
THEOREM HangsOnlyForUnused == SpecI => []NoHangOnceUsed
<1>1. HInv /\ AInv => NoHangOnceUsed
  <2> SUFFICES ASSUME HInv, AInv, NEW g \in Goroutine, Stuck(g), want[g] \in answered
               PROVE  want[g] # Elem(want[g]) /\ Elem(want[g]) \in answered
    BY DEF NoHangOnceUsed
  <2>1. Get(want[g]) = NoDesc
    BY DEF HInv, HangsForNew
  <2>2. Get(Elem(want[g])) # NoDesc /\ Known(want[g])
    BY DEF AInv
  <2> QED
    BY <2>1, <2>2 DEF Known
<1>2. HInv /\ AInv /\ [NextI]_<<vars, initVars>> => AInv' /\ HInv'
  BY HStep, AStep
<1> QED
  BY <1>1, <1>2, HInit, AInit, PTL DEF SpecI
\* Bindings are written once with user code running under the mutex too (descmap.go).
THEOREM WriteOnceWithUserCode == SpecI => BindOnce
BY KeepsRegistry, WriteOnce

-----------------------------------------------------------------------------
\* Where the walk of InitDefault can be: in every set that holds what is published
\* and is closed under links.
Closed(S) ==
    /\ \A t \in Published : Get(t)[1] \in S
    /\ \A t \in S : \A r \in RefSet(t) : Sd[r] # NoDesc => Sd[r][1] \in S

Walkable == {t \in RType : \A S \in SUBSET RType : Closed(S) => t \in S}

SafeAt(g) ==
    /\ init[g] # "fault"
    /\ init[g] = "walk" => in[g] \in Desc /\ in[g][1] \in Walkable

Safe == \A g \in Goroutine : SafeAt(g)

InTypes == in \in [Goroutine -> Desc \cup {NoDesc}]

NInv == HInv /\ InTypes /\ Safe

\* Nothing is linked or published while a goroutine is in InitDefault.
LEMMA Frozen ==
    ASSUME HInv, [Next]_vars, NEW h \in Goroutine, Inside(h), pc'[h] = "enter"
    PROVE  slots' = slots /\ Sd' = Sd
<1>1. sdsmu = h /\ pc[h] = "enter"
  BY DEF HInv, HangsForNew, Inv, Mutex, Critical
<1>2. ASSUME NEW k \in Goroutine, pc[k] \in {"store", "return"} PROVE FALSE
  BY <1>1, <1>2 DEF HInv, Inv, Mutex, Critical
<1>3. ASSUME NEW k \in Goroutine, Step(k) PROVE slots' = slots /\ Sd' = Sd
  BY <1>2, <1>3 DEF Step, Entry, LookupHit, LookupMiss, Create, Lock, RecheckHit, RecheckMiss,
     EnterCached, EnterNew, EnterError, EnterPanic, FieldLinked, FieldDescend, FieldsDone, Link,
     RootReturn, Fail, RootFail, SetCopy, SetStore, Unlock, Follow, Return, Goto, shared
<1> QED
  BY <1>3 DEF Next, Call, vars, shared

\* Where the walk can be depends on what is published and linked, and on nothing else.
LEMMA WalkableKept ==
    ASSUME slots' = slots, Sd' = Sd PROVE Walkable' = Walkable
BY DEF Walkable, Closed, Published, Get

\* The walk starts at a published descriptor.
LEMMA WalkStarts ==
    ASSUME Inv, PublishedComplete, NEW t \in RType, Get(t) # NoDesc
    PROVE  Get(t) \in Desc /\ Get(t)[1] \in Walkable
<1>1. Get(t) \in Desc
  BY TypeFacts DEF Inv, TypeOK, Shapes, Get, Item
<1>2. Get(t)[1] \in RType
  BY <1>1 DEF Desc
<1>3. \A S \in SUBSET RType : Closed(S) => Get(t)[1] \in S
  BY DEF Closed, Published
<1> QED
  BY <1>1, <1>2, <1>3 DEF Walkable

\* It goes on to where it can be, and the published table being complete, meets no
\* nil link.
LEMMA WalkGoesOn ==
    ASSUME PublishedComplete, Inv, NEW t \in Walkable, NEW r \in RefSet(t)
    PROVE  Sd[r] \in Desc /\ Sd[r] # NoDesc /\ Sd[r][1] \in Walkable
<1>1. PICK S \in SUBSET RType : Complete(S) /\ \A u \in Published : Get(u)[1] \in S
  BY DEF PublishedComplete
<1>2. Closed(S)
  BY <1>1 DEF Complete, Closed
<1>3. t \in S /\ t \in RType
  BY <1>2 DEF Walkable
<1>4. Sd[r] # NoDesc
  BY <1>1, <1>3 DEF Complete
<1>5. r \in RType
  BY <1>3, TypeFacts DEF RefSet
<1>6. Sd[r] \in Desc
  BY <1>4, <1>5 DEF Inv, TypeOK, Shapes, Item
<1>7. Sd[r][1] \in RType
  BY <1>6 DEF Desc
<1>8. \A T \in SUBSET RType : Closed(T) => Sd[r][1] \in T
  BY <1>4 DEF Walkable, Closed
<1> QED
  BY <1>4, <1>6, <1>7, <1>8 DEF Walkable

LEMMA NInit == InitI => NInv
<1> SUFFICES ASSUME InitI PROVE NInv
  OBVIOUS
<1>1. HInv
  BY HInit
<1>2. in = sd /\ init = [g \in Goroutine |-> "before"]
  BY DEF InitI
<1>3. InTypes
  BY <1>1, <1>2 DEF HInv, Inv, TypeOK, Shapes, InTypes
<1>4. Safe
  BY <1>2 DEF Safe, SafeAt
<1> QED
  BY <1>1, <1>3, <1>4 DEF NInv

\* A goroutine that is in InitDefault and does not move finds all as it was.
LEMMA OthersStay ==
    ASSUME HInv, HInv', [Next]_vars, NEW h \in Goroutine, SafeAt(h),
           init'[h] = init[h], in'[h] = in[h]
    PROVE  SafeAt(h)'
<1>1. CASE init[h] # "walk"
  BY <1>1 DEF SafeAt
<1>2. CASE init[h] = "walk"
  <2>1. Inside(h) /\ pc'[h] = "enter"
    BY <1>2 DEF HInv, HangsForNew, Inside
  <2>2. slots' = slots /\ Sd' = Sd
    BY <2>1, Frozen
  <2>3. Walkable' = Walkable
    BY <2>2, WalkableKept
  <2> QED
    BY <1>2, <2>3 DEF SafeAt
<1> QED
  BY <1>1, <1>2

\* One goroutine moves, and is safe after that: so are all.
LEMMA OneInits ==
    ASSUME NInv, HInv', [Next]_vars, NEW g \in Goroutine, SafeAt(g)',
           \A h \in Goroutine \ {g} : init'[h] = init[h] /\ in'[h] = in[h]
    PROVE  Safe'
<1>1. ASSUME NEW h \in Goroutine, h # g PROVE SafeAt(h)'
  BY <1>1, OthersStay DEF NInv, Safe
<1> QED
  BY <1>1 DEF Safe, SafeAt

LEMMA InitStepSafe ==
    ASSUME NInv, HInv', PublishedComplete, NEW g \in Goroutine, InitStep(g)
    PROVE  NInv'
<1>1. UNCHANGED vars
  BY DEF InitStep, InitCall, InitPlain, InitHit, InitMiss, InitFollow, InitReturn
<1>2. slots' = slots /\ Sd' = Sd /\ [Next]_vars
  BY <1>1 DEF vars, shared
<1>3. Walkable' = Walkable
  BY <1>2, WalkableKept
<1>4. /\ HInv /\ Inv /\ InTypes /\ SafeAt(g)
      /\ init \in [Goroutine -> {"before", "lookup", "lock", "walk", "after", "fault"}]
      /\ want[g] \in RType
  BY DEF NInv, HInv, Safe, InitTypes
<1>5. CASE InitCall(g) \/ InitPlain(g) \/ InitMiss(g)
  <2>1. in' = in /\ \E x \in {"lookup", "lock", "after"} : init' = [init EXCEPT ![g] = x]
    BY <1>5 DEF InitCall, InitPlain, InitMiss, InitGoto
  <2>2. InTypes' /\ SafeAt(g)'
    BY <2>1, <1>4 DEF SafeAt, InTypes
  <2>3. \A h \in Goroutine \ {g} : init'[h] = init[h] /\ in'[h] = in[h]
    BY <2>1, <1>4
  <2> QED
    BY <2>2, <2>3, <1>2, OneInits DEF NInv, SafeAt
<1>6. CASE InitHit(g)
  <2>1. /\ in' = [in EXCEPT ![g] = Get(want[g])] /\ init' = [init EXCEPT ![g] = "walk"]
        /\ Get(want[g]) # NoDesc
    BY <1>6 DEF InitHit, InitGoto
  <2>2. Get(want[g]) \in Desc /\ Get(want[g])[1] \in Walkable
    BY <2>1, <1>4, WalkStarts
  <2>3. init'[g] = "walk" /\ in'[g] = Get(want[g])
    BY <2>1, <1>4 DEF InTypes
  <2>4. SafeAt(g)'
    BY <2>2, <2>3, <1>3 DEF SafeAt
  <2>5. InTypes' /\ \A h \in Goroutine \ {g} : init'[h] = init[h] /\ in'[h] = in[h]
    BY <2>1, <2>2, <1>4 DEF InTypes
  <2> QED
    BY <2>4, <2>5, <1>2, OneInits DEF NInv, SafeAt
<1>7. CASE InitFollow(g)
  <2>1. init[g] = "walk" /\ in[g][1] \in Walkable
    BY <1>7, <1>4 DEF InitFollow, SafeAt
  <2>2. PICK t \in RefSet(in[g][1]) :
            IF Sd[t] = NoDesc
            THEN init' = [init EXCEPT ![g] = "fault"] /\ UNCHANGED in
            ELSE in' = [in EXCEPT ![g] = Sd[t]] /\ UNCHANGED init
    BY <1>7 DEF InitFollow
  <2>3. Sd[t] \in Desc /\ Sd[t] # NoDesc /\ Sd[t][1] \in Walkable
    BY <2>1, <1>4, WalkGoesOn
  <2>4. in' = [in EXCEPT ![g] = Sd[t]] /\ init' = init
    BY <2>2, <2>3
  <2>5. SafeAt(g)'
    BY <2>1, <2>3, <2>4, <1>3, <1>4 DEF SafeAt, InTypes
  <2>6. InTypes' /\ \A h \in Goroutine \ {g} : init'[h] = init[h] /\ in'[h] = in[h]
    BY <2>3, <2>4, <1>4 DEF InTypes
  <2> QED
    BY <2>5, <2>6, <1>2, OneInits DEF NInv, SafeAt
<1>8. CASE InitReturn(g)
  <2>1. in' = [in EXCEPT ![g] = NoDesc] /\ init' = [init EXCEPT ![g] = "after"]
    BY <1>8 DEF InitReturn, InitGoto
  <2>2. InTypes' /\ SafeAt(g)'
    BY <2>1, <1>4 DEF SafeAt, InTypes
  <2>3. \A h \in Goroutine \ {g} : init'[h] = init[h] /\ in'[h] = in[h]
    BY <2>1, <1>4 DEF InTypes
  <2> QED
    BY <2>2, <2>3, <1>2, OneInits DEF NInv, SafeAt
<1> QED
  BY <1>5, <1>6, <1>7, <1>8 DEF InitStep

LEMMA NStep ==
    ASSUME NInv, HInv', PublishedComplete, [NextI]_<<vars, initVars>> PROVE NInv'
<1>1. [Next]_vars
  BY StepKeeps
<1>2. InTypes /\ HInv /\ Safe
      /\ init \in [Goroutine -> {"before", "lookup", "lock", "walk", "after", "fault"}]
  BY DEF NInv, HInv, InitTypes
<1>3. ASSUME NEW g \in Goroutine, Step(g), Goes(g) PROVE NInv'
  <2>1. in' = in /\ init' = [init EXCEPT ![g] = "before"]
    BY <1>3 DEF Goes
  <2>2. InTypes' /\ SafeAt(g)'
    BY <2>1, <1>2 DEF SafeAt, InTypes
  <2>3. \A h \in Goroutine \ {g} : init'[h] = init[h] /\ in'[h] = in[h]
    BY <2>1, <1>2
  <2> QED
    BY <2>2, <2>3, <1>1, OneInits DEF NInv, SafeAt
<1>4. ASSUME UNCHANGED initVars PROVE NInv'
  <2>1. in' = in /\ init' = init
    BY <1>4 DEF initVars
  <2>2. ASSUME NEW h \in Goroutine PROVE SafeAt(h)'
    BY <2>1, <1>1, <1>2, OthersStay DEF Safe
  <2>3. InTypes' /\ Safe'
    BY <2>1, <2>2, <1>2 DEF InTypes, Safe
  <2> QED
    BY <2>3 DEF NInv
<1> QED
  BY <1>3, <1>4, InitStepSafe DEF NextI

\* In a tame program, user code in the middle of a prefetch meets no nil descriptor,
\* though its own goroutine has descriptors in hand that are not linked yet
\* (desc.go:64-71, resolver.go:160).
THEOREM FaultFreeInside == ASSUME Tame PROVE SpecI => []InitNoFault
<1>1. SpecI => []PublishedComplete
  BY KeepsRegistry, CompleteWhenTame
<1>2. NInv /\ PublishedComplete /\ HInv' /\ [NextI]_<<vars, initVars>> => NInv'
  BY NStep
<1>3. NInv => InitNoFault
  BY DEF NInv, Safe, SafeAt, InitNoFault
<1>4. SpecI => []HInv
  BY HInit, HStep, PTL DEF SpecI
<1> QED
  BY <1>1, <1>2, <1>3, <1>4, NInit, PTL DEF SpecI
=============================================================================
