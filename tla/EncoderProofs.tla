---------------------------- MODULE EncoderProofs ----------------------------
(***************************************************************************)
(* Encoder: the copy of an object passed by value is kept until the object *)
(* is encoded; every function is given a value of its type; and what is    *)
(* reported as written is a struct of WireGrammar.  First the copies.  An  *)
(* object of rvPool is free, or this call's, or another call's, and while  *)
(* this call has one the object it copied stays as it is.                  *)
(***************************************************************************)
EXTENDS Encoder, WireGrammar, CommonLemmas

Shapes ==
    /\ obj = [sd |-> obj.sd, val |-> obj.val, by |-> obj.by]
    /\ rvPool \subseteq RvObject /\ DOMAIN rv = RvObject

\* Who has an object of the pool has it alone.
Shared ==
    /\ prv # None => prv \in RvObject \ rvPool /\ prv # others
    /\ others # None => others \in RvObject \ rvPool

\* The copy is made when EncodeObject begins, of an object nobody else can change.
Kept ==
    /\ pc \in {"idle", "measured", "returned"} => prv = None
    /\ prv # None => obj.by = "value" /\ rv[prv] = obj.val

Inv == Shapes /\ Shared /\ Kept

-----------------------------------------------------------------------------
LEMMA InitInv == Init => Inv
BY ObjectAssumption DEF Init, Inv, Shapes, Shared, Kept

\* The steps that write what was copied, and change nothing of it.
LEMMA WritingKeeps ==
    ASSUME Inv, UNCHANGED <<obj, rvVars>>, pc \in {"next", "write"}, pc' \notin {"idle", "measured", "returned"}
    PROVE  Inv'
BY DEF Inv, Shapes, Shared, Kept, rvVars

LEMMA WritingSteps ==
    ASSUME NextField \/ StructEnd \/ NextElement \/ ListEnd \/ Iterate \/ NextEntry \/ EntryValue
           \/ MapEnd \/ WriteSimple \/ WriteStruct \/ WriteList \/ WriteMap
    PROVE  /\ UNCHANGED <<obj, rvVars>> /\ pc \in {"next", "write"}
           /\ pc' \notin {"idle", "measured", "returned"}
<1>1. UNCHANGED <<obj, rvVars>>
  BY DEF NextField, StructEnd, NextElement, ListEnd, Iterate, NextEntry, EntryValue, MapEnd,
         WriteSimple, WriteStruct, WriteList, WriteMap
<1>2. pc \in {"next", "write"} /\ pc' \notin {"idle", "measured", "returned"}
  BY DEF NextField, StructEnd, NextElement, ListEnd, Iterate, NextEntry, EntryValue, MapEnd,
         WriteSimple, WriteStruct, WriteList, WriteMap, Goto
<1> QED
  BY <1>1, <1>2

\* EncodedSize has its copy for one step only, of an object that is free.
LEMMA MeasureKeeps == ASSUME Inv, Measure PROVE Inv'
<1>1. pc = "idle" /\ pc' = "measured" /\ UNCHANGED <<obj, rvPool, prv, others>>
  BY DEF Measure, Goto
<1>2. prv = None
  BY <1>1 DEF Inv, Kept
<1>3. DOMAIN rv' = DOMAIN rv
  BY DEF Measure
<1> QED
  BY <1>1, <1>2, <1>3 DEF Inv, Shapes, Shared, Kept

LEMMA BeginKeeps == ASSUME Inv, Begin PROVE Inv'
<1>1. pc = "measured" /\ pc' \in {"next", "end"} /\ UNCHANGED <<obj, others>> /\ prv = None
  BY DEF Begin, Goto, Inv, Kept
<1>2. CASE obj.by = "value"
  <2>1. PICK o \in rvPool : rvPool' = rvPool \ {o} /\ rv' = [rv EXCEPT ![o] = obj.val] /\ prv' = o
    BY <1>2 DEF Begin, TakeRv, Without
  <2>2. o \in RvObject /\ rv'[o] = obj.val /\ DOMAIN rv' = RvObject
    BY <2>1 DEF Inv, Shapes
  <2>3. o # others
    BY <2>1, RvObjectAssumption DEF Inv, Shapes, Shared
  <2> QED
    BY <1>1, <1>2, <2>1, <2>2, <2>3 DEF Inv, Shapes, Shared, Kept
<1>3. CASE obj.by # "value"
  <2>1. UNCHANGED <<rvPool, rv, prv>>
    BY <1>3 DEF Begin
  <2> QED
    BY <1>1, <2>1 DEF Inv, Shapes, Shared, Kept
<1> QED
  BY <1>2, <1>3

LEMMA ReturnKeeps == ASSUME Inv, Return PROVE Inv'
<1>1. prv' = None /\ UNCHANGED <<obj, rv, others>>
      /\ rvPool' = IF prv = None THEN rvPool ELSE rvPool \cup {prv}
  BY DEF Return
<1> QED
  BY <1>1 DEF Inv, Shapes, Shared, Kept

\* Only an object passed by pointer is shared, and of such a one there is no copy.
LEMMA ChangeKeeps == ASSUME Inv, Change PROVE Inv'
<1>1. obj.by = "pointer" /\ UNCHANGED <<rvVars, pc>>
      /\ \E val \in Changes(obj) : obj' = [obj EXCEPT !.val = val]
  BY DEF Change
<1>2. prv = None
  BY <1>1 DEF Inv, Kept
<1>3. obj' = [sd |-> obj'.sd, val |-> obj'.val, by |-> obj'.by]
  BY <1>1 DEF Inv, Shapes
<1> QED
  BY <1>1, <1>2, <1>3 DEF Inv, Shapes, Shared, Kept, rvVars

LEMMA OtherKeeps == ASSUME Inv, OtherTakes \/ OtherPuts PROVE Inv'
<1>1. CASE OtherTakes
  <2>1. PICK o \in rvPool : /\ rvPool' = rvPool \ {o} /\ others' = o
                            /\ rv' = [rv EXCEPT ![o] = OtherValue(obj.sd)]
    BY <1>1 DEF OtherTakes, TakeRv, Without
  <2>2. UNCHANGED <<obj, prv, pc>>
    BY <1>1 DEF OtherTakes
  <2>3. o \in RvObject /\ DOMAIN rv' = RvObject
    BY <2>1 DEF Inv, Shapes
  <2>4. prv # None => prv # o /\ rv'[prv] = rv[prv]
    BY <2>1 DEF Inv, Shapes, Shared
  <2> QED
    BY <2>1, <2>2, <2>3, <2>4 DEF Inv, Shapes, Shared, Kept
<1>2. CASE OtherPuts
  <2>1. others # None /\ rvPool' = rvPool \cup {others} /\ others' = None
        /\ UNCHANGED <<obj, rv, prv, pc>>
    BY <1>2 DEF OtherPuts
  <2> QED
    BY <2>1 DEF Inv, Shapes, Shared, Kept
<1> QED
  BY <1>1, <1>2

LEMMA StepInv == Inv /\ [Next]_vars => Inv'
<1> SUFFICES ASSUME Inv, [Next]_vars PROVE Inv'
  OBVIOUS
<1>1. CASE Step
  <2>1. CASE NextField \/ StructEnd \/ NextElement \/ ListEnd \/ Iterate \/ NextEntry \/ EntryValue
             \/ MapEnd \/ WriteSimple \/ WriteStruct \/ WriteList \/ WriteMap
    BY <2>1, WritingSteps, WritingKeeps
  <2> QED
    BY <1>1, <2>1, MeasureKeeps, BeginKeeps, ReturnKeeps DEF Step
<1>2. CASE UNCHANGED vars
  BY <1>2 DEF vars, rvVars, Inv, Shapes, Shared, Kept
<1> QED
  BY <1>1, <1>2, ChangeKeeps, OtherKeeps DEF Next

\* Whatever else uses the pool, the copy an object passed by value is encoded from
\* is the object, to its last byte (CopyIsKept).
THEOREM CopyKept == Spec => []CopyIsKept
<1>1. Inv => CopyIsKept
  BY DEF Inv, Kept, CopyIsKept
<1> QED
  BY <1>1, InitInv, StepInv, PTL DEF Spec

-----------------------------------------------------------------------------
(***************************************************************************)
(* The types of what is written.                                           *)
(***************************************************************************)
\* Type facts are about types that have values.
LEMMA PointerTo ==
    ASSUME NEW s
    PROVE  /\ Pointer(Struct(s)).t = "struct" /\ Pointer(Struct(s)).sd = s
           /\ Pointer(Struct(s)).ptr
BY DEF Pointer, Struct

LEMMA FieldTyped ==
    ASSUME NEW s \in DOMAIN StructDesc, NEW v \in Value[Pointer(Struct(s))] \ {None},
           NEW id \in DOMAIN Fields(s)
    PROVE  /\ id \in Nat /\ Fields(s)[id].type \in DOMAIN Value
           /\ GetAt(v.f, s, id) \in Value[Fields(s)[id].type]
<1>1. Pointer(Struct(s)) \in DOMAIN Value /\ id \in Nat /\ Fields(s)[id].type \in DOMAIN Value
  BY TypeAssumption
<1>2. Pointer(Struct(s)).t = "struct" /\ Pointer(Struct(s)).sd = s
  BY PointerTo
<1> DEFINE type == Pointer(Struct(s))
<1> HIDE DEF type
<1>3. \A i \in DOMAIN Fields(type.sd) : GetAt(v.f, type.sd, i) \in Value[Fields(type.sd)[i].type]
  BY <1>1, <1>2, ValueAssumption, Zenon DEF type
<1>4. type.sd = s
  BY <1>2 DEF type
<1> QED
  BY <1>1, <1>3, <1>4

LEMMA ListTyped ==
    ASSUME NEW type \in DOMAIN Value, type.t \in {"list", "set"}, NEW v \in Value[type] \ {None}
    PROVE  type.v \in DOMAIN Value /\ v \in Seq(Value[type.v])
<1>1. type.v \in DOMAIN Value
  BY TypeAssumption
<1>2. v \in Seq(Value[type.v])
  BY ValueAssumption, Zenon
<1> QED
  BY <1>1, <1>2

LEMMA MapTyped ==
    ASSUME NEW type \in DOMAIN Value, type.t = "map", NEW v \in Value[type] \ {None}
    PROVE  /\ type.k \in DOMAIN Value /\ type.v \in DOMAIN Value
           /\ IsFiniteSet(DOMAIN v) /\ DOMAIN v \subseteq Value[type.k]
           /\ \A k \in DOMAIN v : v[k] \in Value[type.v]
<1>1. type.k \in DOMAIN Value /\ type.v \in DOMAIN Value
  BY TypeAssumption
<1>2. IsFiniteSet(DOMAIN v) /\ DOMAIN v \subseteq Value[type.k] /\ v \in [DOMAIN v -> Value[type.v]]
  BY ValueAssumption, Zenon
<1> QED
  BY <1>1, <1>2

\* The next field is one of those to be written.
LEMMA Least ==
    ASSUME NEW S \in SUBSET Nat, S # {}
    PROVE  Min(S) \in S
<1>1. PICK n \in S : \A m \in S : ~ (<<m, n>> \in OpToRel(<, Nat))
  BY NatLessThanWellFounded, WFMin, Zenon
<1>2. ASSUME NEW m \in S PROVE n <= m
  <2>1. ~ (m < n)
    BY <1>1 DEF OpToRel
  <2> QED
    BY <2>1
<1> QED
  BY <1>2, Zenon DEF Min

-----------------------------------------------------------------------------
\* What a frame writes next, its type, and whether there is anything.
Ready(f) ==
    CASE f.kind = "struct" -> f.todo # {}
      [] f.kind = "list" -> f.todo # <<>>
      [] OTHER -> f.at \in {"key", "value"}

Due(f) ==
    CASE f.kind = "struct" -> Fields(f.sd)[NextId(f)].type
      [] f.kind = "list" -> f.v
      [] f.kind = "map" /\ f.at = "key" -> f.type.k
      [] OTHER -> f.type.v

LEMMA FrameKinds ==
    ASSUME NEW f, FrameOK(f)
    PROVE  /\ f.kind \in {"struct", "list", "map"}
           /\ f.kind = "struct" => StructFrameOK(f)
           /\ f.kind = "list" => ListFrameOK(f)
           /\ f.kind = "map" => MapFrameOK(f)
BY DEF FrameOK, StructFrameOK, ListFrameOK, MapFrameOK

LEMMA NextIdTyped ==
    ASSUME NEW f, StructFrameOK(f), f.todo # {}
    PROVE  NextId(f) \in f.todo /\ NextId(f) \in DOMAIN Fields(f.sd) /\ NextId(f) \in Nat
           /\ f.sd \in DOMAIN StructDesc
<1>1. f.sd \in DOMAIN StructDesc /\ f.todo \subseteq DOMAIN Fields(f.sd)
  BY DEF StructFrameOK
<1>2. DOMAIN Fields(f.sd) \subseteq Nat
  BY <1>1, TypeAssumption
<1>3. NextId(f) \in f.todo
  BY <1>1, <1>2, Least DEF NextId
<1> QED
  BY <1>1, <1>2, <1>3

LEMMA DueTyped ==
    ASSUME NEW f, FrameOK(f), Ready(f) PROVE Due(f) \in DOMAIN Value
<1>1. CASE f.kind = "struct"
  <2>1. StructFrameOK(f) /\ f.todo # {} /\ Due(f) = Fields(f.sd)[NextId(f)].type
    BY <1>1, FrameKinds DEF Ready, Due
  <2> QED
    BY <2>1, NextIdTyped, TypeAssumption
<1>2. CASE f.kind = "list"
  BY <1>2, FrameKinds DEF Due, ListFrameOK
<1>3. CASE f.kind = "map"
  <2>1. MapFrameOK(f) /\ Due(f) \in {f.type.k, f.type.v}
    BY <1>3, FrameKinds DEF Due
  <2>2. f.type \in DOMAIN Value /\ f.type.t = "map"
    BY <2>1 DEF MapFrameOK
  <2> QED
    BY <2>1, <2>2, TypeAssumption
<1> QED
  BY <1>1, <1>2, <1>3, FrameKinds

LEMMA PassedTyped ==
    ASSUME NEW f, FrameOK(f), Ready(f) PROVE FrameOK(Passed(f)) /\ Passed(f).kind = f.kind
<1>1. CASE f.kind = "struct"
  <2>1. StructFrameOK(f) /\ Passed(f) = [f EXCEPT !.todo = @ \ {NextId(f)}]
    BY <1>1, FrameKinds DEF Passed
  <2>2. StructFrameOK(Passed(f)) /\ Passed(f).kind = "struct"
    BY <1>1, <2>1 DEF StructFrameOK
  <2> QED
    BY <1>1, <2>2 DEF FrameOK
<1>2. CASE f.kind = "list"
  <2>1. ListFrameOK(f) /\ f.todo # <<>> /\ Passed(f) = [f EXCEPT !.todo = Tail(@)]
    BY <1>2, FrameKinds DEF Passed, Ready
  <2>2. Tail(f.todo) \in Seq(Value[f.v])
    BY <2>1, HeadTailProperties DEF ListFrameOK
  <2>3. ListFrameOK(Passed(f)) /\ Passed(f).kind = "list"
    BY <1>2, <2>1, <2>2 DEF ListFrameOK
  <2> QED
    BY <1>2, <2>3 DEF FrameOK
<1>3. CASE f.kind = "map"
  <2>1. MapFrameOK(f) /\ f.at \in {"key", "value"}
        /\ Passed(f) = [f EXCEPT !.at = IF f.at = "key" THEN "value" ELSE "next"]
    BY <1>3, FrameKinds DEF Passed, Ready
  <2>2. MapFrameOK(Passed(f)) /\ Passed(f).kind = "map"
    BY <1>3, <2>1 DEF MapFrameOK
  <2> QED
    BY <1>3, <2>2 DEF FrameOK
<1> QED
  BY <1>1, <1>2, <1>3, FrameKinds

-----------------------------------------------------------------------------
\* The frame on top, and what is written next.
Writing == pc = "write" => Ready(Top)

LEMMA TopTyped ==
    ASSUME TypeOK, pc \in {"next", "write"}
    PROVE  /\ stack # <<>> /\ Len(stack) \in Nat \ {0} /\ DOMAIN stack = 1..Len(stack)
           /\ IsSeq(stack) /\ FrameOK(Top)
           /\ stack[1].kind = "struct" /\ obj.val # None
<1>1. stack # <<>> /\ IsSeq(stack) /\ stack[1].kind = "struct" /\ obj.val # None
  BY DEF TypeOK, IsSeq
<1>2. Len(stack) \in Nat \ {0} /\ DOMAIN stack = 1..Len(stack)
  BY <1>1, EmptySeq, LenProperties DEF IsSeq
<1>3. Len(stack) \in DOMAIN stack
  BY <1>2
<1>4. FrameOK(Top)
  BY <1>3 DEF TypeOK, Top
<1> QED
  BY <1>1, <1>2, <1>4

LEMMA GivenIsObject == ASSUME Kept PROVE Given = obj.val
BY DEF Kept, Given

LEMMA FieldValueTyped ==
    ASSUME TypeOK, Kept, pc \in {"next", "write"}, Top.kind = "struct", Top.todo # {}
    PROVE  FieldValue(Top, NextId(Top)) \in Value[Fields(Top.sd)[NextId(Top)].type]
<1> DEFINE id == NextId(Top)
           val == IF Top.live THEN obj.val ELSE Top.val
<1>1. StructFrameOK(Top) /\ obj.val # None
  BY TopTyped, FrameKinds
<1>2. id \in DOMAIN Fields(Top.sd) /\ Top.sd \in DOMAIN StructDesc
  BY <1>1, NextIdTyped
<1>3. val \in Value[Pointer(Struct(Top.sd))] \ {None}
  <2>1. CASE Top.live
    <3>1. obj.val \in Value[Pointer(Struct(obj.sd))] /\ Top.sd = obj.sd
      BY <1>1, <2>1 DEF TypeOK, StructFrameOK
    <3> QED
      BY <1>1, <2>1, <3>1
  <2>2. CASE ~Top.live
    BY <1>1, <2>2 DEF StructFrameOK
  <2> QED
    BY <2>1, <2>2
<1>4. FieldValue(Top, id) = GetAt(val.f, Top.sd, id)
  BY GivenIsObject DEF FieldValue
<1> HIDE DEF id, val
<1>5. GetAt(val.f, Top.sd, id) \in Value[Fields(Top.sd)[id].type]
  BY <1>2, <1>3, FieldTyped
<1>6. FieldValue(Top, id) \in Value[Fields(Top.sd)[id].type]
  BY <1>4, <1>5
<1> QED
  BY <1>6 DEF id

LEMMA CurrentTyped ==
    ASSUME TypeOK, Kept, pc = "write", Writing
    PROVE  /\ Current.type = Due(Top) /\ Current.type \in DOMAIN Value
           /\ Current.v \in Value[Current.type]
           /\ Current.fn \in {"Any", Class(Current.type.t)}
<1>1. FrameOK(Top) /\ Ready(Top)
  BY TopTyped DEF Writing
<1>2. Due(Top) \in DOMAIN Value
  BY <1>1, DueTyped
<1>3. CASE Top.kind = "struct"
  <2>1. Current = [type |-> Fields(Top.sd)[NextId(Top)].type, v |-> FieldValue(Top, NextId(Top)), fn |-> "Any"]
    BY <1>3 DEF Current
  <2>2. FieldValue(Top, NextId(Top)) \in Value[Fields(Top.sd)[NextId(Top)].type]
    BY <1>1, <1>3, FieldValueTyped DEF Ready
  <2>3. Due(Top) = Fields(Top.sd)[NextId(Top)].type
    BY <1>3 DEF Due
  <2> QED
    BY <1>2, <2>1, <2>2, <2>3
<1>4. CASE Top.kind = "list"
  <2>1. Current = [type |-> Top.v, v |-> Head(Top.todo), fn |-> Top.fn] /\ Due(Top) = Top.v
    BY <1>4 DEF Current, Due
  <2>2. Top.todo \in Seq(Value[Top.v]) /\ Top.todo # <<>> /\ Top.fn \in {"Any", Class(Top.v.t)}
    BY <1>1, <1>4, FrameKinds DEF ListFrameOK, Ready
  <2>3. Head(Top.todo) \in Value[Top.v]
    BY <2>2, HeadTailProperties
  <2> QED
    BY <1>2, <2>1, <2>2, <2>3
<1>5. CASE Top.kind = "map"
  <2>1. MapFrameOK(Top) /\ Top.at \in {"key", "value"}
    BY <1>1, <1>5, FrameKinds DEF Ready
  <2>2. CASE Top.at = "key"
    <3>1. Current = [type |-> Top.type.k, v |-> Top.k, fn |-> Class(Top.type.k.t)]
      BY <1>5, <2>2 DEF Current, MapAppendFunc
    <3>2. Due(Top) = Top.type.k /\ Top.k \in Value[Top.type.k]
      BY <1>5, <2>1, <2>2 DEF Due, MapFrameOK
    <3> QED
      BY <1>2, <3>1, <3>2
  <2>3. CASE Top.at = "value"
    <3>1. Current = [type |-> Top.type.v, v |-> Top.v, fn |-> Class(Top.type.v.t)]
      BY <1>5, <2>3 DEF Current, MapAppendFunc
    <3>2. Due(Top) = Top.type.v /\ Top.v \in Value[Top.type.v]
      BY <1>5, <2>1, <2>3 DEF Due, MapFrameOK
    <3> QED
      BY <1>2, <3>1, <3>2
  <2> QED
    BY <2>1, <2>2, <2>3
<1> QED
  BY <1>1, <1>3, <1>4, <1>5, FrameKinds

-----------------------------------------------------------------------------
\* The frame a struct, a list or a map is written in.
LEMMA StructFrameTyped ==
    ASSUME NEW s \in DOMAIN StructDesc, NEW v \in Value[Pointer(Struct(s))] \ {None},
           NEW live \in BOOLEAN, live => s = obj.sd
    PROVE  FrameOK(StructFrame(s, v, live)) /\ StructFrame(s, v, live).kind = "struct"
<1>1. StructFrameOK(StructFrame(s, v, live)) /\ StructFrame(s, v, live).kind = "struct"
  BY DEF StructFrame, StructFrameOK
<1> QED
  BY <1>1 DEF FrameOK

LEMMA ListFrameTyped ==
    ASSUME NEW type \in DOMAIN Value, type.t \in {"list", "set"}, NEW v \in Value[type] \ {None}
    PROVE  FrameOK(ListFrame(type, v)) /\ ListFrame(type, v).kind = "list"
<1>1. type.v \in DOMAIN Value /\ v \in Seq(Value[type.v])
  BY ListTyped
<1>2. ListFrameOK(ListFrame(type, v)) /\ ListFrame(type, v).kind = "list"
  BY <1>1 DEF ListFrame, ListFrameOK, ListAppendFunc
<1> QED
  BY <1>2 DEF FrameOK

\* The field of the object that an iterator goes over.
OwnMap(type, id) ==
    /\ id \in DOMAIN Fields(obj.sd) \cap DOMAIN obj.val.f
    /\ Fields(obj.sd)[id].type = type
    /\ obj.val.f[id] # None

LEMMA MapFrameTyped ==
    ASSUME NEW type \in DOMAIN Value, type.t = "map", NEW v \in Value[type] \ {None},
           NEW id \in Nat \cup {None}, id # None => OwnMap(type, id)
    PROVE  /\ FrameOK(MapFrame(type, v, id)) /\ MapFrame(type, v, id).kind = "map"
           /\ Cardinality(DOMAIN v) \in Nat
<1>1. Cardinality(DOMAIN v) \in Nat
  BY MapTyped, FS_CardinalityType
<1>2. MapFrameOK(MapFrame(type, v, id)) /\ MapFrame(type, v, id).kind = "map"
  BY <1>1 DEF MapFrame, MapFrameOK, OwnMap
<1> QED
  BY <1>1, <1>2 DEF FrameOK

\* Whatever became of the map meanwhile, its entries are what its type says.
LEMMA EntriesTyped ==
    ASSUME TypeOK, NEW f, MapFrameOK(f), obj.val # None
    PROVE  /\ DOMAIN Entries(f) \subseteq Value[f.type.k]
           /\ \A k \in DOMAIN Entries(f) : Entries(f)[k] \in Value[f.type.v]
<1>1. f.type \in DOMAIN Value /\ f.type.t = "map" /\ f.val \in Value[f.type] \ {None}
  BY DEF MapFrameOK
<1>2. CASE f.id = None \/ prv # None
  <2>1. Entries(f) = f.val
    BY <1>2 DEF Entries
  <2> QED
    BY <1>1, <2>1, MapTyped
<1>3. CASE f.id # None /\ prv = None
  <2>1. Entries(f) = obj.val.f[f.id]
    BY <1>3 DEF Entries
  <2>2. /\ f.id \in DOMAIN Fields(obj.sd) /\ f.id \in DOMAIN obj.val.f
        /\ Fields(obj.sd)[f.id].type = f.type /\ obj.val.f[f.id] # None
    BY <1>3 DEF MapFrameOK
  <2>3. obj.sd \in DOMAIN StructDesc /\ obj.val \in Value[Pointer(Struct(obj.sd))] \ {None}
    BY DEF TypeOK
  <2>4. GetAt(obj.val.f, obj.sd, f.id) = obj.val.f[f.id]
    BY <2>2 DEF GetAt
  <2>5. GetAt(obj.val.f, obj.sd, f.id) \in Value[f.type]
    BY <2>2, <2>3, FieldTyped
  <2> QED
    BY <1>1, <2>1, <2>2, <2>4, <2>5, MapTyped
<1> QED
  BY <1>2, <1>3

-----------------------------------------------------------------------------
(***************************************************************************)
(* The stack in a step.                                                    *)
(***************************************************************************)
StackOK(s) ==
    /\ IsSeq(s)
    /\ s # <<>> => s[1].kind = "struct"
    /\ \A k \in DOMAIN s : FrameOK(s[k])

LEMMA PushTyped ==
    ASSUME NEW s, StackOK(s), NEW f, FrameOK(f), s = <<>> => f.kind = "struct"
    PROVE  StackOK(Append(s, f)) /\ Append(s, f) # <<>>
<1> DEFINE t == Append(s, f)
<1>1. /\ IsSeq(t) /\ Len(t) = Len(s) + 1 /\ t[Len(s) + 1] = f
      /\ \A k \in 1..Len(s) : t[k] = s[k]
  BY PushSeq DEF StackOK
<1> HIDE DEF t
<1>2. Len(s) \in Nat /\ DOMAIN s = 1..Len(s) /\ DOMAIN t = 1..Len(t)
  BY <1>1, LenProperties DEF StackOK, IsSeq
<1>3. \A k \in DOMAIN t : FrameOK(t[k])
  <2> TAKE k \in DOMAIN t
  <2>1. CASE k = Len(s) + 1
    BY <1>1, <2>1
  <2>2. CASE k # Len(s) + 1
    <3>1. k \in 1..Len(s)
      BY <1>1, <1>2, <2>2
    <3>2. t[k] = s[k] /\ FrameOK(s[k])
      BY <1>1, <1>2, <3>1 DEF StackOK
    <3> QED
      BY <3>2
  <2> QED
    BY <2>1, <2>2
<1>4. t[1].kind = "struct"
  <2>1. CASE s = <<>>
    <3>1. Len(s) = 0
      BY <2>1, EmptySeq
    <3>2. t[1] = f
      BY <1>1, <3>1
    <3> QED
      BY <2>1, <3>2
  <2>2. CASE s # <<>>
    <3>1. Len(s) \in Nat \ {0} /\ s[1].kind = "struct"
      BY <2>2, EmptySeq DEF StackOK, IsSeq
    <3>2. t[1] = s[1]
      BY <1>1, <3>1
    <3> QED
      BY <3>1, <3>2
  <2> QED
    BY <2>1, <2>2
<1>5. t # <<>>
  <2>1. Len(t) # 0
    BY <1>1, <1>2
  <2> QED
    BY <2>1, EmptySeq
<1> QED
  BY <1>1, <1>3, <1>4, <1>5 DEF StackOK, t

LEMMA PopTyped ==
    ASSUME NEW s, StackOK(s), s # <<>>
    PROVE  LET t == SubSeq(s, 1, Len(s) - 1)
           IN  StackOK(t) /\ (t = <<>> <=> Len(s) = 1) /\ Len(s) \in Nat \ {0}
<1> DEFINE t == SubSeq(s, 1, Len(s) - 1)
<1>1. /\ Len(s) \in Nat \ {0} /\ IsSeq(t) /\ Len(t) = Len(s) - 1
      /\ \A k \in 1..(Len(s) - 1) : t[k] = s[k]
  BY PopSeq DEF StackOK
<1> HIDE DEF t
<1>2. DOMAIN s = 1..Len(s) /\ DOMAIN t = 1..(Len(s) - 1)
  BY <1>1, LenProperties DEF StackOK, IsSeq
<1>3. \A k \in DOMAIN t : t[k] = s[k] /\ k \in DOMAIN s
  BY <1>1, <1>2
<1>4. t = <<>> <=> Len(s) = 1
  BY <1>1, EmptySeq DEF IsSeq
<1>5. t # <<>> => t[1] = s[1]
  BY <1>1, <1>2, <1>3, <1>4
<1> QED
  BY <1>1, <1>3, <1>4, <1>5 DEF StackOK, t

LEMMA SwapTyped ==
    ASSUME NEW s, StackOK(s), s # <<>>, NEW f, FrameOK(f), f.kind = s[Len(s)].kind
    PROVE  LET t == Append(SubSeq(s, 1, Len(s) - 1), f) IN StackOK(t) /\ t # <<>>
<1> DEFINE r == SubSeq(s, 1, Len(s) - 1)
<1>1. StackOK(r) /\ (r = <<>> <=> Len(s) = 1) /\ Len(s) \in Nat \ {0}
  BY PopTyped
<1>2. r = <<>> => f.kind = "struct"
  BY <1>1 DEF StackOK
<1> HIDE DEF r
<1>3. StackOK(Append(r, f)) /\ Append(r, f) # <<>>
  BY <1>1, <1>2, PushTyped
<1> QED
  BY <1>3 DEF r

-----------------------------------------------------------------------------
Typed == Inv /\ TypeOK /\ Writing /\ (pc = "idle" => obj \in Object)

\* A step of append leaves a stack of good frames, empty when it is done with.
Advances ==
    /\ UNCHANGED <<obj, changes, rvVars, size, res>>
    /\ pc \in {"next", "write"} /\ pc' \in {"next", "write", "end", "failed", "panic"}
    /\ StackOK(stack')
    /\ pc' \in {"next", "write"} <=> stack' # <<>>
    /\ pc' = "write" => Ready(stack'[Len(stack')])

LEMMA StackTyped ==
    ASSUME Typed, pc \in {"next", "write"}
    PROVE  StackOK(stack) /\ stack # <<>> /\ Len(stack) \in Nat \ {0} /\ FrameOK(Top) /\ obj.val # None
<1>1. TypeOK
  BY DEF Typed
<1> QED
  BY <1>1, TopTyped DEF StackOK, TypeOK

LEMMA NoFrames == StackOK(<<>>)
BY EmptySeq DEF StackOK, IsSeq

LEMMA SkipField ==
    ASSUME Typed, NextField PROVE Advances
<1>1. pc = "next" /\ Top.kind = "struct" /\ Top.todo # {} /\ UNCHANGED <<obj, changes, rvVars, size, res>>
  BY DEF NextField
<1>2. StackOK(stack) /\ stack # <<>> /\ FrameOK(Top) /\ Ready(Top)
  BY <1>1, StackTyped DEF Ready
<1>3. CASE Pass /\ UNCHANGED pc
  <2>1. FrameOK(Passed(Top)) /\ Passed(Top).kind = Top.kind
    BY <1>2, PassedTyped
  <2>2. StackOK(stack') /\ stack' # <<>>
    BY <1>2, <1>3, <2>1, SwapTyped DEF Pass, Rest, Top
  <2> QED
    BY <1>1, <1>3, <2>2 DEF Advances
<1>4. CASE pc' = "write" /\ UNCHANGED stack
  BY <1>1, <1>2, <1>4 DEF Advances, Top
<1> QED
  BY <1>3, <1>4 DEF NextField

LEMMA LeaveStruct ==
    ASSUME Typed, StructEnd PROVE Advances
<1>1. /\ pc = "next" /\ UNCHANGED <<obj, changes, rvVars, size, res>>
      /\ stack' = Rest /\ pc' = IF Rest = <<>> THEN "end" ELSE "next"
  BY DEF StructEnd
<1>2. StackOK(Rest)
  BY <1>1, StackTyped, PopTyped DEF Rest
<1> QED
  BY <1>1, <1>2 DEF Advances

\* Below a list or a map there is a frame.
LEMMA Inside ==
    ASSUME Typed, pc \in {"next", "write"}, Top.kind # "struct"
    PROVE  StackOK(Rest) /\ Rest # <<>>
<1>1. StackOK(stack) /\ stack # <<>>
  BY StackTyped
<1>2. StackOK(Rest) /\ (Rest = <<>> <=> Len(stack) = 1)
  BY <1>1, PopTyped DEF Rest
<1>3. Len(stack) # 1
  BY <1>1 DEF StackOK, Top
<1> QED
  BY <1>2, <1>3

LEMMA LeaveList ==
    ASSUME Typed, ListEnd PROVE Advances
<1>1. /\ pc = "next" /\ pc' = "next" /\ UNCHANGED <<obj, changes, rvVars, size, res>>
      /\ stack' = Rest /\ Top.kind = "list"
  BY DEF ListEnd
<1>2. StackOK(Rest) /\ Rest # <<>>
  BY <1>1, Inside
<1> QED
  BY <1>1, <1>2 DEF Advances

LEMMA LeaveMap ==
    ASSUME Typed, MapEnd PROVE Advances
<1>1. pc = "next" /\ UNCHANGED <<obj, changes, rvVars, size, res>> /\ Top.kind = "map"
  BY DEF MapEnd
<1>2. CASE stack' = Rest /\ UNCHANGED pc
  <2>1. StackOK(Rest) /\ Rest # <<>>
    BY <1>1, Inside
  <2> QED
    BY <1>1, <1>2, <2>1 DEF Advances
<1>3. CASE stack' = <<>> /\ pc' = "failed"
  BY <1>1, <1>3, NoFrames DEF Advances
<1> QED
  BY <1>2, <1>3 DEF MapEnd

LEMMA ReadyToWrite ==
    ASSUME Typed, NextElement \/ EntryValue PROVE Advances
<1>1. /\ pc = "next" /\ pc' = "write" /\ stack' = stack /\ UNCHANGED <<obj, changes, rvVars, size, res>>
      /\ \/ Top.kind = "list" /\ Top.todo # <<>>
         \/ Top.kind = "map" /\ Top.at = "value"
  BY DEF NextElement, EntryValue
<1>2. Ready(Top)
  BY <1>1 DEF Ready
<1>3. StackOK(stack) /\ stack # <<>>
  BY <1>1, StackTyped
<1> QED
  BY <1>1, <1>2, <1>3 DEF Advances, Top

LEMMA StartMap ==
    ASSUME Typed, Iterate PROVE Advances
<1> DEFINE f == [Top EXCEPT !.at = "next", !.due = DOMAIN Entries(Top)]
<1>1. /\ pc = "next" /\ pc' = "next" /\ UNCHANGED <<obj, changes, rvVars, size, res>>
      /\ Top.kind = "map" /\ stack' = Append(Rest, f)
  BY DEF Iterate
<1>2. StackOK(stack) /\ stack # <<>> /\ MapFrameOK(Top) /\ obj.val # None
  BY <1>1, StackTyped, FrameKinds
<1>3. DOMAIN Entries(Top) \subseteq Value[Top.type.k]
  BY <1>2, EntriesTyped DEF Typed
<1>4. MapFrameOK(f) /\ f.kind = "map"
  <2> DEFINE due == DOMAIN Entries(Top)
  <2>1. due \in SUBSET Value[Top.type.k] /\ f = [Top EXCEPT !.at = "next", !.due = due]
    BY <1>3
  <2> HIDE DEF due, f
  <2> QED
    BY <1>1, <1>2, <2>1 DEF MapFrameOK
<1>5. FrameOK(f)
  BY <1>4 DEF FrameOK
<1> HIDE DEF f
<1>6. StackOK(stack') /\ stack' # <<>>
  BY <1>1, <1>2, <1>4, <1>5, SwapTyped DEF Rest, Top
<1> QED
  BY <1>1, <1>6 DEF Advances

LEMMA EnterEntry ==
    ASSUME Typed, NextEntry PROVE Advances
<1>1. /\ pc = "next" /\ pc' = "write" /\ UNCHANGED <<obj, changes, rvVars, size, res>>
      /\ Top.kind = "map"
  BY DEF NextEntry
<1>2. PICK k \in DOMAIN Entries(Top) \ Top.seen :
          stack' = Append(Rest, [Top EXCEPT !.at = "key", !.k = k, !.v = Entries(Top)[k],
                                            !.seen = @ \cup {k}, !.n = @ - 1])
  BY DEF NextEntry
<1>3. StackOK(stack) /\ stack # <<>> /\ MapFrameOK(Top) /\ obj.val # None
  BY <1>1, StackTyped, FrameKinds
<1>4. k \in Value[Top.type.k] /\ Entries(Top)[k] \in Value[Top.type.v]
  BY <1>2, <1>3, EntriesTyped DEF Typed
<1> DEFINE f == [Top EXCEPT !.at = "key", !.k = k, !.v = Entries(Top)[k],
                            !.seen = @ \cup {k}, !.n = @ - 1]
<1>5. MapFrameOK(f) /\ f.kind = "map" /\ f.at = "key"
  <2> DEFINE v == Entries(Top)[k]
             n == Top.n - 1
             seen == Top.seen \cup {k}
  <2>1. f = [Top EXCEPT !.at = "key", !.k = k, !.v = v, !.seen = seen, !.n = n]
    OBVIOUS
  <2>2. v \in Value[Top.type.v] /\ n \in Int /\ seen \in SUBSET Value[Top.type.k]
    BY <1>3, <1>4 DEF MapFrameOK
  <2> HIDE DEF v, n, seen, f
  <2>3. /\ f.kind = "map" /\ f.at = "key" /\ f.type = Top.type /\ f.k = k /\ f.v = v /\ f.id = Top.id
        /\ f.val = Top.val /\ f.n = n /\ f.seen = seen /\ f.due = Top.due
        /\ f = [kind |-> "map", type |-> Top.type, val |-> Top.val, id |-> Top.id, n |-> n, at |-> "key",
                seen |-> seen, due |-> Top.due, k |-> k, v |-> v]
    BY <1>1, <1>3, <2>1 DEF MapFrameOK
  <2> QED
    BY <1>1, <1>3, <1>4, <2>2, <2>3 DEF MapFrameOK
<1>6. FrameOK(f) /\ Ready(f)
  BY <1>5 DEF FrameOK, Ready
<1>7. stack' = Append(Rest, f)
  BY <1>2
<1> HIDE DEF f
<1>8. StackOK(stack') /\ stack' # <<>>
  BY <1>1, <1>3, <1>5, <1>6, <1>7, SwapTyped DEF Rest, Top
<1>9. stack'[Len(stack')] = f
  BY <1>3, <1>7, ReplaceTopSeq, EmptySeq DEF Rest, StackOK, IsSeq
<1> QED
  BY <1>1, <1>6, <1>8, <1>9 DEF Advances

\* What is written is passed in its frame, and a frame may be pushed for it.
LEMMA PassAdvances ==
    ASSUME Typed, pc = "write"
    PROVE  LET t == Append(Rest, Passed(Top))
           IN  StackOK(t) /\ t # <<>> /\ \A f : FrameOK(f) => StackOK(Append(t, f)) /\ Append(t, f) # <<>>
<1> DEFINE t == Append(Rest, Passed(Top))
<1>1. StackOK(stack) /\ stack # <<>> /\ FrameOK(Top) /\ Ready(Top)
  BY StackTyped DEF Typed, Writing
<1>2. FrameOK(Passed(Top)) /\ Passed(Top).kind = Top.kind
  BY <1>1, PassedTyped
<1>3. StackOK(t) /\ t # <<>>
  BY <1>1, <1>2, SwapTyped DEF Rest, Top
<1> HIDE DEF t
<1>4. \A f : FrameOK(f) => StackOK(Append(t, f)) /\ Append(t, f) # <<>>
  BY <1>3, PushTyped
<1> QED
  BY <1>3, <1>4 DEF t

LEMMA WriteSimpleAdvances ==
    ASSUME Typed, WriteSimple PROVE Advances
<1>1. pc = "write" /\ UNCHANGED <<obj, changes, rvVars, size, res>>
  BY DEF WriteSimple
<1>2. CASE pc' = "panic" /\ stack' = <<>>
  BY <1>1, <1>2, NoFrames DEF Advances
<1>3. CASE pc' = "next" /\ Pass
  <2>1. StackOK(stack') /\ stack' # <<>>
    BY <1>1, <1>3, PassAdvances DEF Pass
  <2> QED
    BY <1>1, <1>3, <2>1 DEF Advances
<1> QED
  BY <1>2, <1>3 DEF WriteSimple

LEMMA PassToAdvances ==
    ASSUME Typed, pc = "write", pc' = "next", UNCHANGED <<obj, changes, rvVars, size, res>>,
           Pass \/ \E f : FrameOK(f) /\ PassTo(f)
    PROVE  Advances
<1>1. CASE Pass
  <2>1. StackOK(stack') /\ stack' # <<>>
    BY <1>1, PassAdvances DEF Pass
  <2> QED
    BY <2>1 DEF Advances
<1>2. CASE \E f : FrameOK(f) /\ PassTo(f)
  <2>1. PICK f : FrameOK(f) /\ PassTo(f)
    BY <1>2
  <2>2. StackOK(stack') /\ stack' # <<>>
    BY <2>1, PassAdvances DEF PassTo
  <2> QED
    BY <2>2 DEF Advances
<1> QED
  BY <1>1, <1>2

LEMMA CurrentValue ==
    ASSUME Typed, pc = "write"
    PROVE  /\ Current.type = Due(Top) /\ Current.type \in DOMAIN Value
           /\ Current.v \in Value[Current.type]
           /\ Current.fn \in {"Any", Class(Current.type.t)}
BY CurrentTyped DEF Typed, Inv

LEMMA StructPushed ==
    ASSUME Typed, pc = "write", Current.type.t = "struct", Current.v # None
    PROVE  FrameOK(StructFrame(Current.type.sd, Current.v, FALSE))
<1>1. Current.type \in DOMAIN Value /\ Current.v \in Value[Current.type]
  BY CurrentValue
<1> DEFINE type == Current.type
           v == Current.v
<1> HIDE DEF type, v
<1>2. type.sd \in DOMAIN StructDesc /\ v \in Value[Pointer(Struct(type.sd))]
  BY <1>1, TypeAssumption, ValueAssumption, Zenon DEF type, v
<1>3. v # None
  BY DEF v
<1>4. FrameOK(StructFrame(type.sd, v, FALSE))
  BY <1>2, <1>3, StructFrameTyped
<1> QED
  BY <1>4 DEF type, v

LEMMA WriteStructAdvances ==
    ASSUME Typed, WriteStruct PROVE Advances
<1>1. /\ pc = "write" /\ pc' = "next" /\ UNCHANGED <<obj, changes, rvVars, size, res>>
      /\ Current.type.t = "struct"
  BY DEF WriteStruct, Goto
<1>2. Pass \/ (Current.v # None /\ PassTo(StructFrame(Current.type.sd, Current.v, FALSE)))
  BY DEF WriteStruct
<1>3. Pass \/ \E f : FrameOK(f) /\ PassTo(f)
  BY <1>1, <1>2, StructPushed
<1> QED
  BY <1>1, <1>3, PassToAdvances

LEMMA WriteListAdvances ==
    ASSUME Typed, WriteList PROVE Advances
<1>1. /\ pc = "write" /\ pc' = "next" /\ UNCHANGED <<obj, changes, rvVars, size, res>>
      /\ Current.type.t \in {"list", "set"}
  BY DEF WriteList, Goto
<1>2. Pass \/ (Current.v # None /\ PassTo(ListFrame(Current.type, Current.v)))
  BY DEF WriteList, IsEmpty
<1>3. Current.v # None => FrameOK(ListFrame(Current.type, Current.v))
  BY <1>1, CurrentValue, ListFrameTyped
<1>4. Pass \/ \E f : FrameOK(f) /\ PassTo(f)
  BY <1>2, <1>3
<1> QED
  BY <1>1, <1>4, PassToAdvances

\* The id by which an iterator finds its map again in the object.
OwnId == IF Top.kind = "struct" /\ Top.live THEN NextId(Top) ELSE None

LEMMA OwnIdFound ==
    ASSUME Typed, pc = "write", Current.type.t = "map", Current.v # None
    PROVE  OwnId \in Nat \cup {None} /\ (OwnId # None => OwnMap(Current.type, OwnId))
<1>1. CASE Top.kind = "struct" /\ Top.live
  <2> DEFINE id == NextId(Top)
  <2>1. StructFrameOK(Top) /\ Top.todo # {} /\ Top.sd = obj.sd
    BY <1>1, StackTyped, FrameKinds DEF Typed, Writing, Ready, StructFrameOK
  <2>2. id \in DOMAIN Fields(obj.sd) /\ id \in Nat
    BY <2>1, NextIdTyped
  <2>3. Current.type = Fields(obj.sd)[id].type
    BY <1>1, <2>1, CurrentValue DEF Due
  <2>4. Current.v = GetAt(obj.val.f, obj.sd, id)
    <3>1. Current.v = FieldValue(Top, id)
      BY <1>1 DEF Current
    <3>2. Given = obj.val
      BY GivenIsObject DEF Typed, Inv
    <3> QED
      BY <1>1, <2>1, <3>1, <3>2 DEF FieldValue
  <2>5. ZeroOf(Fields(obj.sd)[id].type) = None
    BY <2>3 DEF ZeroOf, IsContainer
  <2> HIDE DEF id
  <2>6. id \in DOMAIN obj.val.f /\ obj.val.f[id] # None
    BY <2>4, <2>5 DEF GetAt
  <2>7. OwnMap(Current.type, id)
    BY <2>2, <2>3, <2>6 DEF OwnMap
  <2> QED
    BY <1>1, <2>2, <2>7 DEF OwnId, id
<1>2. CASE ~(Top.kind = "struct" /\ Top.live)
  BY <1>2 DEF OwnId
<1> QED
  BY <1>1, <1>2

LEMMA WriteMapAdvances ==
    ASSUME Typed, WriteMap PROVE Advances
<1>1. /\ pc = "write" /\ pc' = "next" /\ UNCHANGED <<obj, changes, rvVars, size, res>>
      /\ Current.type.t = "map"
  BY DEF WriteMap, Goto
<1>2. Pass \/ (Current.v # None /\ PassTo(MapFrame(Current.type, Current.v, OwnId)))
  BY DEF WriteMap, OwnId
<1>3. Current.v # None => FrameOK(MapFrame(Current.type, Current.v, OwnId))
  BY <1>1, CurrentValue, OwnIdFound, MapFrameTyped
<1>4. Pass \/ \E f : FrameOK(f) /\ PassTo(f)
  BY <1>2, <1>3
<1> QED
  BY <1>1, <1>4, PassToAdvances

LEMMA AllAdvance ==
    ASSUME Typed,
           NextField \/ StructEnd \/ NextElement \/ ListEnd \/ Iterate \/ NextEntry \/ EntryValue
           \/ MapEnd \/ WriteSimple \/ WriteStruct \/ WriteList \/ WriteMap
    PROVE  Advances
BY SkipField, LeaveStruct, LeaveList, LeaveMap, ReadyToWrite, StartMap, EnterEntry,
   WriteSimpleAdvances, WriteStructAdvances, WriteListAdvances, WriteMapAdvances

-----------------------------------------------------------------------------
(***************************************************************************)
(* Typed in every step.                                                    *)
(***************************************************************************)
LEMMA InitTyped == Init => Typed
<1> SUFFICES ASSUME Init PROVE Typed
  OBVIOUS
<1>1. Inv
  BY InitInv
<1>2. TypeOK
  BY ObjectAssumption, MaxChangesAssumption, NoFrames DEF Init, TypeOK, StackOK, IsSeq
<1> QED
  BY <1>1, <1>2 DEF Typed, Init, Writing

\* Frames fit an object that stays as it is.
LEMMA FramesStay ==
    ASSUME obj' = obj, StackOK(stack')
    PROVE  \A k \in DOMAIN stack' : FrameOK(stack[k])'
<1> SUFFICES ASSUME NEW k \in DOMAIN stack' PROVE FrameOK(stack[k])'
  OBVIOUS
<1>1. FrameOK(stack'[k])
  BY DEF StackOK
<1>2. StructFrameOK(stack'[k]) => StructFrameOK(stack[k])'
  BY DEF StructFrameOK
<1>3. ListFrameOK(stack'[k]) => ListFrameOK(stack[k])'
  BY DEF ListFrameOK
<1>4. MapFrameOK(stack'[k]) => MapFrameOK(stack[k])'
  BY DEF MapFrameOK
<1> QED
  BY <1>1, <1>2, <1>3, <1>4 DEF FrameOK

LEMMA AdvanceTyped == ASSUME Typed, Advances, Inv' PROVE Typed'
<1>1. /\ obj' = obj /\ changes' = changes /\ rvPool' = rvPool /\ rv' = rv /\ prv' = prv
      /\ others' = others /\ size' = size /\ res' = res
  BY DEF Advances, rvVars
<1>2. stack # <<>> /\ StackOK(stack) /\ obj.val # None
  BY StackTyped DEF Advances
<1>3. \A k \in DOMAIN stack' : FrameOK(stack[k])'
  BY <1>1, FramesStay DEF Advances
<1>4. /\ stack' \in Seq(Range(stack')) /\ (pc' \in {"next", "write"} <=> stack' # <<>>)
      /\ (stack' # <<>> => stack'[1].kind = "struct")
      /\ pc' \in {"idle", "measured", "next", "write", "end", "failed", "panic", "returned"}
      /\ pc' # "idle"
  BY DEF Advances, StackOK, IsSeq
<1>5. TypeOK'
  BY <1>1, <1>2, <1>3, <1>4 DEF TypeOK, Typed
<1>6. Writing'
  <2> SUFFICES ASSUME pc' = "write" PROVE Ready(stack'[Len(stack')])
    BY DEF Writing, Top, Ready
  <2> QED
    BY DEF Advances
<1> QED
  BY <1>4, <1>5, <1>6 DEF Typed

LEMMA StackStays ==
    ASSUME Typed, UNCHANGED <<obj, stack>>
    PROVE  \A k \in DOMAIN stack' : FrameOK(stack[k])'
<1>1. StackOK(stack')
  BY DEF Typed, TypeOK, StackOK, IsSeq
<1> QED
  BY <1>1, FramesStay

LEMMA MeasureTyped == ASSUME Typed, Measure, Inv' PROVE Typed'
<1>1. /\ pc = "idle" /\ pc' = "measured"
      /\ UNCHANGED <<obj, changes, rvPool, prv, others, out, stack, res>> /\ size' = EncodedSize(obj)
  BY DEF Measure, Goto
<1>2. size' \in Nat
  BY <1>1, ObjectAssumption DEF Typed
<1>3. DOMAIN rv' = RvObject
  BY DEF Inv, Shapes
<1>4. TypeOK'
  BY <1>1, <1>2, <1>3, StackStays DEF TypeOK, Typed
<1> QED
  BY <1>1, <1>4 DEF Typed, Writing

LEMMA BeginTyped == ASSUME Typed, Begin, Inv' PROVE Typed'
<1>1. /\ pc = "measured" /\ pc' \in {"next", "end"} /\ UNCHANGED <<obj, changes, others, size, res>>
  BY DEF Begin, Goto
<1>2. /\ rvPool' \subseteq RvObject /\ DOMAIN rv' = RvObject /\ prv' \in RvObject \cup {None}
  BY DEF Inv, Shapes, Shared
<1>3. stack = <<>>
  BY <1>1 DEF Typed, TypeOK
<1>4. StackOK(stack') /\ (pc' = "next" <=> stack' # <<>>) /\ (stack' # <<>> => obj.val # None)
  <2>1. CASE obj.val = None
    BY <1>3, <2>1, NoFrames DEF Begin, Goto
  <2>2. CASE obj.val # None
    <3> DEFINE f == StructFrame(obj.sd, obj.val, TRUE)
    <3>1. obj.sd \in DOMAIN StructDesc /\ obj.val \in Value[Pointer(Struct(obj.sd))] \ {None}
      BY <2>2 DEF Typed, TypeOK
    <3>2. FrameOK(f) /\ f.kind = "struct"
      BY <3>1, StructFrameTyped
    <3>3. stack' = <<f>> /\ pc' = "next"
      BY <2>2 DEF Begin, Goto
    <3> HIDE DEF f
    <3>4. Append(<<>>, f) = <<f>>
      OBVIOUS
    <3>5. StackOK(Append(<<>>, f)) /\ Append(<<>>, f) # <<>>
      BY <3>2, NoFrames, PushTyped
    <3> QED
      BY <2>2, <3>3, <3>4, <3>5
  <2> QED
    BY <2>1, <2>2
<1>5. \A k \in DOMAIN stack' : FrameOK(stack[k])'
  BY <1>1, <1>4, FramesStay
<1>6. TypeOK'
  BY <1>1, <1>2, <1>4, <1>5 DEF TypeOK, Typed, StackOK, IsSeq
<1> QED
  BY <1>1, <1>6 DEF Typed, Writing

LEMMA ReturnTyped == ASSUME Typed, Return, Inv' PROVE Typed'
<1>1. /\ pc \in {"end", "failed", "panic"} /\ pc' = "returned"
      /\ UNCHANGED <<obj, changes, rv, others, size, out, stack>> /\ prv' = None
      /\ res' \in {"none", "ok", "too_long", "map_changed", "panic"}
  BY DEF Return
<1>2. rvPool' \subseteq RvObject
  BY DEF Inv, Shapes
<1>3. TypeOK'
  BY <1>1, <1>2, StackStays DEF TypeOK, Typed
<1> QED
  BY <1>1, <1>3 DEF Typed, Writing

LEMMA OtherTyped == ASSUME Typed, OtherTakes \/ OtherPuts, Inv' PROVE Typed'
<1>1. UNCHANGED <<obj, changes, prv, size, pc, out, stack, res>>
  BY DEF OtherTakes, OtherPuts
<1>2. rvPool' \subseteq RvObject /\ DOMAIN rv' = RvObject /\ others' \in RvObject \cup {None}
  BY DEF Inv, Shapes, Shared
<1>3. TypeOK'
  BY <1>1, <1>2, StackStays DEF TypeOK, Typed
<1>4. Writing'
  BY <1>1 DEF Typed, Writing, Top, Ready
<1> QED
  BY <1>1, <1>3, <1>4 DEF Typed

\* The maps that are being gone over are still there when the object was changed.
LEMMA ChangeTyped == ASSUME Typed, Change, Inv' PROVE Typed'
<1>1. /\ obj.by = "pointer" /\ obj.val # None /\ pc \in {"measured", "next", "write"}
      /\ changes < MaxChanges /\ changes' = changes + 1
      /\ UNCHANGED <<rvPool, rv, prv, others, size, pc, out, stack, res>>
  BY DEF Change, rvVars
<1>2. PICK val \in Changes(obj) : obj' = [obj EXCEPT !.val = val]
  BY DEF Change
<1>3. /\ obj.sd \in DOMAIN StructDesc /\ obj.val \in Value[Pointer(Struct(obj.sd))] \ {None}
      /\ obj = [sd |-> obj.sd, val |-> obj.val, by |-> "pointer"]
  BY <1>1 DEF Typed, TypeOK
<1>4. obj' = [sd |-> obj.sd, val |-> val, by |-> "pointer"]
  BY <1>2, <1>3
<1>5. /\ val \in Value[Pointer(Struct(obj.sd))] \ {None}
      /\ \A id \in DOMAIN Fields(obj.sd) \cap DOMAIN obj.val.f :
            Fields(obj.sd)[id].type.t = "map" /\ obj.val.f[id] # None =>
                id \in DOMAIN val.f /\ val.f[id] # None
  <2> DEFINE s == obj.sd
             old == obj.val
  <2>1. val \in Changes([sd |-> s, val |-> old, by |-> "pointer"])
    BY <1>2, <1>3
  <2>2. s \in DOMAIN StructDesc /\ old \in Value[Pointer(Struct(s))] \ {None}
    BY <1>3
  <2> HIDE DEF s, old
  <2>3. /\ val \in Value[Pointer(Struct(s))] \ {None}
        /\ \A id \in DOMAIN Fields(s) \cap DOMAIN old.f :
              Fields(s)[id].type.t = "map" /\ old.f[id] # None =>
                  id \in DOMAIN val.f /\ val.f[id] # None
    BY <2>1, <2>2, ChangesAssumption, Zenon
  <2> QED
    BY <2>3 DEF s, old
<1>6. \A k \in DOMAIN stack' : FrameOK(stack[k])'
  <2> SUFFICES ASSUME NEW k \in DOMAIN stack PROVE FrameOK(stack[k])'
    BY <1>1
  <2>1. FrameOK(stack[k])
    BY DEF Typed, TypeOK
  <2>2. StructFrameOK(stack[k]) => StructFrameOK(stack[k])'
    BY <1>1, <1>4 DEF StructFrameOK
  <2>3. ListFrameOK(stack[k]) => ListFrameOK(stack[k])'
    BY <1>1 DEF ListFrameOK
  <2>4. MapFrameOK(stack[k]) => MapFrameOK(stack[k])'
    <3> DEFINE f == stack[k]
    <3> SUFFICES ASSUME MapFrameOK(f) PROVE MapFrameOK(f)'
      OBVIOUS
    <3>1. f.id # None => /\ f.id \in DOMAIN Fields(obj.sd) \cap DOMAIN obj.val.f
                         /\ Fields(obj.sd)[f.id].type = f.type /\ f.type.t = "map"
                         /\ obj.val.f[f.id] # None
      BY DEF MapFrameOK
    <3>2. f.id # None => f.id \in DOMAIN val.f /\ val.f[f.id] # None
      BY <1>5, <3>1
    <3>3. f.id # None => /\ f.id \in DOMAIN Fields(obj'.sd) \cap DOMAIN obj'.val.f
                         /\ Fields(obj'.sd)[f.id].type = f.type
                         /\ obj'.val.f[f.id] # None
      BY <1>4, <3>1, <3>2
    <3> QED
      BY <1>1, <3>3 DEF MapFrameOK
  <2> QED
    BY <1>1, <2>1, <2>2, <2>3, <2>4 DEF FrameOK
<1>7. changes' \in 0..MaxChanges
  BY <1>1, MaxChangesAssumption DEF Typed, TypeOK
<1>8. TypeOK'
  BY <1>1, <1>3, <1>4, <1>5, <1>6, <1>7 DEF TypeOK, Typed
<1>9. Writing'
  BY <1>1 DEF Typed, Writing, Top, Ready
<1> QED
  BY <1>1, <1>8, <1>9 DEF Typed

LEMMA StepTyped == Typed /\ [Next]_vars => Typed'
<1> SUFFICES ASSUME Typed, [Next]_vars PROVE Typed'
  OBVIOUS
<1>1. Inv'
  BY StepInv DEF Typed
<1>2. CASE Step
  <2>1. CASE NextField \/ StructEnd \/ NextElement \/ ListEnd \/ Iterate \/ NextEntry \/ EntryValue
             \/ MapEnd \/ WriteSimple \/ WriteStruct \/ WriteList \/ WriteMap
    BY <1>1, <2>1, AllAdvance, AdvanceTyped
  <2> QED
    BY <1>1, <1>2, <2>1, MeasureTyped, BeginTyped, ReturnTyped DEF Step
<1>3. CASE UNCHANGED vars
  <2>1. UNCHANGED <<obj, changes, rvPool, rv, prv, others, size, pc, out, stack, res>>
    BY <1>3 DEF vars, rvVars
  <2>2. TypeOK'
    BY <2>1, StackStays DEF TypeOK, Typed
  <2>3. Writing'
    BY <2>1 DEF Typed, Writing, Top, Ready
  <2> QED
    BY <1>1, <2>1, <2>2, <2>3 DEF Typed
<1> QED
  BY <1>1, <1>2, <1>3, ChangeTyped, OtherTyped DEF Next

\* A function that writes a field, an element, a key or a value is given one of the
\* type it was made for, at any depth and whatever became of the object (TypeOK).
THEOREM TypeCorrect == Spec => []TypeOK
<1>1. Typed => TypeOK
  BY DEF Typed
<1> QED
  BY <1>1, InitTyped, StepTyped, PTL DEF Spec

-----------------------------------------------------------------------------
(***************************************************************************)
(* What is reported as written is a struct by the grammar.  The bytes are  *)
(* cut where the frames begin: what a frame has written so far lacks, of   *)
(* the struct, list or map it is to be, only what is still to be written,  *)
(* and what a frame below the top lacks next is what the one above it is   *)
(* to be.                                                                  *)
(***************************************************************************)
ListPart(W, f, s) ==
    \E i \in Nat : \E e \in W.elems[<<WT(f.v), i>>] : s = <<ListHeader(WT(f.v), i + Len(f.todo))>> \o e

\* Between two entries, and between a key and its value.
MapPart(W, type, n, s) ==
    LET kt == WT(type.k)
        vt == WT(type.v)
    IN  \E i \in Nat : \E e \in W.entries[<<kt, vt, i>>] :
            i + n \in Nat /\ s = <<MapHeader(kt, vt, i + n)>> \o e

EntryPart(W, type, n, s) ==
    LET kt == WT(type.k)
        vt == WT(type.v)
    IN  \E i \in Nat : \E e \in W.entries[<<kt, vt, i>>], k \in W.value[kt] :
            i + 1 + n \in Nat /\ s = (<<MapHeader(kt, vt, i + 1 + n)>> \o e) \o k

IsPart(W, f, s) ==
    CASE f.kind = "struct" -> s \in W.fields
      [] f.kind = "list" -> ListPart(W, f, s)
      [] f.kind = "map" /\ f.at \in {"start", "next"} -> MapPart(W, f.type, f.n, s)
      [] f.kind = "map" /\ f.at = "value" -> EntryPart(W, f.type, f.n, s)
      [] OTHER -> FALSE

\* A part that lacks one value of a wire type.
Awaits(W, f, wt, s) == \A v \in W.value[wt] : IsPart(W, f, s \o v)

\* What a frame is to be.
Yields(f) == CASE f.kind = "struct" -> {"struct"} [] f.kind = "list" -> {"list", "set"} [] OTHER -> {"map"}

\* pre[k] was written before the frame k was pushed, seg[k] by that frame.
Split(W, st, o, pre, seg) ==
    /\ pre \in [1..Len(st) -> Seq(W.token)] /\ seg \in [1..Len(st) -> Seq(W.token)]
    /\ pre[1] = <<>>
    /\ o = pre[Len(st)] \o seg[Len(st)]
    /\ \A k \in 1..(Len(st) - 1) :
          /\ pre[k + 1] = pre[k] \o seg[k]
          /\ \E wt \in Yields(st[k + 1]) : Awaits(W, st[k], wt, seg[k])

\* The rules, one by one.
LEMMA ValueSeq ==
    ASSUME NEW W, Grammar(W), NEW wt \in WireType, NEW v \in W.value[wt]
    PROVE  v \in Seq(W.token)
BY DEF Grammar, Languages

LEMMA FieldsSeq ==
    ASSUME NEW W, Grammar(W), NEW f \in W.fields PROVE f \in Seq(W.token)
BY DEF Grammar, Languages

LEMMA ElemsSeq ==
    ASSUME NEW W, Grammar(W), NEW wt \in WireType, NEW n \in Nat, NEW e \in W.elems[<<wt, n>>]
    PROVE  /\ e \in Seq(W.token) /\ <<ListHeader(wt, n)>> \in Seq(W.token)
           /\ <<ListHeader(wt, n)>> \o e \in W.value["list"] \cap W.value["set"]
           /\ \A v \in W.value[wt] : e \o v \in W.elems[<<wt, n + 1>>]
<1>1. e \in Seq(W.token)
  BY DEF Grammar, Languages
<1>2. ListRule(W)
  BY DEF Grammar
<1>3. ListHeader(wt, n) \in W.token /\ <<ListHeader(wt, n)>> \o e \in W.value["list"] \cap W.value["set"]
      /\ \A v \in W.value[wt] : e \o v \in W.elems[<<wt, n + 1>>]
  BY <1>2, Zenon DEF ListRule
<1> DEFINE h == ListHeader(wt, n)
<1>4. h \in W.token
  BY <1>3
<1> HIDE DEF h
<1>5. <<h>> \in Seq(W.token)
  BY <1>4, SingleSeq
<1> QED
  BY <1>1, <1>3, <1>5 DEF h

LEMMA EntriesSeq ==
    ASSUME NEW W, Grammar(W), NEW kt \in WireType, NEW vt \in WireType, NEW n \in Nat,
           NEW e \in W.entries[<<kt, vt, n>>]
    PROVE  /\ e \in Seq(W.token) /\ <<MapHeader(kt, vt, n)>> \in Seq(W.token)
           /\ <<MapHeader(kt, vt, n)>> \o e \in W.value["map"]
           /\ \A k \in W.value[kt], v \in W.value[vt] : (e \o k) \o v \in W.entries[<<kt, vt, n + 1>>]
<1>1. e \in Seq(W.token)
  BY DEF Grammar, Languages
<1>2. MapRule(W)
  BY DEF Grammar
<1>3. MapHeader(kt, vt, n) \in W.token /\ <<MapHeader(kt, vt, n)>> \o e \in W.value["map"]
      /\ \A k \in W.value[kt], v \in W.value[vt] : (e \o k) \o v \in W.entries[<<kt, vt, n + 1>>]
  BY <1>2, Zenon DEF MapRule
<1> DEFINE h == MapHeader(kt, vt, n)
<1>4. h \in W.token
  BY <1>3
<1> HIDE DEF h
<1>5. <<h>> \in Seq(W.token)
  BY <1>4, SingleSeq
<1> QED
  BY <1>1, <1>3, <1>5 DEF h

\* A wire type for each type, and a token of the right width for each simple value.
LEMMA WireTyped ==
    ASSUME NEW type \in DOMAIN Value PROVE WT(type) \in WireType /\ (type.t # "enum" => WT(type) = type.t)
<1>1. type.t \in Kind
  BY TypeAssumption
<1>2. WireType = Kind \ {"enum"}
  BY DEF WireType, MinWireSize
<1>3. "i32" \in Kind
  BY DEF Kind, FixedSize
<1> QED
  BY <1>1, <1>2, <1>3 DEF WT

LEMMA FixedWidth ==
    /\ DOMAIN FixedSize = {"bool", "i08", "i16", "i32", "i64", "double", "enum"}
    /\ FixedSize["bool"] = 1 /\ FixedSize["i08"] = 1 /\ FixedSize["i16"] = 2 /\ FixedSize["i32"] = 4
    /\ FixedSize["i64"] = 8 /\ FixedSize["double"] = 8
BY DEF FixedSize

LEMMA WireTypes ==
    /\ WireType = {"bool", "i08", "i16", "i32", "i64", "double", "string", "struct", "map", "list", "set"}
BY DEF WireType, MinWireSize, Kind, FixedSize

LEMMA NumWhole ==
    ASSUME NEW W, Grammar(W), NEW wt \in WireType, wt \in DOMAIN FixedSize, NEW v \in Int
    PROVE  <<Num(FixedSize[wt], v)>> \in W.value[wt]
<1>1. SimpleRule(W)
  BY DEF Grammar
<1> QED
  BY <1>1, Zenon DEF SimpleRule

LEMMA StrWhole ==
    ASSUME NEW W, Grammar(W), NEW v \in Seq(STRING) \cup {None}
    PROVE  <<Bytes32(v)>> \in W.value["string"]
<1>1. SimpleRule(W)
  BY DEF Grammar
<1>2. \A s \in Seq(STRING) : <<Str(s)>> \in W.value["string"]
  BY <1>1, Zenon DEF SimpleRule
<1>3. (IF v = None THEN <<>> ELSE v) \in Seq(STRING)
  <2>1. <<>> \in Seq(STRING)
    BY EmptySeq
  <2> QED
    BY <2>1
<1> QED
  BY <1>2, <1>3 DEF Bytes32

LEMMA Int32Typed == ASSUME NEW v \in Int PROVE Int32(v) \in Int
<1>1. 2 * Half32 \in Nat \ {0} /\ v + Half32 \in Int /\ Half32 \in Int
  BY Half32Assumption
<1> DEFINE a == v + Half32
           b == 2 * Half32
<1>2. \A x \in Int, y \in Nat \ {0} : x % y \in 0..(y - 1)
  OBVIOUS
<1> HIDE DEF a, b
<1>3. a % b \in Int
  <2>1. a % b \in 0..(b - 1) /\ b - 1 \in Int
    BY <1>1, <1>2 DEF a, b
  <2> QED
    BY <2>1
<1>4. Int32(v) = (a % b) - Half32
  BY DEF Int32, a, b
<1> QED
  BY <1>1, <1>3, <1>4

LEMMA SimpleValue ==
    ASSUME NEW type \in DOMAIN Value, IsSimple(type), NEW v \in Value[type], ~(type.ptr /\ v = None)
    PROVE  /\ IsFixed(type) => v \in Int /\ type.t \in DOMAIN FixedSize
           /\ ~IsFixed(type) => type.t = "string" /\ v \in Seq(STRING) \cup {None}
<1>1. v = None => type.ptr \/ ~IsFixed(type)
  BY ValueAssumption, Zenon
<1>2. v # None => (IsFixed(type) => v \in Int) /\ (type.t = "string" => v \in Seq(STRING))
  BY ValueAssumption, Zenon
<1> QED
  BY <1>1, <1>2 DEF IsFixed, IsSimple

\* The token that WriteSimple emits.
Token(type, v, fn) == IF fn = "Any" THEN Simple(type.t, v) ELSE Fast(fn, v)

LEMMA TokenWhole ==
    ASSUME NEW W, Grammar(W), NEW type \in DOMAIN Value, IsSimple(type),
           NEW v \in Value[type], ~(type.ptr /\ v = None), NEW fn \in {"Any", Class(type.t)}
    PROVE  <<Token(type, v, fn)>> \in W.value[WT(type)]
<1> DEFINE t == type.t
<1>1. CASE t = "string"
  <2>1. v \in Seq(STRING) \cup {None}
    BY <1>1, SimpleValue, FixedWidth DEF IsFixed
  <2>2. Simple(t, v) = Bytes32(v)
    BY <1>1 DEF Simple
  <2>3. Class(t) = "STRING"
    BY <1>1 DEF Class
  <2>4. Fast("STRING", v) = Bytes32(v)
    BY DEF Fast, AppendString
  <2>5. Token(type, v, fn) = Bytes32(v) /\ WT(type) = "string"
    BY <1>1, <2>2, <2>3, <2>4 DEF Token, WT
  <2> QED
    BY <2>1, <2>5, StrWhole
<1>2. CASE t # "string"
  <2>1. v \in Int /\ t \in {"bool", "i08", "i16", "i32", "i64", "double", "enum"}
    BY <1>2, SimpleValue, FixedWidth DEF IsSimple, IsFixed
  <2>2. Int32(v) \in Int
    BY <2>1, Int32Typed
  <2>3. CASE t = "bool"
    <3>1. Simple(t, v) = Num(1, v)
      BY <2>3 DEF Simple
    <3>2. Class(t) = "BOOL"
      BY <2>3 DEF Class
    <3>3. Fast("BOOL", v) = Num(1, IF v = 0 THEN 0 ELSE 1)
      BY DEF Fast, AppendBool
    <3>4. WT(type) = "bool" /\ \A x \in Int : <<Num(1, x)>> \in W.value["bool"]
      BY <2>3, NumWhole, WireTypes, FixedWidth DEF WT
    <3> QED
      BY <2>1, <3>1, <3>2, <3>3, <3>4 DEF Token
  <2>4. CASE t = "i08"
    <3>1. Simple(t, v) = Num(1, v) /\ Class(t) = "I08" /\ Fast("I08", v) = Num(1, v)
      BY <2>4 DEF Simple, Class, Fast, AppendI08
    <3>2. WT(type) = "i08" /\ \A x \in Int : <<Num(1, x)>> \in W.value["i08"]
      BY <2>4, NumWhole, WireTypes, FixedWidth DEF WT
    <3> QED
      BY <2>1, <3>1, <3>2 DEF Token
  <2>5. CASE t = "i16"
    <3>1. Simple(t, v) = Num(2, v) /\ Class(t) = "I16" /\ Fast("I16", v) = Num(2, v)
      BY <2>5 DEF Simple, Class, Fast, AppendI16
    <3>2. WT(type) = "i16" /\ \A x \in Int : <<Num(2, x)>> \in W.value["i16"]
      BY <2>5, NumWhole, WireTypes, FixedWidth DEF WT
    <3> QED
      BY <2>1, <3>1, <3>2 DEF Token
  <2>6. CASE t = "i32"
    <3>1. Simple(t, v) = Num(4, v) /\ Class(t) = "I32" /\ Fast("I32", v) = Num(4, v)
      BY <2>6 DEF Simple, Class, Fast, AppendI32
    <3>2. WT(type) = "i32" /\ \A x \in Int : <<Num(4, x)>> \in W.value["i32"]
      BY <2>6, NumWhole, WireTypes, FixedWidth DEF WT
    <3> QED
      BY <2>1, <3>1, <3>2 DEF Token
  <2>7. CASE t \in {"i64", "double"}
    <3>1. Simple(t, v) = Num(8, v) /\ Class(t) = "I64" /\ Fast("I64", v) = Num(8, v)
      BY <2>7 DEF Simple, Class, Fast, AppendI64
    <3>2. WT(type) = t /\ \A x \in Int : <<Num(8, x)>> \in W.value[t]
      BY <2>7, NumWhole, WireTypes, FixedWidth DEF WT
    <3> QED
      BY <2>1, <3>1, <3>2 DEF Token
  <2>8. CASE t = "enum"
    <3>1. Simple(t, v) = Num(4, Int32(v)) /\ Class(t) = "ENUM" /\ Fast("ENUM", v) = Num(4, Int32(v))
      BY <2>8 DEF Simple, Class, Fast, AppendEnum
    <3>2. WT(type) = "i32" /\ \A x \in Int : <<Num(4, x)>> \in W.value["i32"]
      BY <2>8, NumWhole, WireTypes, FixedWidth DEF WT
    <3> QED
      BY <2>1, <2>2, <3>1, <3>2 DEF Token
  <2> QED
    BY <2>1, <2>3, <2>4, <2>5, <2>6, <2>7, <2>8
<1> QED
  BY <1>1, <1>2

-----------------------------------------------------------------------------
\* The bytes o are cut as the stack st says, and the frame on top has written s of them.
Cut(W, st, o, s) ==
    \E pre, seg \in [1..Len(st) -> Seq(W.token)] : Split(W, st, o, pre, seg) /\ seg[Len(st)] = s

LEMMA CutSeq ==
    ASSUME NEW W, NEW st, Len(st) \in Nat \ {0}, NEW o, NEW s, Cut(W, st, o, s)
    PROVE  o \in Seq(W.token) /\ s \in Seq(W.token)
<1>1. PICK pre \in [1..Len(st) -> Seq(W.token)], seg \in [1..Len(st) -> Seq(W.token)] :
          Split(W, st, o, pre, seg) /\ seg[Len(st)] = s
  BY DEF Cut
<1>2. o = pre[Len(st)] \o s
  BY <1>1 DEF Split
<1>3. Len(st) \in 1..Len(st)
  OBVIOUS
<1>4. pre[Len(st)] \in Seq(W.token) /\ s \in Seq(W.token)
  BY <1>1, <1>3
<1> HIDE <1>1
<1>5. pre[Len(st)] \o s \in Seq(W.token)
  BY <1>4, ConcatProperties
<1> QED
  BY <1>2, <1>4, <1>5

\* Concatenation, for the provers a function like any other.
TokSeq(W) == Seq(W.token)
Cat(a, b) == a \o b

LEMMA Regroup ==
    ASSUME NEW W, NEW a \in TokSeq(W), NEW b \in TokSeq(W), NEW c \in TokSeq(W)
    PROVE  Cat(Cat(a, b), c) = Cat(a, Cat(b, c)) /\ Cat(a, b) \in TokSeq(W)
<1> DEFINE S == W.token
<1>1. a \in Seq(S) /\ b \in Seq(S) /\ c \in Seq(S)
  BY DEF TokSeq
<1> HIDE DEF S
<1>2. (a \o b) \o c = a \o (b \o c)
  BY <1>1, ConcatAssociative
<1>3. a \o b \in Seq(S)
  BY <1>1, ConcatProperties
<1> QED
  BY <1>2, <1>3 DEF TokSeq, Cat, S

\* The frame on top goes on writing, and may become another one that is to be the same.
LEMMA CutMore ==
    ASSUME NEW W, NEW st, Len(st) \in Nat \ {0}, NEW o, NEW s, Cut(W, st, o, s),
           NEW t, Len(t) = Len(st), \A k \in 1..(Len(st) - 1) : t[k] = st[k],
           Yields(t[Len(st)]) = Yields(st[Len(st)]), NEW x \in Seq(W.token)
    PROVE  Cut(W, t, o \o x, s \o x)
<1> DEFINE n == Len(st)
           T == Seq(W.token)
<1>1. PICK pre \in [1..n -> T], seg \in [1..n -> T] : Split(W, st, o, pre, seg) /\ seg[n] = s
  BY DEF Cut
<1>2. /\ pre[1] = <<>> /\ o = pre[n] \o s
      /\ \A k \in 1..(n - 1) : /\ pre[k + 1] = pre[k] \o seg[k]
                               /\ \E wt \in Yields(st[k + 1]) : Awaits(W, st[k], wt, seg[k])
  BY <1>1 DEF Split
<1>3. o \in T /\ s \in T /\ pre[n] \in T
  BY CutSeq, <1>1
<1> DEFINE seg2 == [seg EXCEPT ![n] = s \o x]
<1>4. s \o x \in T /\ o \o x = pre[n] \o (s \o x)
  <2>1. s \o x \in T
    BY <1>3, ConcatProperties
  <2>2. pre[n] \in TokSeq(W) /\ s \in TokSeq(W) /\ x \in TokSeq(W)
    BY <1>3 DEF TokSeq
  <2>3. (pre[n] \o s) \o x = pre[n] \o (s \o x)
    <3>1. Cat(Cat(pre[n], s), x) = Cat(pre[n], Cat(s, x))
      BY <2>2, Regroup
    <3> QED
      BY <3>1 DEF Cat
  <2> QED
    BY <1>2, <2>1, <2>3
<1>5. /\ seg2 \in [1..n -> T] /\ seg2[n] = s \o x
      /\ \A k \in 1..(n - 1) : seg2[k] = seg[k]
  BY <1>4
<1> HIDE DEF seg2
<1>6. \A k \in 1..(n - 1) : /\ pre[k + 1] = pre[k] \o seg2[k]
                            /\ \E wt \in Yields(t[k + 1]) : Awaits(W, t[k], wt, seg2[k])
  <2> TAKE k \in 1..(n - 1)
  <2>1. seg2[k] = seg[k] /\ t[k] = st[k] /\ pre[k + 1] = pre[k] \o seg[k]
    BY <1>2, <1>5
  <2>2. Yields(t[k + 1]) = Yields(st[k + 1])
    <3>1. k + 1 = n \/ k + 1 \in 1..(n - 1)
      OBVIOUS
    <3> QED
      BY <3>1
  <2>3. \E wt \in Yields(st[k + 1]) : Awaits(W, st[k], wt, seg[k])
    BY <1>2
  <2> QED
    BY <2>1, <2>2, <2>3
<1>7. Split(W, t, o \o x, pre, seg2)
  BY <1>1, <1>2, <1>4, <1>5, <1>6 DEF Split
<1>8. pre \in [1..Len(t) -> T] /\ seg2 \in [1..Len(t) -> T] /\ seg2[Len(t)] = s \o x
  BY <1>1, <1>5
<1> QED
  BY <1>7, <1>8 DEF Cut

LEMMA CutSame ==
    ASSUME NEW W, NEW st, Len(st) \in Nat \ {0}, NEW o, NEW s, Cut(W, st, o, s),
           NEW t, Len(t) = Len(st), \A k \in 1..(Len(st) - 1) : t[k] = st[k],
           Yields(t[Len(st)]) = Yields(st[Len(st)])
    PROVE  Cut(W, t, o, s)
<1>1. o \in Seq(W.token) /\ s \in Seq(W.token)
  BY CutSeq
<1>2. <<>> \in Seq(W.token) /\ o \o <<>> = o /\ s \o <<>> = s
  BY <1>1, EmptySeq, ConcatEmptySeq
<1>3. Cut(W, t, o \o <<>>, s \o <<>>)
  BY <1>2, CutMore
<1> QED
  BY <1>2, <1>3

\* A frame is pushed for what the top lacks.
LEMMA CutPush ==
    ASSUME NEW W, NEW st, Len(st) \in Nat \ {0}, NEW o, NEW s, Cut(W, st, o, s),
           NEW t, Len(t) = Len(st) + 1, \A k \in 1..Len(st) : t[k] = st[k],
           NEW wt \in Yields(t[Len(st) + 1]), Awaits(W, st[Len(st)], wt, s), NEW x \in Seq(W.token)
    PROVE  Cut(W, t, o \o x, x)
<1> DEFINE n == Len(st)
           T == Seq(W.token)
<1>1. PICK pre \in [1..n -> T], seg \in [1..n -> T] : Split(W, st, o, pre, seg) /\ seg[n] = s
  BY DEF Cut
<1>2. /\ pre[1] = <<>> /\ o = pre[n] \o s
      /\ \A k \in 1..(n - 1) : /\ pre[k + 1] = pre[k] \o seg[k]
                               /\ \E w \in Yields(st[k + 1]) : Awaits(W, st[k], w, seg[k])
  BY <1>1 DEF Split
<1>3. o \in T
  BY CutSeq
<1> DEFINE pre2 == [k \in 1..(n + 1) |-> IF k = n + 1 THEN o ELSE pre[k]]
           seg2 == [k \in 1..(n + 1) |-> IF k = n + 1 THEN x ELSE seg[k]]
<1>4. \A k \in 1..(n + 1) : k # n + 1 => k \in 1..n
  OBVIOUS
<1>5. /\ pre2 \in [1..(n + 1) -> T] /\ seg2 \in [1..(n + 1) -> T]
      /\ pre2[n + 1] = o /\ seg2[n + 1] = x
      /\ \A k \in 1..n : pre2[k] = pre[k] /\ seg2[k] = seg[k]
  BY <1>1, <1>3, <1>4
<1> HIDE DEF pre2, seg2
<1>6. \A k \in 1..n : /\ pre2[k + 1] = pre2[k] \o seg2[k]
                      /\ \E w \in Yields(t[k + 1]) : Awaits(W, t[k], w, seg2[k])
  <2> TAKE k \in 1..n
  <2>1. CASE k = n
    <3>1. t[n] = st[n] /\ seg2[n] = s /\ pre2[n] = pre[n] /\ pre2[n + 1] = o
      BY <1>1, <1>5
    <3>2. Awaits(W, t[n], wt, seg2[n])
      BY <3>1
    <3> QED
      BY <1>2, <2>1, <3>1, <3>2
  <2>2. CASE k # n
    <3>1. k \in 1..(n - 1) /\ k + 1 \in 1..n
      BY <2>2
    <3>2. t[k] = st[k] /\ t[k + 1] = st[k + 1]
      BY <3>1
    <3>3. seg2[k] = seg[k] /\ pre2[k] = pre[k] /\ pre2[k + 1] = pre[k + 1]
      BY <1>5, <3>1
    <3> QED
      BY <1>2, <3>1, <3>2, <3>3
  <2> QED
    BY <2>1, <2>2
<1>7. pre2[1] = <<>>
  BY <1>2, <1>5
<1>8. Len(t) = n + 1 /\ n + 1 - 1 = n
  OBVIOUS
<1>9. Split(W, t, o \o x, pre2, seg2)
  BY <1>5, <1>6, <1>7, <1>8 DEF Split
<1> QED
  BY <1>5, <1>8, <1>9 DEF Cut

\* The top is what it was to be, and the one below has what it lacked.
LEMMA CutPop ==
    ASSUME NEW W, NEW st, Len(st) \in Nat \ {0, 1}, NEW o, NEW s, Cut(W, st, o, s),
           \A wt \in Yields(st[Len(st)]) : s \in W.value[wt],
           NEW t, Len(t) = Len(st) - 1, \A k \in 1..(Len(st) - 1) : t[k] = st[k]
    PROVE  \E p \in Seq(W.token) : Cut(W, t, o, p) /\ IsPart(W, t[Len(t)], p)
<1> DEFINE n == Len(st)
           m == n - 1
           T == Seq(W.token)
<1>1. PICK pre \in [1..n -> T], seg \in [1..n -> T] : Split(W, st, o, pre, seg) /\ seg[n] = s
  BY DEF Cut
<1>2. /\ pre[1] = <<>> /\ o = pre[n] \o s
      /\ \A k \in 1..(n - 1) : /\ pre[k + 1] = pre[k] \o seg[k]
                               /\ \E w \in Yields(st[k + 1]) : Awaits(W, st[k], w, seg[k])
  BY <1>1 DEF Split
<1>3. o \in T /\ s \in T
  BY CutSeq
<1>4. m \in 1..(n - 1) /\ m + 1 = n /\ m \in Nat \ {0} /\ \A k \in 1..m : k \in 1..n
  OBVIOUS
<1> HIDE DEF m
<1>5. pre[n] = pre[m] \o seg[m] /\ \E w \in Yields(st[n]) : Awaits(W, st[m], w, seg[m])
  BY <1>2, <1>4
<1>6. PICK w \in Yields(st[n]) : Awaits(W, st[m], w, seg[m])
  BY <1>5
<1> DEFINE p == seg[m] \o s
<1>7. pre[m] \in T /\ seg[m] \in T
  <2>1. m \in 1..n
    BY <1>4
  <2> QED
    BY <1>1, <2>1
<1>8. p \in T /\ o = pre[m] \o p
  <2>1. p \in T
    BY <1>3, <1>7, ConcatProperties
  <2>2. pre[m] \in TokSeq(W) /\ seg[m] \in TokSeq(W) /\ s \in TokSeq(W)
    BY <1>3, <1>7 DEF TokSeq
  <2>3. (pre[m] \o seg[m]) \o s = pre[m] \o (seg[m] \o s)
    <3>1. Cat(Cat(pre[m], seg[m]), s) = Cat(pre[m], Cat(seg[m], s))
      BY <2>2, Regroup
    <3> QED
      BY <3>1 DEF Cat
  <2> QED
    BY <1>2, <1>5, <2>1, <2>3
<1>9. IsPart(W, st[m], p)
  BY <1>6 DEF Awaits
<1> HIDE DEF p
<1> DEFINE pre2 == [k \in 1..m |-> pre[k]]
           seg2 == [k \in 1..m |-> IF k = m THEN p ELSE seg[k]]
<1>10. /\ pre2 \in [1..m -> T] /\ seg2 \in [1..m -> T] /\ seg2[m] = p
       /\ \A k \in 1..m : pre2[k] = pre[k] /\ (k # m => seg2[k] = seg[k])
  <2>1. \A k \in 1..m : k \in 1..n
    BY <1>4
  <2>2. \A k \in 1..m : pre[k] \in T /\ seg[k] \in T
    BY <1>1, <2>1
  <2> QED
    BY <1>4, <1>8, <2>2
<1> HIDE DEF pre2, seg2
<1>11. \A k \in 1..(m - 1) : /\ pre2[k + 1] = pre2[k] \o seg2[k]
                             /\ \E v \in Yields(t[k + 1]) : Awaits(W, t[k], v, seg2[k])
  <2> TAKE k \in 1..(m - 1)
  <2>1. k \in 1..m /\ k # m /\ k + 1 \in 1..m /\ k \in 1..(n - 1) /\ k + 1 \in 1..(n - 1)
    BY <1>4
  <2>2. t[k] = st[k] /\ t[k + 1] = st[k + 1]
    BY <2>1
  <2>3. pre2[k] = pre[k] /\ pre2[k + 1] = pre[k + 1] /\ seg2[k] = seg[k]
    BY <1>10, <2>1
  <2> QED
    BY <1>2, <2>1, <2>2, <2>3
<1>12. pre2[1] = <<>> /\ pre2[m] = pre[m] /\ t[m] = st[m] /\ Len(t) = m
  BY <1>2, <1>4, <1>10 DEF m
<1>13. Split(W, t, o, pre2, seg2)
  BY <1>8, <1>10, <1>11, <1>12 DEF Split
<1>14. Cut(W, t, o, p)
  BY <1>10, <1>12, <1>13 DEF Cut
<1> QED
  BY <1>8, <1>9, <1>12, <1>14

\* The object's own frame has written everything.
LEMMA CutBottom ==
    ASSUME NEW W, NEW st, Len(st) = 1, NEW o, NEW s, Cut(W, st, o, s)
    PROVE  o = s
<1>1. PICK pre \in [1..1 -> Seq(W.token)], seg \in [1..1 -> Seq(W.token)] :
          Split(W, st, o, pre, seg) /\ seg[1] = s
  BY DEF Cut
<1>2. o = <<>> \o s
  BY <1>1 DEF Split
<1>3. s \in Seq(W.token)
  <2>1. Len(st) \in Nat \ {0}
    OBVIOUS
  <2> QED
    BY <2>1, CutSeq
<1> QED
  BY <1>2, <1>3, ConcatEmptySeq

\* The object's own frame is pushed.
LEMMA CutFirst ==
    ASSUME NEW W, NEW f PROVE Cut(W, <<f>>, <<>>, <<>>)
<1> DEFINE st == <<f>>
           e == [k \in 1..1 |-> <<>>]
<1>1. <<>> \in Seq(W.token) /\ <<>> \o <<>> = <<>> /\ Len(st) = 1
  BY EmptySeq, ConcatEmptySeq
<1> HIDE DEF st
<1>2. e \in [1..Len(st) -> Seq(W.token)] /\ e[1] = <<>>
  BY <1>1
<1> HIDE DEF e
<1>3. 1..(Len(st) - 1) = {}
  BY <1>1
<1>4. Split(W, st, <<>>, e, e)
  BY <1>1, <1>2, <1>3 DEF Split
<1>5. Cut(W, st, <<>>, <<>>)
  BY <1>1, <1>2, <1>4 DEF Cut
<1> QED
  BY <1>5 DEF st

-----------------------------------------------------------------------------
(***************************************************************************)
(* The cut in a step.                                                      *)
(***************************************************************************)
Open(W) ==
    \E s \in Seq(W.token) :
        /\ Cut(W, stack, out, s)
        /\ IF pc = "write" THEN Awaits(W, Passed(Top), WT(Due(Top)), s) ELSE IsPart(W, Top, s)

LEMMA TopSwapped ==
    ASSUME Typed, pc \in {"next", "write"}, NEW W, NEW s, Cut(W, stack, out, s),
           NEW f, Yields(f) = Yields(Top), NEW x \in Seq(W.token)
    PROVE  LET t == Append(Rest, f)
           IN  /\ Cut(W, t, out, s) /\ Cut(W, t, out \o x, s \o x)
               /\ IsSeq(t) /\ Len(t) = Len(stack) /\ Len(t) \in Nat \ {0} /\ t[Len(t)] = f
               /\ out \in Seq(W.token) /\ s \in Seq(W.token)
<1> DEFINE t == Append(Rest, f)
<1>1. IsSeq(stack) /\ stack # <<>> /\ Len(stack) \in Nat \ {0}
  BY StackTyped DEF StackOK
<1>2. IsSeq(t) /\ Len(t) = Len(stack) /\ \A k \in 1..Len(stack) : t[k] = IF k = Len(stack) THEN f ELSE stack[k]
  BY <1>1, ReplaceTopSeq DEF Rest
<1> HIDE DEF t
<1>3. /\ Len(t) = Len(stack) /\ t[Len(stack)] = f
      /\ \A k \in 1..(Len(stack) - 1) : t[k] = stack[k]
  <2>1. Len(stack) \in 1..Len(stack) /\ \A k \in 1..(Len(stack) - 1) : k \in 1..Len(stack) /\ k # Len(stack)
    BY <1>1
  <2> QED
    BY <1>2, <2>1
<1>4. Yields(t[Len(stack)]) = Yields(stack[Len(stack)])
  BY <1>3 DEF Top
<1>5. Cut(W, t, out, s)
  BY <1>1, <1>3, <1>4, CutSame
<1>6. Cut(W, t, out \o x, s \o x)
  BY <1>1, <1>3, <1>4, CutMore
<1>7. out \in Seq(W.token) /\ s \in Seq(W.token)
  BY <1>1, CutSeq
<1> QED
  BY <1>1, <1>2, <1>3, <1>5, <1>6, <1>7 DEF t

LEMMA PassedYields ==
    ASSUME Typed, pc = "write" PROVE FrameOK(Top) /\ Ready(Top) /\ Yields(Passed(Top)) = Yields(Top)
<1>1. FrameOK(Top) /\ Ready(Top)
  BY StackTyped DEF Typed, Writing
<1>2. Passed(Top).kind = Top.kind
  BY <1>1, PassedTyped
<1> QED
  BY <1>1, <1>2 DEF Yields

\* A value is written that is over at once.
LEMMA Filled ==
    ASSUME Typed, pc = "write", NEW W, Grammar(W), Open(W),
           NEW v \in W.value[WT(Due(Top))], WT(Due(Top)) \in WireType,
           out' = out \o v, Pass, pc' = "next"
    PROVE  Open(W)'
<1>1. PICK s \in Seq(W.token) : Cut(W, stack, out, s) /\ Awaits(W, Passed(Top), WT(Due(Top)), s)
  BY DEF Open
<1>2. v \in Seq(W.token)
  BY ValueSeq
<1> DEFINE t == Append(Rest, Passed(Top))
<1>3. /\ Cut(W, t, out \o v, s \o v) /\ Len(t) \in Nat \ {0} /\ t[Len(t)] = Passed(Top)
  BY <1>1, <1>2, PassedYields, TopSwapped
<1>4. stack' = t
  BY DEF Pass
<1> HIDE DEF t
<1>5. IsPart(W, t[Len(t)], s \o v)
  BY <1>1, <1>3 DEF Awaits
<1>6. s \o v \in Seq(W.token)
  BY <1>3, CutSeq
<1>7. Cut(W, stack', out', s \o v) /\ IsPart(W, stack'[Len(stack')], s \o v)
  BY <1>3, <1>4, <1>5
<1> QED
  BY <1>6, <1>7 DEF Open, Top

\* The value that is due is begun, in a frame of its own.
LEMMA Pushed ==
    ASSUME Typed, pc = "write", NEW W, Open(W), NEW f, WT(Due(Top)) \in Yields(f),
           NEW x \in Seq(W.token), IsPart(W, f, x), out' = out \o x, PassTo(f), pc' = "next"
    PROVE  Open(W)'
<1>1. PICK s \in Seq(W.token) : Cut(W, stack, out, s) /\ Awaits(W, Passed(Top), WT(Due(Top)), s)
  BY DEF Open
<1> DEFINE t == Append(Rest, Passed(Top))
           u == Append(t, f)
<1>2. Cut(W, t, out, s) /\ IsSeq(t) /\ Len(t) \in Nat \ {0} /\ t[Len(t)] = Passed(Top)
  BY <1>1, PassedYields, TopSwapped
<1>3. stack' = u
  BY DEF PassTo
<1> HIDE DEF t
<1>4. Len(u) = Len(t) + 1 /\ u[Len(t) + 1] = f /\ \A k \in 1..Len(t) : u[k] = t[k]
  BY <1>2, PushSeq
<1> HIDE DEF u
<1>5. Awaits(W, t[Len(t)], WT(Due(Top)), s) /\ WT(Due(Top)) \in Yields(u[Len(t) + 1])
  BY <1>1, <1>2, <1>4
<1>6. Cut(W, u, out \o x, x)
  BY <1>2, <1>4, <1>5, CutPush
<1>7. Cut(W, stack', out', x) /\ IsPart(W, stack'[Len(stack')], x)
  BY <1>3, <1>4, <1>6
<1> QED
  BY <1>7 DEF Open, Top

\* The frame on top is done.
LEMMA Popped ==
    ASSUME Typed, pc = "next", NEW W, NEW s, Cut(W, stack, out, s), NEW x \in Seq(W.token),
           \A wt \in Yields(Top) : s \o x \in W.value[wt], stack' = Rest, out' = out \o x
    PROVE  /\ Rest = <<>> => out' = s \o x
           /\ Rest # <<>> /\ pc' = "next" => Open(W)'
<1>1. IsSeq(stack) /\ stack # <<>> /\ Len(stack) \in Nat \ {0}
  BY StackTyped DEF StackOK
<1>2. /\ IsSeq(Rest) /\ Len(Rest) = Len(stack) - 1
      /\ \A k \in 1..(Len(stack) - 1) : Rest[k] = stack[k]
  BY <1>1, PopSeq DEF Rest
<1>3. Cut(W, stack, out \o x, s \o x)
  BY <1>1, CutMore
<1>4. ASSUME Rest = <<>> PROVE out' = s \o x
  <2>1. Len(stack) = 1
    BY <1>1, <1>2, <1>4, EmptySeq
  <2> QED
    BY <1>3, <2>1, CutBottom
<1>5. ASSUME Rest # <<>>, pc' = "next" PROVE Open(W)'
  <2>1. Len(stack) \in Nat \ {0, 1}
    BY <1>1, <1>2, <1>5, EmptySeq DEF IsSeq
  <2>2. \A wt \in Yields(stack[Len(stack)]) : s \o x \in W.value[wt]
    BY DEF Top
  <2>3. PICK p \in Seq(W.token) : Cut(W, Rest, out \o x, p) /\ IsPart(W, Rest[Len(Rest)], p)
    BY <1>2, <1>3, <2>1, <2>2, CutPop
  <2>4. Cut(W, stack', out', p) /\ IsPart(W, stack'[Len(stack')], p)
    BY <2>3
  <2> QED
    BY <1>5, <2>4 DEF Open, Top
<1> QED
  BY <1>4, <1>5

-----------------------------------------------------------------------------
(***************************************************************************)
(* Every step keeps to the grammar.                                        *)
(***************************************************************************)
\* What a struct keeps of fields it does not know, where it keeps them, are fields.
UnknownFieldsWhole ==
    \A s \in DOMAIN StructDesc : \A v \in Value[Pointer(Struct(s))] \ {None} :
        StructDesc[s].unknown => WholeFields(v.u)

LEMMA MoreWritten ==
    ASSUME Typed, pc \in {"next", "write"}, NEW W, NEW s, Cut(W, stack, out, s), NEW x \in Seq(W.token)
    PROVE  /\ Cut(W, stack, out \o x, s \o x)
           /\ out \in Seq(W.token) /\ s \in Seq(W.token) /\ s \o x \in Seq(W.token)
<1>1. Len(stack) \in Nat \ {0}
  BY StackTyped
<1>2. Cut(W, stack, out \o x, s \o x)
  BY <1>1, CutMore
<1>3. out \in Seq(W.token) /\ s \in Seq(W.token)
  BY <1>1, CutSeq
<1> QED
  BY <1>1, <1>2, <1>3, ConcatProperties

LEMMA FieldWhole ==
    ASSUME NEW W, Grammar(W), NEW wt \in WireType, NEW id \in Nat, NEW s \in W.fields
    PROVE  /\ <<Field(wt, id)>> \in Seq(W.token)
           /\ \A v \in W.value[wt] : (s \o <<Field(wt, id)>>) \o v \in W.fields
<1>1. FieldRule(W)
  BY DEF Grammar
<1>2. /\ Field(wt, id) \in W.token
      /\ \A v \in W.value[wt] : (s \o <<Field(wt, id)>>) \o v \in W.fields
  BY <1>1, Zenon DEF FieldRule
<1> DEFINE h == Field(wt, id)
<1>3. h \in W.token
  BY <1>2
<1> HIDE DEF h
<1>4. <<h>> \in Seq(W.token)
  BY <1>3, SingleSeq
<1> QED
  BY <1>2, <1>4 DEF h

LEMMA StructWhole ==
    ASSUME NEW W, Grammar(W), NEW s \in W.fields, NEW u \in W.fields
    PROVE  u \o <<Stop>> \in Seq(W.token) /\ s \o (u \o <<Stop>>) \in W.value["struct"]
<1>1. FieldRule(W) /\ StructRule(W)
  BY DEF Grammar
<1>2. s \o u \in W.fields
  BY <1>1, Zenon DEF FieldRule
<1>3. (s \o u) \o <<Stop>> \in W.value["struct"]
  BY <1>1, <1>2, Zenon DEF StructRule
<1> DEFINE stop == <<Stop>>
<1>4. stop \in Seq(W.token)
  <2>1. Stop \in W.token
    BY <1>1 DEF StructRule
  <2> DEFINE h == Stop
  <2> HIDE DEF h
  <2>2. <<h>> \in Seq(W.token)
    BY <2>1, SingleSeq DEF h
  <2> QED
    BY <2>2 DEF h
<1>5. s \in Seq(W.token) /\ u \in Seq(W.token)
  BY FieldsSeq
<1> HIDE DEF stop
<1>6. u \o stop \in Seq(W.token)
  BY <1>4, <1>5, ConcatProperties
<1>7. s \in TokSeq(W) /\ u \in TokSeq(W) /\ stop \in TokSeq(W)
  BY <1>4, <1>5 DEF TokSeq
<1>8. (s \o u) \o stop = s \o (u \o stop)
  <2>1. Cat(Cat(s, u), stop) = Cat(s, Cat(u, stop))
    BY <1>7, Regroup
  <2> QED
    BY <2>1 DEF Cat
<1> QED
  BY <1>3, <1>6, <1>8 DEF stop

LEMMA NoFields ==
    ASSUME NEW W, Grammar(W)
    PROVE  <<>> \in W.fields /\ <<Stop>> \in W.value["struct"]
<1>1. FieldRule(W) /\ StructRule(W)
  BY DEF Grammar
<1>2. <<>> \in W.fields
  BY <1>1 DEF FieldRule
<1>3. <<>> \o <<Stop>> \in W.value["struct"]
  BY <1>1, <1>2, Zenon DEF StructRule
<1>4. <<>> \o <<Stop>> = <<Stop>>
  OBVIOUS
<1> QED
  BY <1>2, <1>3, <1>4

LEMMA NextFieldCuts ==
    ASSUME Typed, NEW W, Grammar(W), Open(W), NextField
    PROVE  Open(W)'
<1> DEFINE id == NextId(Top)
           type == Fields(Top.sd)[id].type
           wt == WT(type)
<1>1. pc = "next" /\ Top.kind = "struct" /\ Top.todo # {}
  BY DEF NextField
<1>2. StructFrameOK(Top) /\ FrameOK(Top) /\ Ready(Top)
  BY <1>1, StackTyped, FrameKinds DEF Ready
<1>3. PICK s \in Seq(W.token) : Cut(W, stack, out, s) /\ IsPart(W, Top, s)
  BY <1>1 DEF Open
<1>4. s \in W.fields
  BY <1>1, <1>3 DEF IsPart
<1>5. Passed(Top).kind = "struct" /\ Yields(Passed(Top)) = Yields(Top)
  BY <1>1, <1>2, PassedTyped DEF Yields
<1>6. CASE Pass /\ UNCHANGED <<pc, out>>
  <2> DEFINE t == Append(Rest, Passed(Top))
  <2>1. <<>> \in Seq(W.token)
    BY EmptySeq
  <2>2. Cut(W, t, out, s) /\ t[Len(t)] = Passed(Top)
    BY <1>1, <1>3, <1>5, <2>1, TopSwapped
  <2>3. stack' = t
    BY <1>6 DEF Pass
  <2> HIDE DEF t
  <2>4. IsPart(W, t[Len(t)], s)
    BY <1>4, <1>5, <2>2 DEF IsPart
  <2>5. Cut(W, stack', out', s) /\ IsPart(W, stack'[Len(stack')], s)
    BY <1>6, <2>2, <2>3, <2>4
  <2> QED
    BY <1>1, <1>6, <2>5 DEF Open, Top
<1>7. CASE pc' = "write" /\ Emit(<<Field(wt, id)>>) /\ UNCHANGED stack
  <2>1. id \in Nat /\ type \in DOMAIN Value
    BY <1>1, <1>2, NextIdTyped, TypeAssumption
  <2>2. wt \in WireType /\ Due(Top) = type
    BY <1>1, <2>1, WireTyped DEF Due
  <2> DEFINE x == <<Field(wt, id)>>
  <2> HIDE DEF type, id, wt
  <2>3. x \in Seq(W.token) /\ \A v \in W.value[wt] : (s \o x) \o v \in W.fields
    BY <1>4, <2>1, <2>2, FieldWhole
  <2>4. out' = out \o x
    BY <1>7 DEF Emit
  <2> HIDE DEF x
  <2>5. Cut(W, stack, out \o x, s \o x) /\ s \o x \in Seq(W.token)
    BY <1>1, <1>3, <2>3, MoreWritten
  <2>6. Awaits(W, Passed(Top), wt, s \o x)
    BY <1>5, <2>3 DEF Awaits, IsPart
  <2>7. Awaits(W, Passed(Top), WT(Due(Top)), s \o x)
    BY <2>2, <2>6 DEF wt
  <2>8. Cut(W, stack', out', s \o x) /\ Awaits(W, Passed(stack'[Len(stack')]), WT(Due(stack'[Len(stack')])), s \o x)
    BY <1>7, <2>4, <2>5, <2>7 DEF Top
  <2> QED
    BY <1>7, <2>5, <2>8 DEF Open, Top
<1> QED
  BY <1>6, <1>7 DEF NextField

LEMMA StructEndCuts ==
    ASSUME UnknownFieldsWhole, Typed, NEW W, Grammar(W), Open(W), StructEnd
    PROVE  IF pc' = "end" THEN out' \in W.value["struct"] ELSE pc' = "next" /\ Open(W)'
<1> DEFINE val == IF Top.live THEN Given ELSE Top.val
           u == IF StructDesc[Top.sd].unknown THEN val.u ELSE <<>>
<1>1. /\ pc = "next" /\ Top.kind = "struct" /\ out' = out \o (u \o <<Stop>>)
      /\ stack' = Rest /\ pc' = IF Rest = <<>> THEN "end" ELSE "next"
  BY DEF StructEnd, Emit
<1>2. StructFrameOK(Top) /\ obj.val # None
  BY <1>1, StackTyped, FrameKinds
<1>3. val \in Value[Pointer(Struct(Top.sd))] \ {None} /\ Top.sd \in DOMAIN StructDesc
  <2>1. CASE Top.live
    <3>1. obj.val \in Value[Pointer(Struct(obj.sd))] /\ Top.sd = obj.sd /\ Given = obj.val
      BY <1>2, <2>1, GivenIsObject DEF Typed, Inv, TypeOK, StructFrameOK
    <3> QED
      BY <1>2, <2>1, <3>1 DEF StructFrameOK
  <2>2. CASE ~Top.live
    BY <1>2, <2>2 DEF StructFrameOK
  <2> QED
    BY <2>1, <2>2
<1>4. StructDesc[Top.sd].unknown => WholeFields(val.u)
  <2> HIDE DEF val
  <2> QED
    BY <1>3, Zenon DEF UnknownFieldsWhole
<1>5. u \in W.fields
  BY <1>4, NoFields DEF WholeFields
<1>6. PICK s \in Seq(W.token) : Cut(W, stack, out, s) /\ IsPart(W, Top, s)
  BY <1>1 DEF Open
<1>7. s \in W.fields
  BY <1>1, <1>6 DEF IsPart
<1> HIDE DEF u
<1> DEFINE x == u \o <<Stop>>
<1>8. x \in Seq(W.token) /\ s \o x \in W.value["struct"]
  BY <1>5, <1>7, StructWhole
<1>9. out' = out \o x
  BY <1>1
<1> HIDE DEF x
<1>10. Yields(Top) = {"struct"}
  BY <1>1 DEF Yields
<1>11. \A wt \in Yields(Top) : s \o x \in W.value[wt]
  BY <1>8, <1>10
<1>12. /\ Rest = <<>> => out' = s \o x
       /\ Rest # <<>> /\ pc' = "next" => Open(W)'
  BY <1>1, <1>6, <1>8, <1>9, <1>11, Popped
<1> QED
  BY <1>1, <1>8, <1>12

\* The last frame of a list or a map, with nothing more to be written.
LEMMA EndCuts ==
    ASSUME Typed, NEW W, pc = "next", Top.kind # "struct", NEW s, Cut(W, stack, out, s),
           \A wt \in Yields(Top) : s \in W.value[wt], stack' = Rest, UNCHANGED <<out, pc>>
    PROVE  Open(W)'
<1>1. <<>> \in Seq(W.token) /\ Len(stack) \in Nat \ {0}
  BY EmptySeq, StackTyped
<1>2. out \in Seq(W.token) /\ s \in Seq(W.token)
  BY <1>1, CutSeq
<1>3. out \o <<>> = out /\ s \o <<>> = s
  BY <1>2, ConcatEmptySeq
<1>4. Rest # <<>>
  BY Inside
<1>5. out' = out \o <<>> /\ \A wt \in Yields(Top) : s \o <<>> \in W.value[wt]
  BY <1>3
<1>6. Rest # <<>> /\ pc' = "next" => Open(W)'
  BY <1>1, <1>5, Popped
<1> QED
  BY <1>4, <1>6

LEMMA ListEndCuts ==
    ASSUME Typed, NEW W, Grammar(W), Open(W), ListEnd
    PROVE  Open(W)'
<1>1. /\ pc = "next" /\ Top.kind = "list" /\ Top.todo = <<>> /\ stack' = Rest /\ UNCHANGED <<out, pc>>
  BY DEF ListEnd
<1>2. ListFrameOK(Top)
  BY <1>1, StackTyped, FrameKinds
<1>3. PICK s \in Seq(W.token) : Cut(W, stack, out, s) /\ IsPart(W, Top, s)
  BY <1>1 DEF Open
<1> DEFINE wt == WT(Top.v)
<1>4. wt \in WireType
  BY <1>2, WireTyped DEF ListFrameOK
<1>5. Len(Top.todo) = 0
  BY <1>1, EmptySeq
<1>6. ListPart(W, Top, s)
  BY <1>1, <1>3 DEF IsPart
<1>7. PICK i \in Nat : \E e \in W.elems[<<wt, i>>] : s = <<ListHeader(wt, i + Len(Top.todo))>> \o e
  BY <1>6 DEF ListPart
<1>8. i + Len(Top.todo) = i
  BY <1>5
<1>9. PICK e \in W.elems[<<wt, i>>] : s = <<ListHeader(wt, i)>> \o e
  BY <1>7, <1>8
<1> HIDE DEF wt
<1>10. s \in W.value["list"] \cap W.value["set"]
  BY <1>4, <1>9, ElemsSeq
<1>11. \A w \in Yields(Top) : s \in W.value[w]
  BY <1>1, <1>10 DEF Yields
<1> QED
  BY <1>1, <1>3, <1>11, EndCuts

LEMMA ElementDue ==
    ASSUME NEW W, Grammar(W), NEW f, ListFrameOK(f), f.todo # <<>>, NEW s, ListPart(W, f, s)
    PROVE  Awaits(W, Passed(f), WT(Due(f)), s)
<1> DEFINE wt == WT(f.v)
           n == Len(f.todo)
<1>1. f.kind = "list" /\ f.v \in DOMAIN Value /\ f.todo \in Seq(Value[f.v])
  BY DEF ListFrameOK
<1>2. wt \in WireType /\ WT(Due(f)) = wt
  BY <1>1, WireTyped DEF Due
<1>3. n \in Nat \ {0} /\ Len(Tail(f.todo)) = n - 1
  BY <1>1, EmptySeq, HeadTailProperties
<1>4. Passed(f).kind = "list" /\ Passed(f).v = f.v /\ Passed(f).todo = Tail(f.todo)
  BY <1>1 DEF Passed, ListFrameOK
<1>5. PICK i \in Nat : \E e \in W.elems[<<wt, i>>] : s = <<ListHeader(wt, i + n)>> \o e
  BY DEF ListPart
<1>6. PICK e \in W.elems[<<wt, i>>] : s = <<ListHeader(wt, i + n)>> \o e
  BY <1>5
<1> HIDE DEF wt, n
<1>7. ASSUME NEW v \in W.value[wt] PROVE IsPart(W, Passed(f), s \o v)
  <2>1. /\ e \in Seq(W.token) /\ e \o v \in W.elems[<<wt, i + 1>>]
        /\ v \in Seq(W.token)
    BY <1>2, ElemsSeq, ValueSeq
  <2> DEFINE head == <<ListHeader(wt, i + n)>>
  <2>2. head \in Seq(W.token)
    <3>1. i + n \in Nat
      BY <1>3
    <3>2. ListRule(W)
      BY DEF Grammar
    <3>3. ListHeader(wt, i + n) \in W.token
      BY <1>2, <3>1, <3>2, Zenon DEF ListRule
    <3> DEFINE x == ListHeader(wt, i + n)
    <3> HIDE DEF x
    <3>4. <<x>> \in Seq(W.token)
      BY <3>3, SingleSeq DEF x
    <3> QED
      BY <3>4 DEF x
  <2>3. s = head \o e
    BY <1>6
  <2> HIDE DEF head
  <2>4. s \o v = head \o (e \o v)
    <3>1. head \in TokSeq(W) /\ e \in TokSeq(W) /\ v \in TokSeq(W)
      BY <2>1, <2>2 DEF TokSeq
    <3>2. (head \o e) \o v = head \o (e \o v)
      <4>1. Cat(Cat(head, e), v) = Cat(head, Cat(e, v))
        BY <3>1, Regroup
      <4> QED
        BY <4>1 DEF Cat
    <3> QED
      BY <2>3, <3>2
  <2>5. head = <<ListHeader(wt, (i + 1) + Len(Tail(f.todo)))>>
    <3> DEFINE m == Len(Tail(f.todo))
    <3>1. n \in Nat /\ m = n - 1
      BY <1>3
    <3> HIDE DEF m
    <3>2. i + n = (i + 1) + m
      BY <3>1
    <3> QED
      BY <3>2 DEF head, m
  <2>6. ListPart(W, Passed(f), s \o v)
    <3>1. i + 1 \in Nat
      OBVIOUS
    <3>2. \E e2 \in W.elems[<<wt, i + 1>>] : s \o v = <<ListHeader(wt, (i + 1) + Len(Tail(f.todo)))>> \o e2
      BY <2>1, <2>4, <2>5
    <3>3. \E j \in Nat : \E e2 \in W.elems[<<wt, j>>] : s \o v = <<ListHeader(wt, j + Len(Tail(f.todo)))>> \o e2
      BY <3>1, <3>2, Zenon
    <3> QED
      BY <1>4, <3>3, Zenon DEF ListPart, wt
  <2> QED
    BY <1>4, <2>6 DEF IsPart
<1> QED
  BY <1>2, <1>7 DEF Awaits

\* What the top is about to write was settled before.
LEMMA Readied ==
    ASSUME Typed, NEW W, pc = "next", NEW s, Cut(W, stack, out, s),
           Awaits(W, Passed(Top), WT(Due(Top)), s), pc' = "write", UNCHANGED <<stack, out>>
    PROVE  Open(W)'
<1>1. Len(stack) \in Nat \ {0}
  BY StackTyped
<1>2. s \in Seq(W.token)
  BY <1>1, CutSeq
<1>3. Cut(W, stack', out', s) /\ Awaits(W, Passed(stack'[Len(stack')]), WT(Due(stack'[Len(stack')])), s)
  BY DEF Top
<1> QED
  BY <1>2, <1>3 DEF Open, Top

LEMMA NextElementCuts ==
    ASSUME Typed, NEW W, Grammar(W), Open(W), NextElement
    PROVE  Open(W)'
<1>1. pc = "next" /\ Top.kind = "list" /\ Top.todo # <<>> /\ pc' = "write" /\ UNCHANGED <<stack, out>>
  BY DEF NextElement
<1>2. ListFrameOK(Top)
  BY <1>1, StackTyped, FrameKinds
<1>3. PICK s \in Seq(W.token) : Cut(W, stack, out, s) /\ IsPart(W, Top, s)
  BY <1>1 DEF Open
<1>4. ListPart(W, Top, s)
  BY <1>1, <1>3 DEF IsPart
<1>5. Awaits(W, Passed(Top), WT(Due(Top)), s)
  BY <1>1, <1>2, <1>4, ElementDue
<1> QED
  BY <1>1, <1>3, <1>5, Readied

LEMMA MapWire ==
    ASSUME NEW type \in DOMAIN Value, type.t = "map"
    PROVE  WT(type.k) \in WireType /\ WT(type.v) \in WireType
<1>1. type.k \in DOMAIN Value /\ type.v \in DOMAIN Value
  BY TypeAssumption
<1> QED
  BY <1>1, WireTyped

LEMMA MapHeaderSeq ==
    ASSUME NEW W, Grammar(W), NEW kt \in WireType, NEW vt \in WireType, NEW n \in Nat
    PROVE  <<MapHeader(kt, vt, n)>> \in Seq(W.token)
<1>1. MapRule(W)
  BY DEF Grammar
<1>2. MapHeader(kt, vt, n) \in W.token
  BY <1>1, Zenon DEF MapRule
<1> DEFINE h == MapHeader(kt, vt, n)
<1> HIDE DEF h
<1>3. <<h>> \in Seq(W.token)
  BY <1>2, SingleSeq DEF h
<1> QED
  BY <1>3 DEF h

\* A key is due when an entry is begun, which the header has counted.
LEMMA KeyDue ==
    ASSUME NEW W, Grammar(W), NEW type \in DOMAIN Value, type.t = "map", NEW n \in Int,
           NEW s, MapPart(W, type, n, s), NEW k \in W.value[WT(type.k)]
    PROVE  EntryPart(W, type, n - 1, s \o k)
<1> DEFINE kt == WT(type.k)
           vt == WT(type.v)
<1>1. kt \in WireType /\ vt \in WireType
  BY MapWire
<1>2. PICK i \in Nat : \E e \in W.entries[<<kt, vt, i>>] :
          i + n \in Nat /\ s = <<MapHeader(kt, vt, i + n)>> \o e
  BY DEF MapPart
<1>3. PICK e \in W.entries[<<kt, vt, i>>] : i + n \in Nat /\ s = <<MapHeader(kt, vt, i + n)>> \o e
  BY <1>2
<1>4. i + 1 + (n - 1) = i + n
  OBVIOUS
<1>5. i + 1 + (n - 1) \in Nat /\ s \o k = (<<MapHeader(kt, vt, i + 1 + (n - 1))>> \o e) \o k
  BY <1>3, <1>4
<1> QED
  BY <1>5 DEF EntryPart

\* And its value after the key.
LEMMA ValueDue ==
    ASSUME NEW W, Grammar(W), NEW type \in DOMAIN Value, type.t = "map", NEW n \in Int,
           NEW s, EntryPart(W, type, n, s), NEW v \in W.value[WT(type.v)]
    PROVE  MapPart(W, type, n, s \o v)
<1> DEFINE kt == WT(type.k)
           vt == WT(type.v)
<1>1. kt \in WireType /\ vt \in WireType
  BY MapWire
<1>2. PICK i \in Nat : \E e \in W.entries[<<kt, vt, i>>], k \in W.value[kt] :
          i + 1 + n \in Nat /\ s = (<<MapHeader(kt, vt, i + 1 + n)>> \o e) \o k
  BY DEF EntryPart
<1>3. PICK e \in W.entries[<<kt, vt, i>>], k \in W.value[kt] :
          i + 1 + n \in Nat /\ s = (<<MapHeader(kt, vt, i + 1 + n)>> \o e) \o k
  BY <1>2
<1> HIDE DEF kt, vt
<1>4. v \in W.value[vt]
  BY DEF vt
<1> DEFINE h == <<MapHeader(kt, vt, (i + 1) + n)>>
<1>5. h \in Seq(W.token) /\ s = (h \o e) \o k
  BY <1>1, <1>3, MapHeaderSeq
<1>6. /\ e \in Seq(W.token) /\ k \in Seq(W.token) /\ v \in Seq(W.token)
      /\ (e \o k) \o v \in W.entries[<<kt, vt, i + 1>>]
  BY <1>1, <1>3, <1>4, EntriesSeq, ValueSeq
<1> HIDE DEF h
<1>7. s \o v = h \o ((e \o k) \o v)
  <2>1. h \in TokSeq(W) /\ e \in TokSeq(W) /\ k \in TokSeq(W) /\ v \in TokSeq(W)
    BY <1>5, <1>6 DEF TokSeq
  <2>2. Cat(Cat(h, e), k) = Cat(h, Cat(e, k)) /\ Cat(e, k) \in TokSeq(W)
    BY <2>1, Regroup
  <2>3. Cat(Cat(h, Cat(e, k)), v) = Cat(h, Cat(Cat(e, k), v))
    BY <2>1, <2>2, Regroup
  <2> QED
    BY <1>5, <2>2, <2>3 DEF Cat
<1>8. i + 1 \in Nat /\ (i + 1) + n \in Nat
  BY <1>3
<1>9. \E e2 \in W.entries[<<kt, vt, i + 1>>] :
          (i + 1) + n \in Nat /\ s \o v = <<MapHeader(kt, vt, (i + 1) + n)>> \o e2
  BY <1>6, <1>7, <1>8 DEF h
<1>10. \E j \in Nat : \E e2 \in W.entries[<<kt, vt, j>>] :
          j + n \in Nat /\ s \o v = <<MapHeader(kt, vt, j + n)>> \o e2
  BY <1>8, <1>9, Zenon
<1> QED
  BY <1>10, Zenon DEF MapPart, kt, vt

LEMMA IterateCuts ==
    ASSUME Typed, NEW W, Grammar(W), Open(W), Iterate
    PROVE  Open(W)'
<1> DEFINE f == [Top EXCEPT !.at = "next", !.due = DOMAIN Entries(Top)]
           t == Append(Rest, f)
<1>1. /\ pc = "next" /\ pc' = "next" /\ Top.kind = "map" /\ Top.at = "start"
      /\ stack' = t /\ UNCHANGED out
  BY DEF Iterate
<1>2. MapFrameOK(Top)
  BY <1>1, StackTyped, FrameKinds
<1>3. PICK s \in Seq(W.token) : Cut(W, stack, out, s) /\ IsPart(W, Top, s)
  BY <1>1 DEF Open
<1>4. MapPart(W, Top.type, Top.n, s)
  BY <1>1, <1>3 DEF IsPart
<1>5. f.kind = "map" /\ f.at = "next" /\ f.type = Top.type /\ f.n = Top.n
  BY <1>1, <1>2 DEF MapFrameOK
<1> HIDE DEF f
<1>6. IsPart(W, f, s) /\ Yields(f) = Yields(Top)
  BY <1>1, <1>4, <1>5 DEF IsPart, Yields
<1>7. <<>> \in Seq(W.token)
  BY EmptySeq
<1>8. Cut(W, t, out, s) /\ t[Len(t)] = f
  BY <1>1, <1>3, <1>6, <1>7, TopSwapped
<1> HIDE DEF t
<1>9. Cut(W, stack', out', s) /\ IsPart(W, stack'[Len(stack')], s)
  BY <1>1, <1>6, <1>8
<1> QED
  BY <1>1, <1>9 DEF Open, Top

LEMMA NextEntryCuts ==
    ASSUME Typed, NEW W, Grammar(W), Open(W), NextEntry
    PROVE  Open(W)'
<1>1. pc = "next" /\ pc' = "write" /\ Top.kind = "map" /\ Top.at = "next" /\ UNCHANGED out
  BY DEF NextEntry
<1>2. PICK k \in DOMAIN Entries(Top) \ Top.seen :
          stack' = Append(Rest, [Top EXCEPT !.at = "key", !.k = k, !.v = Entries(Top)[k],
                                            !.seen = @ \cup {k}, !.n = @ - 1])
  BY DEF NextEntry
<1> DEFINE v == Entries(Top)[k]
           seen == Top.seen \cup {k}
           n == Top.n - 1
           f == [Top EXCEPT !.at = "key", !.k = k, !.v = v, !.seen = seen, !.n = n]
           t == Append(Rest, f)
<1>3. stack' = t
  BY <1>2
<1>4. MapFrameOK(Top)
  BY <1>1, StackTyped, FrameKinds
<1>5. PICK s \in Seq(W.token) : Cut(W, stack, out, s) /\ IsPart(W, Top, s)
  BY <1>1 DEF Open
<1>6. MapPart(W, Top.type, Top.n, s)
  BY <1>1, <1>5 DEF IsPart
<1> HIDE DEF v, seen, n
<1>7. f.kind = "map" /\ f.at = "key" /\ f.type = Top.type /\ f.n = n /\ DOMAIN f = DOMAIN Top
      /\ "at" \in DOMAIN Top
  BY <1>1, <1>4 DEF MapFrameOK
<1> HIDE DEF f
<1>8. Due(f) = Top.type.k /\ Yields(f) = Yields(Top)
  BY <1>1, <1>7 DEF Due, Yields
<1>9. Passed(f).kind = "map" /\ Passed(f).at = "value" /\ Passed(f).type = Top.type /\ Passed(f).n = n
  <2>1. Passed(f) = [f EXCEPT !.at = "value"]
    BY <1>7 DEF Passed
  <2> QED
    BY <1>7, <2>1
<1>10. Top.type \in DOMAIN Value /\ Top.type.t = "map" /\ Top.n \in Int
  BY <1>4 DEF MapFrameOK
<1>11. ASSUME NEW w \in W.value[WT(Due(f))] PROVE IsPart(W, Passed(f), s \o w)
  <2>1. EntryPart(W, Top.type, Top.n - 1, s \o w)
    BY <1>6, <1>8, <1>10, KeyDue
  <2>2. EntryPart(W, Passed(f).type, Passed(f).n, s \o w)
    BY <1>9, <2>1 DEF n
  <2> QED
    BY <1>9, <2>2 DEF IsPart
<1>12. Awaits(W, Passed(f), WT(Due(f)), s)
  BY <1>11 DEF Awaits
<1>13. <<>> \in Seq(W.token)
  BY EmptySeq
<1>14. Cut(W, t, out, s) /\ t[Len(t)] = f
  BY <1>1, <1>5, <1>8, <1>13, TopSwapped
<1> HIDE DEF t
<1>15. Cut(W, stack', out', s)
       /\ Awaits(W, Passed(stack'[Len(stack')]), WT(Due(stack'[Len(stack')])), s)
  BY <1>1, <1>3, <1>12, <1>14
<1> QED
  BY <1>1, <1>15 DEF Open, Top

LEMMA EntryValueCuts ==
    ASSUME Typed, NEW W, Grammar(W), Open(W), EntryValue
    PROVE  Open(W)'
<1>1. /\ pc = "next" /\ Top.kind = "map" /\ Top.at = "value" /\ pc' = "write"
      /\ UNCHANGED <<stack, out>>
  BY DEF EntryValue
<1>2. MapFrameOK(Top)
  BY <1>1, StackTyped, FrameKinds
<1>3. PICK s \in Seq(W.token) : Cut(W, stack, out, s) /\ IsPart(W, Top, s)
  BY <1>1 DEF Open
<1>4. EntryPart(W, Top.type, Top.n, s)
  BY <1>1, <1>3 DEF IsPart
<1>5. Top.type \in DOMAIN Value /\ Top.type.t = "map" /\ Top.n \in Int
  BY <1>2 DEF MapFrameOK
<1> DEFINE p == Passed(Top)
<1>6. p.kind = "map" /\ p.at = "next" /\ p.type = Top.type /\ p.n = Top.n
  <2>1. p = [Top EXCEPT !.at = "next"]
    BY <1>1 DEF Passed
  <2> QED
    BY <1>1, <1>2, <2>1 DEF MapFrameOK
<1>7. Due(Top) = Top.type.v
  BY <1>1 DEF Due
<1> HIDE DEF p
<1>8. ASSUME NEW w \in W.value[WT(Due(Top))] PROVE IsPart(W, p, s \o w)
  <2>1. MapPart(W, Top.type, Top.n, s \o w)
    BY <1>4, <1>5, <1>7, ValueDue
  <2>2. MapPart(W, p.type, p.n, s \o w)
    BY <1>6, <2>1
  <2> QED
    BY <1>6, <2>2 DEF IsPart
<1>9. Awaits(W, Passed(Top), WT(Due(Top)), s)
  BY <1>8 DEF Awaits, p
<1> QED
  BY <1>1, <1>3, <1>9, Readied

LEMMA MapEndCuts ==
    ASSUME Typed, NEW W, Grammar(W), Open(W), MapEnd
    PROVE  pc' = "failed" \/ (pc' = "next" /\ Open(W)')
<1>1. pc = "next" /\ Top.kind = "map" /\ Top.at = "next" /\ UNCHANGED out
  BY DEF MapEnd
<1>2. CASE Top.n = 0 /\ stack' = Rest /\ UNCHANGED pc
  <2>1. MapFrameOK(Top)
    BY <1>1, StackTyped, FrameKinds
  <2>2. PICK s \in Seq(W.token) : Cut(W, stack, out, s) /\ IsPart(W, Top, s)
    BY <1>1 DEF Open
  <2>3. MapPart(W, Top.type, 0, s)
    BY <1>1, <1>2, <2>2 DEF IsPart
  <2> DEFINE kt == WT(Top.type.k)
             vt == WT(Top.type.v)
  <2>4. kt \in WireType /\ vt \in WireType
    BY <2>1, MapWire DEF MapFrameOK
  <2>5. PICK i \in Nat : \E e \in W.entries[<<kt, vt, i>>] :
            i + 0 \in Nat /\ s = <<MapHeader(kt, vt, i + 0)>> \o e
    BY <2>3 DEF MapPart
  <2> HIDE DEF kt, vt
  <2>6. i + 0 = i
    OBVIOUS
  <2>7. PICK e \in W.entries[<<kt, vt, i>>] : s = <<MapHeader(kt, vt, i)>> \o e
    BY <2>5, <2>6
  <2>8. s \in W.value["map"]
    BY <2>4, <2>7, EntriesSeq
  <2>9. \A wt \in Yields(Top) : s \in W.value[wt]
    BY <1>1, <2>8 DEF Yields
  <2>10. Open(W)'
    BY <1>1, <1>2, <2>2, <2>9, EndCuts
  <2> QED
    BY <1>1, <1>2, <2>10
<1> QED
  BY <1>2 DEF MapEnd, CheckMapN

LEMMA WriteSimpleCuts ==
    ASSUME Typed, NEW W, Grammar(W), Open(W), WriteSimple
    PROVE  pc' = "panic" \/ (pc' = "next" /\ Open(W)')
<1> DEFINE type == Current.type
           v == Current.v
           fn == Current.fn
<1>1. pc = "write" /\ IsSimple(type)
  BY DEF WriteSimple
<1>2. /\ type = Due(Top) /\ type \in DOMAIN Value /\ v \in Value[type]
      /\ fn \in {"Any", Class(type.t)}
  BY <1>1, CurrentValue
<1>3. CASE ~(type.ptr /\ v = None)
  <2>1. pc' = "next" /\ Pass /\ out' = out \o <<Token(type, v, fn)>>
    BY <1>3 DEF WriteSimple, Emit, Token
  <2> HIDE DEF type, v, fn
  <2>2. <<Token(type, v, fn)>> \in W.value[WT(type)]
    BY <1>1, <1>2, <1>3, TokenWhole
  <2>3. WT(type) \in WireType
    BY <1>2, WireTyped
  <2>4. <<Token(type, v, fn)>> \in W.value[WT(Due(Top))] /\ WT(Due(Top)) \in WireType
    BY <1>2, <2>2, <2>3
  <2>5. Open(W)'
    BY <1>1, <2>1, <2>4, Filled
  <2> QED
    BY <2>1, <2>5
<1>4. CASE type.ptr /\ v = None
  BY <1>4 DEF WriteSimple
<1> QED
  BY <1>3, <1>4

LEMMA WriteStructCuts ==
    ASSUME Typed, NEW W, Grammar(W), Open(W), WriteStruct
    PROVE  pc' = "next" /\ Open(W)'
<1>1. pc = "write" /\ pc' = "next" /\ Current.type.t = "struct"
  BY DEF WriteStruct, Goto
<1>2. Current.type = Due(Top)
  BY <1>1, CurrentValue
<1>3. WT(Due(Top)) = "struct" /\ "struct" \in WireType
  BY <1>1, <1>2, WireTypes DEF WT
<1>4. CASE Current.v = None
  <2>1. out' = out \o <<Stop>> /\ Pass
    BY <1>4 DEF WriteStruct, Emit
  <2>2. <<Stop>> \in W.value[WT(Due(Top))]
    BY <1>3, NoFields
  <2>3. Open(W)'
    BY <1>1, <1>3, <2>1, <2>2, Filled
  <2> QED
    BY <1>1, <2>3
<1>5. CASE Current.v # None
  <2> DEFINE f == StructFrame(Current.type.sd, Current.v, FALSE)
  <2>1. PassTo(f) /\ out' = out
    BY <1>5 DEF WriteStruct
  <2>2. f.kind = "struct"
    BY DEF StructFrame
  <2> HIDE DEF f
  <2>3. <<>> \in W.fields
    BY NoFields
  <2>4. WT(Due(Top)) \in Yields(f) /\ IsPart(W, f, <<>>) /\ <<>> \in Seq(W.token)
    BY <1>3, <2>2, <2>3, EmptySeq DEF Yields, IsPart
  <2>5. out' = out \o <<>>
    <3>1. PICK s \in Seq(W.token) : Cut(W, stack, out, s)
      BY DEF Open
    <3>2. out \in Seq(W.token)
      BY <1>1, <2>4, <3>1, MoreWritten
    <3> QED
      BY <2>1, <3>2, ConcatEmptySeq
  <2>6. Open(W)'
    BY <1>1, <2>1, <2>4, <2>5, Pushed
  <2> QED
    BY <1>1, <2>6
<1> QED
  BY <1>4, <1>5

\* A header, and what it counts when it counts nothing.
LEMMA ListHeaderPart ==
    ASSUME NEW W, Grammar(W), NEW wt \in WireType, NEW n \in Nat
    PROVE  /\ <<ListHeader(wt, n)>> \in Seq(W.token)
           /\ \E e \in W.elems[<<wt, 0>>] : <<ListHeader(wt, n)>> = <<ListHeader(wt, n)>> \o e
           /\ n = 0 => <<ListHeader(wt, n)>> \in W.value["list"] \cap W.value["set"]
<1>1. ListRule(W)
  BY DEF Grammar
<1>2. <<>> \in W.elems[<<wt, 0>>] /\ ListHeader(wt, n) \in W.token
  BY <1>1, Zenon DEF ListRule
<1> DEFINE h == ListHeader(wt, n)
           x == <<h>>
<1>3. h \in W.token
  BY <1>2
<1> HIDE DEF h
<1>4. x \in Seq(W.token)
  BY <1>3, SingleSeq
<1> HIDE DEF x
<1>5. x \o <<>> = x
  BY <1>4, ConcatEmptySeq
<1>6. n = 0 => x \in W.value["list"] \cap W.value["set"]
  <2> SUFFICES ASSUME n = 0 PROVE x \in W.value["list"] \cap W.value["set"]
    OBVIOUS
  <2>1. 0 \in Nat
    OBVIOUS
  <2>2. <<ListHeader(wt, 0)>> \o <<>> \in W.value["list"] \cap W.value["set"]
    BY <1>2, <2>1, ElemsSeq
  <2>3. <<ListHeader(wt, 0)>> = x
    BY DEF x, h
  <2> QED
    BY <1>5, <2>2, <2>3
<1>7. \E e \in W.elems[<<wt, 0>>] : x = x \o e
  BY <1>2, <1>5
<1> QED
  BY <1>4, <1>6, <1>7 DEF x, h

LEMMA MapHeaderPart ==
    ASSUME NEW W, Grammar(W), NEW kt \in WireType, NEW vt \in WireType, NEW n \in Nat
    PROVE  /\ <<MapHeader(kt, vt, n)>> \in Seq(W.token)
           /\ \E e \in W.entries[<<kt, vt, 0>>] : <<MapHeader(kt, vt, n)>> = <<MapHeader(kt, vt, n)>> \o e
           /\ n = 0 => <<MapHeader(kt, vt, n)>> \in W.value["map"]
<1>1. MapRule(W)
  BY DEF Grammar
<1>2. <<>> \in W.entries[<<kt, vt, 0>>]
  BY <1>1, Zenon DEF MapRule
<1> DEFINE x == <<MapHeader(kt, vt, n)>>
<1>3. x \in Seq(W.token)
  BY MapHeaderSeq
<1> HIDE DEF x
<1>4. x \o <<>> = x
  BY <1>3, ConcatEmptySeq
<1>5. n = 0 => x \in W.value["map"]
  <2> SUFFICES ASSUME n = 0 PROVE x \in W.value["map"]
    OBVIOUS
  <2>1. 0 \in Nat
    OBVIOUS
  <2>2. <<MapHeader(kt, vt, 0)>> \o <<>> \in W.value["map"]
    BY <1>2, <2>1, EntriesSeq
  <2>3. <<MapHeader(kt, vt, 0)>> = x
    BY DEF x
  <2> QED
    BY <1>4, <2>2, <2>3
<1>6. \E e \in W.entries[<<kt, vt, 0>>] : x = x \o e
  BY <1>2, <1>4
<1> QED
  BY <1>3, <1>5, <1>6 DEF x

LEMMA WriteListCuts ==
    ASSUME Typed, NEW W, Grammar(W), Open(W), WriteList
    PROVE  pc' = "next" /\ Open(W)'
<1> DEFINE type == Current.type
           v == Current.v
           n == IF v = None THEN 0 ELSE Len(v)
           wt == WT(type.v)
           x == <<ListHeader(wt, n)>>
<1>1. pc = "write" /\ pc' = "next" /\ type.t \in {"list", "set"} /\ out' = out \o x
  BY DEF WriteList, Goto, Emit
<1>2. type = Due(Top) /\ type \in DOMAIN Value /\ v \in Value[type]
  BY <1>1, CurrentValue
<1>3. IF IsEmpty(v) THEN Pass ELSE PassTo(ListFrame(type, v))
  BY DEF WriteList
<1> HIDE DEF type, v
<1>4. WT(Due(Top)) \in {"list", "set"} /\ WT(Due(Top)) \in WireType
  BY <1>1, <1>2, WireTypes DEF WT
<1>5. type.v \in DOMAIN Value /\ wt \in WireType
  BY <1>1, <1>2, TypeAssumption, WireTyped
<1>6. v # None => v \in Seq(Value[type.v]) /\ Len(v) \in Nat
  BY <1>1, <1>2, ListTyped, LenProperties
<1>7. n \in Nat
  BY <1>6
<1>8. CASE IsEmpty(v)
  <2>1. n = 0
    <3>1. CASE v # None /\ DOMAIN v = {}
      <4>1. v \in Seq(Value[type.v]) /\ DOMAIN v = 1..Len(v) /\ Len(v) \in Nat
        BY <1>6, <3>1, LenProperties
      <4>2. Len(v) = 0
        BY <3>1, <4>1
      <4> QED
        BY <4>2
    <3> QED
      BY <1>8, <3>1 DEF IsEmpty
  <2> HIDE DEF n, wt
  <2>2. x \in W.value["list"] \cap W.value["set"]
    BY <1>5, <1>7, <2>1, ListHeaderPart
  <2>3. x \in W.value[WT(Due(Top))]
    BY <1>4, <2>2
  <2>4. Pass
    BY <1>3, <1>8
  <2> HIDE DEF x
  <2>5. Open(W)'
    BY <1>1, <1>4, <2>3, <2>4, Filled
  <2> QED
    BY <1>1, <2>5
<1>9. CASE ~IsEmpty(v)
  <2> DEFINE f == ListFrame(type, v)
  <2>1. v # None /\ PassTo(f)
    BY <1>3, <1>9 DEF IsEmpty
  <2>2. f.kind = "list" /\ f.v = type.v /\ f.todo = v
    BY DEF ListFrame
  <2>3. n = Len(v)
    BY <2>1
  <2> HIDE DEF f, n
  <2>4. /\ x \in Seq(W.token)
        /\ \E e \in W.elems[<<wt, 0>>] : x = x \o e
    <3> HIDE DEF wt
    <3> QED
      BY <1>5, <1>7, ListHeaderPart
  <2>5. ListPart(W, f, x)
    <3>1. x = <<ListHeader(WT(f.v), 0 + Len(f.todo))>> /\ 0 \in Nat
      <4>1. Len(f.todo) = n /\ 0 + n = n
        BY <1>7, <2>2, <2>3
      <4> QED
        BY <2>2, <4>1
    <3>2. \E e \in W.elems[<<WT(f.v), 0>>] : x = <<ListHeader(WT(f.v), 0 + Len(f.todo))>> \o e
      <4>1. WT(f.v) = wt
        BY <2>2
      <4> HIDE DEF x, wt
      <4> QED
        BY <2>4, <3>1, <4>1
    <3> HIDE DEF x, wt
    <3> QED
      BY <3>1, <3>2, Zenon DEF ListPart
  <2> HIDE DEF x
  <2>6. IsPart(W, f, x) /\ WT(Due(Top)) \in Yields(f)
    BY <1>4, <2>2, <2>5 DEF IsPart, Yields
  <2>7. Open(W)'
    BY <1>1, <2>1, <2>4, <2>6, Pushed
  <2> QED
    BY <1>1, <2>7
<1> QED
  BY <1>8, <1>9

LEMMA WriteMapCuts ==
    ASSUME Typed, NEW W, Grammar(W), Open(W), WriteMap
    PROVE  pc' = "next" /\ Open(W)'
<1> DEFINE type == Current.type
           v == Current.v
           n == IF v = None THEN 0 ELSE Cardinality(DOMAIN v)
           kt == WT(type.k)
           vt == WT(type.v)
           x == <<MapHeader(kt, vt, n)>>
           f == MapFrame(type, v, OwnId)
<1>1. pc = "write" /\ pc' = "next" /\ type.t = "map" /\ out' = out \o x
  BY DEF WriteMap, Goto, Emit
<1>2. type = Due(Top) /\ type \in DOMAIN Value /\ v \in Value[type]
  BY <1>1, CurrentValue
<1>3. IF n = 0 THEN Pass ELSE PassTo(f)
  BY DEF WriteMap, OwnId
<1> HIDE DEF type, v
<1>4. WT(Due(Top)) = "map" /\ WT(Due(Top)) \in WireType
  BY <1>1, <1>2, WireTypes DEF WT
<1>5. kt \in WireType /\ vt \in WireType
  BY <1>1, <1>2, MapWire
<1>6. v # None => Cardinality(DOMAIN v) \in Nat
  BY <1>1, <1>2, MapTyped, FS_CardinalityType
<1>7. n \in Nat
  BY <1>6
<1>8. f.kind = "map" /\ f.at = "start" /\ f.type = type /\ f.n = Cardinality(DOMAIN v)
  BY DEF MapFrame
<1>9. n # 0 => f.n = n
  BY <1>8
<1> HIDE DEF f, n
<1>10. /\ x \in Seq(W.token)
       /\ \E e \in W.entries[<<kt, vt, 0>>] : x = x \o e
       /\ n = 0 => x \in W.value["map"]
  <2> HIDE DEF kt, vt
  <2> QED
    BY <1>5, <1>7, MapHeaderPart
<1>11. CASE n = 0
  <2>1. x \in W.value[WT(Due(Top))] /\ Pass
    BY <1>3, <1>4, <1>10, <1>11
  <2> HIDE DEF x
  <2>2. Open(W)'
    BY <1>1, <1>4, <2>1, Filled
  <2> QED
    BY <1>1, <2>2
<1>12. CASE n # 0
  <2>1. MapPart(W, type, n, x)
    <3>1. 0 + n = n /\ 0 \in Nat
      BY <1>7
    <3>2. \E e \in W.entries[<<kt, vt, 0>>] :
              0 + n \in Nat /\ x = <<MapHeader(kt, vt, 0 + n)>> \o e
      BY <1>7, <1>10, <3>1
    <3> HIDE DEF x
    <3>3. \E i \in Nat : \E e \in W.entries[<<kt, vt, i>>] :
              i + n \in Nat /\ x = <<MapHeader(kt, vt, i + n)>> \o e
      BY <3>1, <3>2, Zenon
    <3> QED
      BY <3>3, Zenon DEF MapPart
  <2> HIDE DEF x
  <2>2. IsPart(W, f, x) /\ WT(Due(Top)) \in Yields(f)
    BY <1>4, <1>8, <1>9, <1>12, <2>1 DEF IsPart, Yields
  <2>3. PassTo(f)
    BY <1>3, <1>12
  <2>4. Open(W)'
    BY <1>1, <1>10, <2>2, <2>3, Pushed
  <2> QED
    BY <1>1, <2>4
<1> QED
  BY <1>11, <1>12

-----------------------------------------------------------------------------
\* What was written is whole when it is done, and cut when it is not.
Whole(W) ==
    /\ pc \in {"idle", "measured"} => out = <<>>
    /\ pc \in {"next", "write"} => Open(W)
    /\ pc = "end" \/ res = "ok" => out \in W.value["struct"]
    /\ res # "none" => pc = "returned"

LEMMA InitWhole == ASSUME NEW W, Init PROVE Whole(W)
BY DEF Init, Whole

\* A step that leaves what is written.
LEMMA SameWhole ==
    ASSUME NEW W, Whole(W), UNCHANGED <<pc, out, stack, res>> PROVE Whole(W)'
<1>1. Open(W) => Open(W)'
  BY DEF Open, Top
<1> QED
  BY <1>1 DEF Whole

LEMMA BeginWhole ==
    ASSUME NEW W, Grammar(W), Typed, Whole(W), Begin PROVE Whole(W)'
<1>1. pc = "measured" /\ res' = res /\ out = <<>> /\ res = "none"
  BY DEF Begin, Goto, Whole
<1>2. CASE obj.val = None
  <2>1. pc' = "end" /\ out' = out \o <<Stop>>
    BY <1>2 DEF Begin, Goto, Emit
  <2>2. out' = <<Stop>>
    BY <1>1, <2>1
  <2> QED
    BY <1>1, <2>1, <2>2, NoFields DEF Whole
<1>3. CASE obj.val # None
  <2> DEFINE f == StructFrame(obj.sd, obj.val, TRUE)
  <2>1. pc' = "next" /\ stack' = <<f>> /\ out' = <<>>
    BY <1>1, <1>3 DEF Begin, Goto
  <2>2. f.kind = "struct"
    BY DEF StructFrame
  <2> HIDE DEF f
  <2>3. Cut(W, stack', out', <<>>)
    BY <2>1, CutFirst
  <2>4. <<>> \in W.fields /\ <<>> \in Seq(W.token)
    BY NoFields, EmptySeq
  <2>5. stack'[Len(stack')] = f
    BY <2>1
  <2>6. IsPart(W, stack'[Len(stack')], <<>>)
    BY <2>2, <2>4, <2>5 DEF IsPart
  <2>7. Open(W)'
    BY <2>1, <2>3, <2>4, <2>6 DEF Open, Top
  <2> QED
    BY <1>1, <2>1, <2>7 DEF Whole
<1> QED
  BY <1>2, <1>3

LEMMA WritingWhole ==
    ASSUME UnknownFieldsWhole, NEW W, Grammar(W), Typed, Whole(W),
           NextField \/ StructEnd \/ NextElement \/ ListEnd \/ Iterate \/ NextEntry \/ EntryValue
           \/ MapEnd \/ WriteSimple \/ WriteStruct \/ WriteList \/ WriteMap
    PROVE  Whole(W)'
<1>1. pc \in {"next", "write"} /\ res' = res /\ res = "none" /\ Open(W)
  <2>1. pc \in {"next", "write"} /\ res' = res
    BY AllAdvance DEF Advances
  <2> QED
    BY <2>1 DEF Whole
<1>2. \/ pc' \in {"next", "write"} /\ Open(W)'
      \/ pc' = "end" /\ out' \in W.value["struct"]
      \/ pc' \in {"failed", "panic"}
  <2>1. CASE NextField
    <3>1. pc' \in {"next", "write"}
      BY <2>1 DEF NextField
    <3> QED
      BY <1>1, <2>1, <3>1, NextFieldCuts
  <2>2. CASE StructEnd
    BY <1>1, <2>2, StructEndCuts
  <2>3. CASE NextElement
    BY <1>1, <2>3, NextElementCuts DEF NextElement
  <2>4. CASE ListEnd
    BY <1>1, <2>4, ListEndCuts DEF ListEnd
  <2>5. CASE Iterate
    BY <1>1, <2>5, IterateCuts DEF Iterate
  <2>6. CASE NextEntry
    BY <1>1, <2>6, NextEntryCuts DEF NextEntry
  <2>7. CASE EntryValue
    BY <1>1, <2>7, EntryValueCuts DEF EntryValue
  <2>8. CASE MapEnd
    BY <1>1, <2>8, MapEndCuts
  <2>9. CASE WriteSimple
    BY <1>1, <2>9, WriteSimpleCuts
  <2>10. CASE WriteStruct
    BY <1>1, <2>10, WriteStructCuts
  <2>11. CASE WriteList
    BY <1>1, <2>11, WriteListCuts
  <2>12. CASE WriteMap
    BY <1>1, <2>12, WriteMapCuts
  <2> QED
    BY <2>1, <2>2, <2>3, <2>4, <2>5, <2>6, <2>7, <2>8, <2>9, <2>10, <2>11, <2>12
<1> QED
  BY <1>1, <1>2 DEF Whole

LEMMA StepWhole ==
    ASSUME UnknownFieldsWhole, NEW W, Grammar(W), Typed, Whole(W), [Next]_vars PROVE Whole(W)'
<1>1. CASE Measure
  <2>1. pc = "idle" /\ pc' = "measured" /\ UNCHANGED <<out, res>>
    BY <1>1 DEF Measure, Goto
  <2> QED
    BY <2>1 DEF Whole
<1>2. CASE Return
  <2>1. pc \in {"end", "failed", "panic"} /\ pc' = "returned" /\ out' = out
    BY <1>2 DEF Return
  <2>2. res' = "ok" => pc = "end"
    BY <1>2, <2>1 DEF Return
  <2> QED
    BY <2>1, <2>2 DEF Whole
<1>3. CASE NextField \/ StructEnd \/ NextElement \/ ListEnd \/ Iterate \/ NextEntry \/ EntryValue
           \/ MapEnd \/ WriteSimple \/ WriteStruct \/ WriteList \/ WriteMap
  BY <1>3, WritingWhole
<1>4. CASE Change \/ OtherTakes \/ OtherPuts \/ UNCHANGED vars
  <2>1. UNCHANGED <<pc, out, stack, res>>
    BY <1>4 DEF Change, OtherTakes, OtherPuts, vars
  <2> QED
    BY <2>1, SameWhole
<1> QED
  BY <1>1, <1>2, <1>3, <1>4, BeginWhole DEF Next, Step

\* What EncodeObject reports as written is derived by the rules of the encoding, as one
\* struct, to its last token: whatever was changed under its hands, whichever object of
\* rvPool it came from, no header counts what is not there (append.go, append_map.go).
\* The rules are closed under what a struct has of fields it does not know.
THEOREM OutputIsWhole ==
    ASSUME UnknownFieldsWhole
    PROVE  Spec => [](res = "ok" => WholeStruct(out))
<1> DEFINE I == Typed /\ \A W : Grammar(W) => Whole(W)
<1>1. Init => I
  BY InitTyped, InitWhole
<1>2. I /\ [Next]_vars => I'
  <2> SUFFICES ASSUME I, [Next]_vars PROVE I'
    OBVIOUS
  <2>1. Typed'
    BY StepTyped
  <2>2. ASSUME NEW W, Grammar(W) PROVE Whole(W)'
    <3>1. Whole(W)
      BY <2>2
    <3> QED
      BY <2>2, <3>1, StepWhole
  <2> QED
    BY <2>1, <2>2
<1>3. I => (res = "ok" => WholeStruct(out))
  BY DEF Whole, WholeStruct
<1> QED
  BY <1>1, <1>2, <1>3, PTL DEF Spec

\* What Skip must be good for: it takes the whole of a struct, however deep.
SkipTakesStructs == \A s : WholeStruct(s) => Skip(s, 1, "struct") = Len(s)

\* A reader that skips over what was written skips over all of it (WholeOrError).
THEOREM WholeWritten ==
    ASSUME UnknownFieldsWhole, SkipTakesStructs
    PROVE  Spec => []WholeOrError
<1>1. (res = "ok" => WholeStruct(out)) => WholeOrError
  BY DEF SkipTakesStructs, WholeOrError
<1>2. Spec => [](res = "ok" => WholeStruct(out))
  BY OutputIsWhole
<1> QED
  BY <1>1, <1>2, PTL

-----------------------------------------------------------------------------
(***************************************************************************)
(* The headers of what was written, one by one: the languages of tokens    *)
(* in which each header calls for no more tokens than follow it are closed *)
(* under the rules of the encoding, so that what EncodeObject writes is    *)
(* among them.                                                             *)
(***************************************************************************)
Tokens ==
    {Stop} \cup {Field(wt, id) : wt \in WireType, id \in Nat}
    \cup {Num(w, v) : w \in {1, 2, 4, 8}, v \in Int} \cup {Str(s) : s \in Seq(STRING)}
    \cup {ListHeader(wt, n) : wt \in WireType, n \in Nat}
    \cup {MapHeader(kt, vt, n) : kt \in WireType, vt \in WireType, n \in Nat}

\* The tokens a token calls for at least: one for each element of a list, two for each
\* entry of a map.
Called(h) == IF h.tok = "list" THEN h.n ELSE IF h.tok = "map" THEN 2 * h.n ELSE 0

Backed(s) == \A i \in 1..Len(s) : i + Called(s[i]) <= Len(s)
EndsInStop(s) == Len(s) > 0 /\ s[Len(s)] = Stop

BackedSeq == {s \in Seq(Tokens) : Backed(s)}

Counts(wt) ==
    IF wt = "struct" THEN {s \in BackedSeq : EndsInStop(s)} ELSE {s \in BackedSeq : Len(s) > 0}

Counting ==
    [token |-> Tokens,
     value |-> [wt \in WireType |-> Counts(wt)],
     fields |-> BackedSeq,
     elems |-> [p \in WireType \X Nat |-> {e \in BackedSeq : Len(e) >= p[2]}],
     entries |-> [p \in WireType \X WireType \X Nat |-> {e \in BackedSeq : Len(e) >= 2 * p[3]}]]

LEMMA TokensAre ==
    /\ Stop \in Tokens
    /\ \A wt \in WireType, id \in Nat : Field(wt, id) \in Tokens
    /\ \A w \in {1, 2, 4, 8}, v \in Int : Num(w, v) \in Tokens
    /\ \A s \in Seq(STRING) : Str(s) \in Tokens
    /\ \A wt \in WireType, n \in Nat : ListHeader(wt, n) \in Tokens
    /\ \A kt, vt \in WireType, n \in Nat : MapHeader(kt, vt, n) \in Tokens
<1>1. Stop \in Tokens
  BY DEF Tokens
<1>2. \A wt \in WireType, id \in Nat : Field(wt, id) \in Tokens
  BY DEF Tokens
<1>3. \A w \in {1, 2, 4, 8}, v \in Int : Num(w, v) \in Tokens
  BY DEF Tokens
<1>4. \A s \in Seq(STRING) : Str(s) \in Tokens
  BY DEF Tokens
<1>5. \A wt \in WireType, n \in Nat : ListHeader(wt, n) \in Tokens
  BY DEF Tokens
<1>6. \A kt, vt \in WireType, n \in Nat : MapHeader(kt, vt, n) \in Tokens
  BY DEF Tokens
<1> QED
  BY <1>1, <1>2, <1>3, <1>4, <1>5, <1>6

\* What each token calls for.
LEMMA CalledFacts ==
    /\ \A h \in Tokens : Called(h) \in Nat
    /\ Called(Stop) = 0
    /\ \A wt \in WireType, id \in Nat : Called(Field(wt, id)) = 0
    /\ \A w \in {1, 2, 4, 8}, v \in Int : Called(Num(w, v)) = 0
    /\ \A s \in Seq(STRING) : Called(Str(s)) = 0
    /\ \A wt \in WireType, n \in Nat : Called(ListHeader(wt, n)) = n
    /\ \A kt, vt \in WireType, n \in Nat : Called(MapHeader(kt, vt, n)) = 2 * n
<1>1. Called(Stop) = 0
  BY DEF Called, Stop
<1>2. \A wt \in WireType, id \in Nat : Called(Field(wt, id)) = 0
  BY DEF Called, Field
<1>3. \A w \in {1, 2, 4, 8}, v \in Int : Called(Num(w, v)) = 0
  BY DEF Called, Num
<1>4. \A s \in Seq(STRING) : Called(Str(s)) = 0
  BY DEF Called, Str, StrOf
<1>5. \A wt \in WireType, n \in Nat : Called(ListHeader(wt, n)) = n
  BY DEF Called, ListHeader
<1>6. \A kt, vt \in WireType, n \in Nat : Called(MapHeader(kt, vt, n)) = 2 * n
  BY DEF Called, MapHeader
<1>7. ASSUME NEW h \in Tokens PROVE Called(h) \in Nat
  <2>1. \/ h = Stop
        \/ \E wt \in WireType, id \in Nat : h = Field(wt, id)
        \/ \E w \in {1, 2, 4, 8}, v \in Int : h = Num(w, v)
        \/ \E s \in Seq(STRING) : h = Str(s)
        \/ \E wt \in WireType, n \in Nat : h = ListHeader(wt, n)
        \/ \E kt, vt \in WireType, n \in Nat : h = MapHeader(kt, vt, n)
    BY DEF Tokens
  <2>2. \A n \in Nat : 2 * n \in Nat
    OBVIOUS
  <2> QED
    BY <2>1, <2>2, <1>1, <1>2, <1>3, <1>4, <1>5, <1>6
<1> QED
  BY <1>1, <1>2, <1>3, <1>4, <1>5, <1>6, <1>7

\* No tokens, one token that calls for none, and the tokens of two sequences.
LEMMA BackedFacts ==
    /\ <<>> \in BackedSeq
    /\ \A h \in Tokens : Called(h) = 0 => <<h>> \in BackedSeq
    /\ \A e, f \in BackedSeq :
          e \o f \in BackedSeq /\ Len(e \o f) = Len(e) + Len(f) /\ Len(e) \in Nat /\ Len(f) \in Nat
<1>1. <<>> \in BackedSeq
  <2> DEFINE none == <<>>
  <2>1. none \in Seq(Tokens) /\ Len(none) = 0
    BY EmptySeq
  <2> HIDE DEF none
  <2>2. none \in BackedSeq
    BY <2>1 DEF BackedSeq, Backed
  <2> QED
    BY <2>2 DEF none
<1>2. ASSUME NEW h \in Tokens, Called(h) = 0 PROVE <<h>> \in BackedSeq
  <2> DEFINE x == <<h>>
  <2>1. x \in Seq(Tokens) /\ Len(x) = 1 /\ x[1] = h
    BY SingleSeq
  <2> HIDE DEF x
  <2>2. ASSUME NEW i \in 1..Len(x) PROVE i + Called(x[i]) <= Len(x)
    <3>1. i = 1
      BY <2>1
    <3> QED
      BY <1>2, <2>1, <3>1
  <2>3. x \in BackedSeq
    BY <2>1, <2>2 DEF BackedSeq, Backed
  <2> QED
    BY <2>3 DEF x
<1>3. ASSUME NEW e \in BackedSeq, NEW f \in BackedSeq
      PROVE  e \o f \in BackedSeq /\ Len(e \o f) = Len(e) + Len(f) /\ Len(e) \in Nat /\ Len(f) \in Nat
  <2>1. e \in Seq(Tokens) /\ f \in Seq(Tokens) /\ Len(e) \in Nat /\ Len(f) \in Nat
    BY LenProperties DEF BackedSeq
  <2> DEFINE s == e \o f
  <2>2. /\ s \in Seq(Tokens) /\ Len(s) = Len(e) + Len(f)
        /\ \A i \in 1..(Len(e) + Len(f)) : s[i] = IF i <= Len(e) THEN e[i] ELSE f[i - Len(e)]
    BY <2>1, ConcatProperties
  <2> HIDE DEF s
  <2>3. ASSUME NEW i \in 1..Len(s) PROVE i + Called(s[i]) <= Len(s)
    <3>1. CASE i <= Len(e)
      <4>1. s[i] = e[i] /\ i \in 1..Len(e)
        BY <2>1, <2>2, <3>1
      <4>2. i + Called(e[i]) <= Len(e) /\ e[i] \in Tokens
        BY <2>1, <4>1 DEF BackedSeq, Backed
      <4>3. Called(e[i]) \in Nat
        BY <4>2, CalledFacts
      <4> QED
        BY <2>1, <2>2, <4>1, <4>2, <4>3
    <3>2. CASE ~(i <= Len(e))
      <4>1. s[i] = f[i - Len(e)] /\ i - Len(e) \in 1..Len(f)
        BY <2>1, <2>2, <3>2
      <4>2. (i - Len(e)) + Called(f[i - Len(e)]) <= Len(f) /\ f[i - Len(e)] \in Tokens
        BY <2>1, <4>1 DEF BackedSeq, Backed
      <4>3. Called(f[i - Len(e)]) \in Nat
        BY <4>2, CalledFacts
      <4> QED
        BY <2>1, <2>2, <4>1, <4>2, <4>3
    <3> QED
      BY <3>1, <3>2
  <2>4. s \in BackedSeq
    BY <2>2, <2>3 DEF BackedSeq, Backed
  <2> QED
    BY <2>1, <2>2, <2>4 DEF s
<1> QED
  BY <1>1, <1>2, <1>3

\* A header before what it calls for.
LEMMA HeaderBacked ==
    ASSUME NEW h \in Tokens, NEW e \in BackedSeq, Called(h) <= Len(e)
    PROVE  <<h>> \o e \in BackedSeq /\ Len(<<h>> \o e) = 1 + Len(e) /\ Len(e) \in Nat
<1>1. e \in Seq(Tokens) /\ Len(e) \in Nat /\ Called(h) \in Nat
  BY LenProperties, CalledFacts DEF BackedSeq
<1> DEFINE x == <<h>>
           s == x \o e
<1>2. x \in Seq(Tokens) /\ Len(x) = 1 /\ x[1] = h
  BY SingleSeq
<1> HIDE DEF x
<1>3. /\ s \in Seq(Tokens) /\ Len(s) = 1 + Len(e)
      /\ \A i \in 1..(1 + Len(e)) : s[i] = IF i <= 1 THEN x[i] ELSE e[i - 1]
  <2>1. /\ x \o e \in Seq(Tokens) /\ Len(x \o e) = Len(x) + Len(e)
        /\ \A i \in 1..(Len(x) + Len(e)) :
              (x \o e)[i] = IF i <= Len(x) THEN x[i] ELSE e[i - Len(x)]
    BY <1>1, <1>2, ConcatProperties
  <2> QED
    BY <1>2, <2>1
<1> HIDE DEF s
<1>4. ASSUME NEW i \in 1..Len(s) PROVE i + Called(s[i]) <= Len(s)
  <2>1. CASE i = 1
    <3>1. s[i] = h
      BY <1>1, <1>2, <1>3, <2>1
    <3> QED
      BY <1>1, <1>3, <2>1, <3>1
  <2>2. CASE i # 1
    <3>1. s[i] = e[i - 1] /\ i - 1 \in 1..Len(e)
      BY <1>1, <1>3, <2>2
    <3>2. (i - 1) + Called(e[i - 1]) <= Len(e) /\ e[i - 1] \in Tokens
      BY <1>1, <3>1 DEF BackedSeq, Backed
    <3>3. Called(e[i - 1]) \in Nat
      BY <3>2, CalledFacts
    <3> QED
      BY <1>1, <1>3, <3>1, <3>2, <3>3
  <2> QED
    BY <2>1, <2>2
<1>5. s \in BackedSeq
  BY <1>3, <1>4 DEF BackedSeq, Backed
<1> QED
  BY <1>1, <1>3, <1>5 DEF s, x

\* The values of every wire type are some tokens.
LEMMA CountsTyped ==
    ASSUME NEW wt \in WireType
    PROVE  /\ Counting.value[wt] = Counts(wt)
           /\ \A s \in Counts(wt) : s \in BackedSeq /\ s \in Seq(Tokens) /\ Len(s) \in Nat \ {0}
<1>1. Counting.value[wt] = Counts(wt)
  BY DEF Counting
<1>2. ASSUME NEW s \in Counts(wt) PROVE s \in BackedSeq /\ s \in Seq(Tokens) /\ Len(s) \in Nat \ {0}
  <2>1. s \in BackedSeq /\ Len(s) > 0
    BY <1>2 DEF Counts, EndsInStop
  <2>2. s \in Seq(Tokens)
    BY <2>1 DEF BackedSeq
  <2>3. Len(s) \in Nat
    BY <2>2, LenProperties
  <2> QED
    BY <2>1, <2>2, <2>3
<1> QED
  BY <1>1, <1>2

\* One token, and one token before others or after them.
LEMMA TokenSeq ==
    ASSUME NEW h \in Tokens, NEW e \in Seq(Tokens)
    PROVE  /\ <<h>> \in Seq(Tokens) /\ Len(<<h>>) = 1
           /\ <<h>> \o e \in Seq(Tokens) /\ Len(<<h>> \o e) = 1 + Len(e) /\ (<<h>> \o e)[1] = h
           /\ e \o <<h>> \in Seq(Tokens) /\ Len(e \o <<h>>) = Len(e) + 1 /\ (e \o <<h>>)[Len(e) + 1] = h
           /\ Len(e) \in Nat
<1> DEFINE x == <<h>>
<1>1. x \in Seq(Tokens) /\ Len(x) = 1 /\ x[1] = h
  BY SingleSeq
<1>2. Len(e) \in Nat
  BY LenProperties
<1> HIDE DEF x
<1>3. /\ x \o e \in Seq(Tokens) /\ Len(x \o e) = Len(x) + Len(e)
      /\ \A i \in 1..(Len(x) + Len(e)) : (x \o e)[i] = IF i <= Len(x) THEN x[i] ELSE e[i - Len(x)]
  BY <1>1, ConcatProperties
<1>4. /\ e \o x \in Seq(Tokens) /\ Len(e \o x) = Len(e) + Len(x)
      /\ \A i \in 1..(Len(e) + Len(x)) : (e \o x)[i] = IF i <= Len(e) THEN e[i] ELSE x[i - Len(e)]
  BY <1>1, ConcatProperties
<1>5. (x \o e)[1] = h
  <2>1. 1 \in 1..(1 + Len(e)) /\ 1 <= 1
    BY <1>2
  <2> QED
    BY <1>1, <1>3, <2>1
<1>6. (e \o x)[Len(e) + 1] = h
  <2>1. Len(e) + 1 \in 1..(Len(e) + 1) /\ ~(Len(e) + 1 <= Len(e)) /\ Len(e) + 1 - Len(e) = 1
    BY <1>2
  <2> QED
    BY <1>1, <1>4, <2>1
<1> QED
  BY <1>1, <1>2, <1>3, <1>4, <1>5, <1>6 DEF x

LEMMA CountingLanguages == Languages(Counting)
<1>0. BackedSeq \in SUBSET Seq(Tokens) /\ Counting.token = Tokens
  BY DEF BackedSeq, Counting
<1>1. Counting.value \in [WireType -> SUBSET Seq(Counting.token)]
  <2>1. \A wt \in WireType : Counting.value[wt] \in SUBSET Seq(Tokens)
    BY CountsTyped
  <2>2. Counting.value = [wt \in WireType |-> Counting.value[wt]]
    BY DEF Counting
  <2> QED
    BY <1>0, <2>1, <2>2
<1>2. Counting.fields \in SUBSET Seq(Counting.token)
  BY <1>0 DEF Counting
<1>3. Counting.elems \in [WireType \X Nat -> SUBSET Seq(Counting.token)]
  BY <1>0 DEF Counting
<1>4. Counting.entries \in [WireType \X WireType \X Nat -> SUBSET Seq(Counting.token)]
  BY <1>0 DEF Counting
<1> QED
  BY <1>1, <1>2, <1>3, <1>4 DEF Languages

\* One token that calls for none is a value, but of a struct.
LEMMA OneCounts ==
    ASSUME NEW h \in Tokens, Called(h) = 0, NEW wt \in WireType, wt # "struct"
    PROVE  <<h>> \in Counting.value[wt]
<1> DEFINE x == <<h>>
<1>1. x \in BackedSeq
  BY BackedFacts
<1>2. Len(x) > 0
  OBVIOUS
<1> HIDE DEF x
<1>3. x \in Counts(wt)
  BY <1>1, <1>2 DEF Counts
<1> QED
  BY <1>3, CountsTyped DEF x

LEMMA CountingSimple == SimpleRule(Counting)
<1>1. ASSUME NEW wt \in WireType \cap DOMAIN FixedSize, NEW v \in Int
      PROVE  <<Num(FixedSize[wt], v)>> \in Counting.value[wt]
  <2>1. FixedSize[wt] \in {1, 2, 4, 8} /\ wt # "struct" /\ wt \in WireType
    BY DEF FixedSize
  <2>2. Num(FixedSize[wt], v) \in Tokens /\ Called(Num(FixedSize[wt], v)) = 0
    BY <2>1, TokensAre, CalledFacts
  <2> QED
    BY <2>1, <2>2, OneCounts
<1>2. ASSUME NEW s \in Seq(STRING) PROVE <<Str(s)>> \in Counting.value["string"]
  <2>1. Str(s) \in Tokens /\ Called(Str(s)) = 0
    BY TokensAre, CalledFacts
  <2> QED
    BY <2>1, OneCounts, WireTypes
<1> QED
  BY <1>1, <1>2 DEF SimpleRule

LEMMA CountingStructs == FieldRule(Counting) /\ StructRule(Counting)
<1>1. Counting.token = Tokens /\ Counting.fields = BackedSeq
  BY DEF Counting
<1>2. <<>> \in BackedSeq
  BY BackedFacts
<1>3. \A wt \in WireType, id \in Nat : Field(wt, id) \in Tokens
  BY TokensAre
<1>4. ASSUME NEW wt \in WireType, NEW id \in Nat, NEW f \in BackedSeq, NEW v \in Counting.value[wt]
      PROVE  (f \o <<Field(wt, id)>>) \o v \in BackedSeq
  <2> DEFINE h == <<Field(wt, id)>>
  <2>1. h \in BackedSeq
    BY <1>3, BackedFacts, CalledFacts
  <2> HIDE DEF h
  <2> DEFINE fh == f \o h
  <2>2. fh \in BackedSeq
    BY <2>1, BackedFacts
  <2> HIDE DEF fh
  <2>3. v \in BackedSeq
    BY CountsTyped
  <2>4. fh \o v \in BackedSeq
    BY <2>2, <2>3, BackedFacts
  <2> QED
    BY <2>4 DEF fh, h
<1>5. \A f, g \in BackedSeq : f \o g \in BackedSeq
  BY BackedFacts
<1>6. FieldRule(Counting)
  BY <1>1, <1>2, <1>3, <1>4, <1>5 DEF FieldRule
<1>7. ASSUME NEW f \in BackedSeq PROVE f \o <<Stop>> \in Counting.value["struct"]
  <2> DEFINE h == Stop
             s == f \o <<h>>
  <2>1. h \in Tokens /\ Called(h) = 0 /\ f \in Seq(Tokens)
    BY TokensAre, CalledFacts DEF BackedSeq
  <2> HIDE DEF h
  <2>2. Len(s) = Len(f) + 1 /\ s[Len(f) + 1] = h /\ Len(f) \in Nat
    BY <2>1, TokenSeq
  <2>3. s \in BackedSeq
    <3>1. <<h>> \in BackedSeq
      BY <2>1, BackedFacts
    <3> QED
      BY <3>1, BackedFacts
  <2> HIDE DEF s
  <2>4. Len(s) > 0 /\ s[Len(s)] = Stop
    BY <2>2 DEF h
  <2>5. s \in Counts("struct")
    BY <2>3, <2>4 DEF Counts, EndsInStop
  <2> QED
    BY <2>5, CountsTyped, WireTypes DEF s, h
<1>8. StructRule(Counting)
  BY <1>1, <1>7, TokensAre DEF StructRule
<1> QED
  BY <1>6, <1>8

\* A header with what it calls for is a value.
LEMMA HeaderCounts ==
    ASSUME NEW h \in Tokens, NEW e \in BackedSeq, Called(h) <= Len(e),
           NEW wt \in WireType, wt # "struct"
    PROVE  <<h>> \o e \in Counting.value[wt]
<1> DEFINE s == <<h>> \o e
<1>1. s \in BackedSeq /\ Len(s) = 1 + Len(e) /\ Len(e) \in Nat
  BY HeaderBacked
<1> HIDE DEF s
<1>2. Len(s) > 0
  BY <1>1
<1>3. s \in Counts(wt)
  BY <1>1, <1>2 DEF Counts
<1> QED
  BY <1>3, CountsTyped DEF s

LEMMA CountingLists == ListRule(Counting)
<1> SUFFICES ASSUME NEW wt \in WireType
             PROVE  /\ <<>> \in Counting.elems[<<wt, 0>>]
                    /\ \A n \in Nat :
                          /\ ListHeader(wt, n) \in Counting.token
                          /\ \A e \in Counting.elems[<<wt, n>>] :
                                /\ \A v \in Counting.value[wt] : e \o v \in Counting.elems[<<wt, n + 1>>]
                                /\ <<ListHeader(wt, n)>> \o e \in Counting.value["list"] \cap Counting.value["set"]
  BY DEF ListRule
<1>1. \A n \in Nat : Counting.elems[<<wt, n>>] = {e \in BackedSeq : Len(e) >= n}
  BY DEF Counting
<1>2. <<>> \in Counting.elems[<<wt, 0>>]
  <2> DEFINE none == <<>>
  <2>1. none \in BackedSeq /\ Len(none) >= 0
    BY BackedFacts, EmptySeq
  <2> HIDE DEF none
  <2>2. Counting.elems[<<wt, 0>>] = {e \in BackedSeq : Len(e) >= 0}
    BY <1>1
  <2>3. none \in Counting.elems[<<wt, 0>>]
    BY <2>1, <2>2
  <2> QED
    BY <2>3 DEF none
<1>3. ASSUME NEW n \in Nat
      PROVE  /\ ListHeader(wt, n) \in Counting.token
             /\ \A e \in Counting.elems[<<wt, n>>] :
                   /\ \A v \in Counting.value[wt] : e \o v \in Counting.elems[<<wt, n + 1>>]
                   /\ <<ListHeader(wt, n)>> \o e \in Counting.value["list"] \cap Counting.value["set"]
  <2>1. Counting.token = Tokens
    BY DEF Counting
  <2>2. ListHeader(wt, n) \in Tokens /\ Called(ListHeader(wt, n)) = n
    BY TokensAre, CalledFacts
  <2>3. ASSUME NEW e \in Counting.elems[<<wt, n>>]
        PROVE  /\ \A v \in Counting.value[wt] : e \o v \in Counting.elems[<<wt, n + 1>>]
               /\ <<ListHeader(wt, n)>> \o e \in Counting.value["list"] \cap Counting.value["set"]
    <3>1. e \in BackedSeq /\ Len(e) >= n /\ Len(e) \in Nat
      BY <1>1, BackedFacts
    <3>2. ASSUME NEW v \in Counting.value[wt] PROVE e \o v \in Counting.elems[<<wt, n + 1>>]
      <4>1. v \in BackedSeq /\ Len(v) \in Nat \ {0}
        BY CountsTyped
      <4>2. e \o v \in BackedSeq /\ Len(e \o v) = Len(e) + Len(v)
        BY <3>1, <4>1, BackedFacts
      <4>3. Len(e \o v) >= n + 1 /\ n + 1 \in Nat
        BY <3>1, <4>1, <4>2
      <4> QED
        BY <1>1, <4>2, <4>3
    <3>3. Called(ListHeader(wt, n)) <= Len(e)
      BY <2>2, <3>1
    <3>4. <<ListHeader(wt, n)>> \o e \in Counting.value["list"] \cap Counting.value["set"]
      BY <2>2, <3>1, <3>3, HeaderCounts, WireTypes
    <3> QED
      BY <3>2, <3>4
  <2> QED
    BY <2>1, <2>2, <2>3
<1> QED
  BY <1>2, <1>3

LEMMA CountingMaps == MapRule(Counting)
<1> SUFFICES ASSUME NEW kt \in WireType, NEW vt \in WireType
             PROVE  /\ <<>> \in Counting.entries[<<kt, vt, 0>>]
                    /\ \A n \in Nat :
                          /\ MapHeader(kt, vt, n) \in Counting.token
                          /\ \A e \in Counting.entries[<<kt, vt, n>>] :
                                /\ \A k \in Counting.value[kt], v \in Counting.value[vt] :
                                      (e \o k) \o v \in Counting.entries[<<kt, vt, n + 1>>]
                                /\ <<MapHeader(kt, vt, n)>> \o e \in Counting.value["map"]
  BY DEF MapRule
<1>1. \A n \in Nat : Counting.entries[<<kt, vt, n>>] = {e \in BackedSeq : Len(e) >= 2 * n}
  BY DEF Counting
<1>2. <<>> \in Counting.entries[<<kt, vt, 0>>]
  <2> DEFINE none == <<>>
  <2>1. none \in BackedSeq /\ Len(none) >= 2 * 0
    BY BackedFacts, EmptySeq
  <2> HIDE DEF none
  <2>2. Counting.entries[<<kt, vt, 0>>] = {e \in BackedSeq : Len(e) >= 2 * 0}
    BY <1>1
  <2>3. none \in Counting.entries[<<kt, vt, 0>>]
    BY <2>1, <2>2
  <2> QED
    BY <2>3 DEF none
<1>3. ASSUME NEW n \in Nat
      PROVE  /\ MapHeader(kt, vt, n) \in Counting.token
             /\ \A e \in Counting.entries[<<kt, vt, n>>] :
                   /\ \A k \in Counting.value[kt], v \in Counting.value[vt] :
                         (e \o k) \o v \in Counting.entries[<<kt, vt, n + 1>>]
                   /\ <<MapHeader(kt, vt, n)>> \o e \in Counting.value["map"]
  <2>1. Counting.token = Tokens
    BY DEF Counting
  <2>2. MapHeader(kt, vt, n) \in Tokens /\ Called(MapHeader(kt, vt, n)) = 2 * n
    BY TokensAre, CalledFacts
  <2>3. ASSUME NEW e \in Counting.entries[<<kt, vt, n>>]
        PROVE  /\ \A k \in Counting.value[kt], v \in Counting.value[vt] :
                     (e \o k) \o v \in Counting.entries[<<kt, vt, n + 1>>]
               /\ <<MapHeader(kt, vt, n)>> \o e \in Counting.value["map"]
    <3>1. e \in BackedSeq /\ Len(e) >= 2 * n /\ Len(e) \in Nat
      BY <1>1, BackedFacts
    <3>2. ASSUME NEW k \in Counting.value[kt], NEW v \in Counting.value[vt]
          PROVE  (e \o k) \o v \in Counting.entries[<<kt, vt, n + 1>>]
      <4>1. /\ k \in BackedSeq /\ Len(k) \in Nat \ {0}
            /\ v \in BackedSeq /\ Len(v) \in Nat \ {0}
        BY CountsTyped
      <4> DEFINE ek == e \o k
      <4>2. ek \in BackedSeq /\ Len(ek) = Len(e) + Len(k)
        BY <3>1, <4>1, BackedFacts
      <4> HIDE DEF ek
      <4>3. ek \o v \in BackedSeq /\ Len(ek \o v) = Len(ek) + Len(v)
        BY <4>1, <4>2, BackedFacts
      <4>4. Len(ek \o v) >= 2 * (n + 1) /\ n + 1 \in Nat
        BY <3>1, <4>1, <4>2, <4>3
      <4> QED
        BY <1>1, <4>3, <4>4 DEF ek
    <3>3. Called(MapHeader(kt, vt, n)) <= Len(e)
      BY <2>2, <3>1
    <3>4. <<MapHeader(kt, vt, n)>> \o e \in Counting.value["map"]
      BY <2>2, <3>1, <3>3, HeaderCounts, WireTypes
    <3> QED
      BY <3>2, <3>4
  <2> QED
    BY <2>1, <2>2, <2>3
<1> QED
  BY <1>2, <1>3

\* EncodeObject answers without error only with what ends in the STOP of its struct
\* and holds no header, at any depth, that counts more than what follows it: not for a
\* map that was changed while it was iterated either (append_map.go:43-50, 80), so that a
\* reader which believes the headers does not run over the end.
THEOREM CountsAreBacked ==
    ASSUME UnknownFieldsWhole
    PROVE  Spec => [](res = "ok" => EndsInStop(out) /\ Backed(out))
<1>1. Grammar(Counting)
  BY CountingLanguages, CountingSimple, CountingStructs, CountingLists, CountingMaps DEF Grammar
<1>2. \A s \in Counting.value["struct"] : EndsInStop(s) /\ Backed(s)
  <2>1. Counting.value["struct"] = Counts("struct")
    BY CountsTyped, WireTypes
  <2> QED
    BY <2>1 DEF Counts, BackedSeq
<1>3. (res = "ok" => WholeStruct(out)) => (res = "ok" => EndsInStop(out) /\ Backed(out))
  BY <1>1, <1>2 DEF WholeStruct
<1>4. Spec => [](res = "ok" => WholeStruct(out))
  BY OutputIsWhole
<1> QED
  BY <1>3, <1>4, PTL
=============================================================================
