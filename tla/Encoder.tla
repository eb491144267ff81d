------------------------------- MODULE Encoder -------------------------------
(***************************************************************************)
(* EncodedSize followed by EncodeObject (frugal.go), as their callers use  *)
(* them: the first gives the size of the buffer for the second, which      *)
(* walks the object field by field and entry by entry (append.go,          *)
(* append_list*.go, append_map*.go).  Meanwhile a goroutine that should    *)
(* not may change the object: its scalars and pointers are replaced, the   *)
(* maps of its fields get and lose entries in place.  Objects further down *)
(* do not change.  A struct passed by value is copied into an object of    *)
(* the descriptor's rvPool, and encoded from there (reflect.go), while     *)
(* another goroutine encodes another one of the same type.                 *)
(*                                                                         *)
(* The recursion is a stack of frames, one for each struct, list or map    *)
(* being written.  The bytes written are tokens.                           *)
(***************************************************************************)
EXTENDS EncodedSize, SequencesExt

CONSTANTS
    Object,         \* the objects to encode: the struct's type sd, val, a struct or None, and
                    \* how it is passed, by "pointer" or "value"
    OtherValue(_),  \* the struct of a type that another goroutine encodes
    RvObject,       \* the objects of rvPool, those New has yet to make included
    Skip(_, _, _),  \* thrift.Binary.Skip: how many tokens a value takes, 0 if it is none
    Changes(_),     \* what the other goroutine may make of an object
    MaxChanges      \* bound: how often it does

ASSUME ObjectAssumption ==
    \A o \in Object :
        /\ o \in [sd : DOMAIN StructDesc, val : Value[Pointer(Struct(o.sd))], by : {"pointer", "value"}]
        /\ EncodedSize(o) \in Nat

\* The maps of an object are changed in place.
ASSUME ChangesAssumption ==
    \A s \in DOMAIN StructDesc : \A val \in Value[Pointer(Struct(s))] \ {None} :
        \A new \in Changes([sd |-> s, val |-> val, by |-> "pointer"]) :
            /\ new \in Value[Pointer(Struct(s))] \ {None}
            /\ \A id \in DOMAIN Fields(s) \cap DOMAIN val.f :
                  Fields(s)[id].type.t = "map" /\ val.f[id] # None =>
                      id \in DOMAIN new.f /\ new.f[id] # None

ASSUME RvObjectAssumption == None \notin RvObject
ASSUME MaxChangesAssumption == MaxChanges \in Nat

VARIABLES
    obj, changes,   \* the object, and how often it was changed
    rvPool,         \* the objects that are free
    rv,             \* what the objects of rvPool hold
    prv, others,    \* the one this call has, and the one another call has, or None
    size,           \* what EncodedSize returned, the length of the buffer
    pc, out, stack, res

rvVars == <<rvPool, rv, prv, others>>
vars == <<obj, changes, rvVars, size, pc, out, stack, res>>

Init ==
    /\ obj \in Object
    /\ changes = 0
    /\ rvPool = RvObject
    /\ rv = [o \in RvObject |-> Zero]
    /\ prv = None
    /\ others = None
    /\ size = 0
    /\ pc = "idle"
    /\ out = <<>>
    /\ stack = <<>>
    /\ res = "none"
-----------------------------------------------------------------------------
(***************************************************************************)
(* The append functions of types.                                          *)
(***************************************************************************)
Bytes32(s) == Str(IF s = None THEN <<>> ELSE s)

\* How the functions registered for lists and maps write a key, an element or a
\* value, by the name they have for its type.  Maps of bools and other types write the
\* byte of a bool as it is, which is 0 or 1 in Go, and so the same.
AppendBool(v) == Num(1, IF v = 0 THEN 0 ELSE 1)
AppendI08(v) == Num(1, v)
AppendI16(v) == Num(2, v)
AppendI32(v) == Num(4, v)
AppendI64(v) == Num(8, v)
AppendString(v) == Bytes32(v)

\* Faulty variant: an enum is written as the int64 it is in memory.
AppendWideEnum(v) == Num(8, v)
AppendEnum(v) == Num(4, Int32(v))

Fast(class, v) ==
    CASE class = "BOOL" -> AppendBool(v) [] class = "I08" -> AppendI08(v)
      [] class = "I16" -> AppendI16(v) [] class = "I32" -> AppendI32(v)
      [] class = "I64" -> AppendI64(v) [] class = "ENUM" -> AppendEnum(v)
      [] class = "STRING" -> AppendString(v)

\* How appendStruct and appendAny write a value of a simple type.
Simple(t, v) ==
    CASE t \in {"bool", "i08"} -> Num(1, v) [] t = "i16" -> Num(2, v)
      [] t = "i32" -> Num(4, v) [] t = "enum" -> Num(4, Int32(v))
      [] t \in {"i64", "double"} -> Num(8, v) [] t = "string" -> Bytes32(v)

\* The function registered for a type; "Other" writes with the type's AppendFunc.
Class(t) ==
    CASE t = "bool" -> "BOOL" [] t = "i08" -> "I08" [] t = "i16" -> "I16" [] t = "i32" -> "I32"
      [] t \in {"i64", "double"} -> "I64" [] t = "enum" -> "ENUM" [] t = "string" -> "STRING"
      [] OTHER -> "Other"

\* updateListAppendFunc: no function is registered for []bool.
ListAppendFunc(type) == IF type.v.t = "bool" THEN "Any" ELSE Class(type.v.t)

\* updateMapAppendFunc: there is one for every pair of types.
MapAppendFunc(type) == [k |-> Class(type.k.t), v |-> Class(type.v.t)]

-----------------------------------------------------------------------------
Top == stack[Len(stack)]
Rest == SubSeq(stack, 1, Len(stack) - 1)
Goto(from, to) == pc = from /\ pc' = to
Emit(tokens) == out' = out \o tokens

\* The fields of the object itself are read when they are needed.
StructFrame(s, val, live) ==
    [kind |-> "struct", sd |-> s, val |-> val, live |-> live, todo |-> DOMAIN Fields(s), fn |-> "Any"]

\* sd.fields are sorted by id.
NextId(frame) == Min(frame.todo)

ListFrame(type, val) ==
    [kind |-> "list", v |-> type.v, todo |-> val, fn |-> ListAppendFunc(type)]

\* n is the header's count, less the entries written.  id names the object's field.
MapFrame(type, val, id) ==
    [kind |-> "map", type |-> type, val |-> val, id |-> id, n |-> Cardinality(DOMAIN val),
     at |-> "start", seen |-> {}, due |-> {}, k |-> None, v |-> None]

Given == IF prv = None THEN obj.val ELSE rv[prv]
FieldValue(frame, id) ==
    GetAt(IF frame.live THEN Given.f ELSE frame.val.f, frame.sd, id)

\* The map an iterator is going over, as it is now.
Entries(frame) ==
    IF frame.id = None \/ prv # None THEN frame.val ELSE obj.val.f[frame.id]

\* What is written next: its type, its value, and the function that writes it.
Current ==
    CASE Top.kind = "struct" ->
           [type |-> Fields(Top.sd)[NextId(Top)].type, v |-> FieldValue(Top, NextId(Top)),
            fn |-> "Any"]
      [] Top.kind = "list" -> [type |-> Top.v, v |-> Head(Top.todo), fn |-> Top.fn]
      [] Top.kind = "map" /\ Top.at = "key" ->
           [type |-> Top.type.k, v |-> Top.k, fn |-> MapAppendFunc(Top.type).k]
      [] OTHER -> [type |-> Top.type.v, v |-> Top.v, fn |-> MapAppendFunc(Top.type).v]

\* The frame when that is written.
Passed(frame) ==
    CASE frame.kind = "struct" -> [frame EXCEPT !.todo = @ \ {NextId(frame)}]
      [] frame.kind = "list" -> [frame EXCEPT !.todo = Tail(@)]
      [] frame.kind = "map" /\ frame.at = "key" -> [frame EXCEPT !.at = "value"]
      [] OTHER -> [frame EXCEPT !.at = "next"]

Pass == stack' = Append(Rest, Passed(Top))
PassTo(frame) == stack' = Append(Append(Rest, Passed(Top)), frame)
-----------------------------------------------------------------------------
\* Faulty variant: what is taken from the pool can be taken again.
StillIn(pool, o) == pool
Without(pool, o) == pool \ {o}

\* rvPool.Get, and the struct copied to the object.
TakeRv(o, val) ==
    /\ o \in rvPool
    /\ rvPool' = Without(rvPool, o)
    /\ rv' = [rv EXCEPT ![o] = val]

\* EncodedSize(v), and a buffer of that size.  The copy of a struct passed by value is
\* back in its pool when it returns.
Measure ==
    /\ Goto("idle", "measured")
    /\ IF obj.by = "value"
       THEN \E o \in rvPool : rv' = [rv EXCEPT ![o] = obj.val]
       ELSE UNCHANGED rv
    /\ size' = EncodedSize(obj)
    /\ UNCHANGED <<obj, changes, rvPool, prv, others, out, stack, res>>

\* EncodeObject: Append(buf[:0], v).  A nil pointer is a struct without fields.
Begin ==
    /\ IF obj.by = "value"
       THEN \E o \in rvPool : TakeRv(o, obj.val) /\ prv' = o
       ELSE UNCHANGED <<rvPool, rv, prv>>
    /\ IF obj.val = None
       THEN Goto("measured", "end") /\ Emit(<<Stop>>) /\ UNCHANGED stack
       ELSE Goto("measured", "next") /\ stack' = <<StructFrame(obj.sd, obj.val, TRUE)>>
            /\ UNCHANGED out
    /\ UNCHANGED <<obj, changes, others, size, res>>

\* appendStruct: the next field is left out, or its header is written.
NextField ==
    /\ pc = "next" /\ Top.kind = "struct" /\ Top.todo # {}
    /\ LET id == NextId(Top)
       IN  IF Skipped(Top.sd, id, FieldValue(Top, id))
           THEN Pass /\ UNCHANGED <<pc, out>>
           ELSE /\ pc' = "write"
                /\ Emit(<<Field(WT(Fields(Top.sd)[id].type), id)>>)
                /\ UNCHANGED stack
    /\ UNCHANGED <<obj, changes, rvVars, size, res>>

\* After the fields, the unknown ones and the stop.
StructEnd ==
    /\ pc = "next" /\ Top.kind = "struct" /\ Top.todo = {}
    /\ LET val == IF Top.live THEN Given ELSE Top.val
       IN  Emit((IF StructDesc[Top.sd].unknown THEN val.u ELSE <<>>) \o <<Stop>>)
    /\ stack' = Rest
    /\ pc' = IF Rest = <<>> THEN "end" ELSE "next"
    /\ UNCHANGED <<obj, changes, rvVars, size, res>>

\* appendList*: the next element.
NextElement ==
    /\ pc = "next" /\ Top.kind = "list" /\ Top.todo # <<>>
    /\ pc' = "write"
    /\ UNCHANGED <<obj, changes, rvVars, size, out, stack, res>>

ListEnd ==
    /\ pc = "next" /\ Top.kind = "list" /\ Top.todo = <<>>
    /\ stack' = Rest
    /\ UNCHANGED <<obj, changes, rvVars, size, pc, out, res>>

\* appendMap*: the iteration begins after the header was written.  It is bound to
\* visit the entries there are now unless they go away, and none of them twice.
Iterate ==
    /\ pc = "next" /\ Top.kind = "map" /\ Top.at = "start"
    /\ stack' = Append(Rest, [Top EXCEPT !.at = "next", !.due = DOMAIN Entries(Top)])
    /\ UNCHANGED <<obj, changes, rvVars, size, pc, out, res>>

NextEntry ==
    /\ pc = "next" /\ Top.kind = "map" /\ Top.at = "next"
    /\ \E k \in DOMAIN Entries(Top) \ Top.seen :
          stack' = Append(Rest, [Top EXCEPT !.at = "key", !.k = k, !.v = Entries(Top)[k],
                                            !.seen = @ \cup {k}, !.n = @ - 1])
    /\ pc' = "write"
    /\ UNCHANGED <<obj, changes, rvVars, size, out, res>>

EntryValue ==
    /\ pc = "next" /\ Top.kind = "map" /\ Top.at = "value"
    /\ pc' = "write"
    /\ UNCHANGED <<obj, changes, rvVars, size, out, stack, res>>

\* Faulty variant: an iteration that ends early goes unnoticed.
CheckMapMore(n) == n >= 0

\* checkMapN: as many entries were written as the header says.
CheckMapN(n) == n = 0

MapEnd ==
    /\ pc = "next" /\ Top.kind = "map" /\ Top.at = "next"
    /\ (Top.due \cap DOMAIN Entries(Top)) \subseteq Top.seen
    /\ IF CheckMapN(Top.n)
       THEN stack' = Rest /\ UNCHANGED pc
       ELSE stack' = <<>> /\ pc' = "failed"
    /\ UNCHANGED <<obj, changes, rvVars, size, out, res>>
-----------------------------------------------------------------------------
\* One value, by its type.

\* A pointer to a scalar that became nil after the test is followed all the same.
WriteSimple ==
    /\ pc = "write" /\ IsSimple(Current.type)
    /\ IF Current.type.ptr /\ Current.v = None
       THEN /\ pc' = "panic"
            /\ stack' = <<>>
            /\ UNCHANGED out
       ELSE /\ pc' = "next"
            /\ Emit(<<IF Current.fn = "Any" THEN Simple(Current.type.t, Current.v)
                      ELSE Fast(Current.fn, Current.v)>>)
            /\ Pass
    /\ UNCHANGED <<obj, changes, rvVars, size, res>>

\* appendStruct of a nested struct.
WriteStruct ==
    /\ Goto("write", "next")
    /\ Current.type.t = "struct"
    /\ IF Current.v = None
       THEN Emit(<<Stop>>) /\ Pass
       ELSE PassTo(StructFrame(Current.type.sd, Current.v, FALSE)) /\ UNCHANGED out
    /\ UNCHANGED <<obj, changes, rvVars, size, res>>

\* Faulty variant: nil is not told from a slice.
NoElements(v) == v = <<>>

\* Nil and empty lists and maps are a header and nothing else.
IsEmpty(v) == v = None \/ DOMAIN v = {}

\* appendListHeader.
WriteList ==
    /\ Goto("write", "next")
    /\ Current.type.t \in {"list", "set"}
    /\ LET n == IF Current.v = None THEN 0 ELSE Len(Current.v)
       IN  Emit(<<ListHeader(WT(Current.type.v), n)>>)
    /\ IF IsEmpty(Current.v) THEN Pass ELSE PassTo(ListFrame(Current.type, Current.v))
    /\ UNCHANGED <<obj, changes, rvVars, size, res>>

\* appendMapHeader.
WriteMap ==
    /\ Goto("write", "next")
    /\ Current.type.t = "map"
    /\ LET n == IF Current.v = None THEN 0 ELSE Cardinality(DOMAIN Current.v)
           id == IF Top.kind = "struct" /\ Top.live THEN NextId(Top) ELSE None
       IN  /\ Emit(<<MapHeader(WT(Current.type.k), WT(Current.type.v), n)>>)
           /\ IF n = 0 THEN Pass ELSE PassTo(MapFrame(Current.type, Current.v, id))
    /\ UNCHANGED <<obj, changes, rvVars, size, res>>

\* EncodeObject's answer: more than the buffer holds is an error, as is Append's.  The
\* copy goes back by a defer, after a panic too.
Return ==
    /\ pc \in {"end", "failed", "panic"}
    /\ pc' = "returned"
    /\ res' = IF pc = "panic" THEN "panic"
              ELSE IF Bytes(out, 1) > size THEN "too_long"
              ELSE IF pc = "failed" THEN "map_changed" ELSE "ok"
    /\ rvPool' = IF prv = None THEN rvPool ELSE rvPool \cup {prv}
    /\ prv' = None
    /\ UNCHANGED <<obj, changes, rv, others, size, out, stack>>

\* The goroutine that changes an object it shares.
Change ==
    /\ obj.by = "pointer" /\ obj.val # None
    /\ pc \in {"measured", "next", "write"}
    /\ changes < MaxChanges
    /\ changes' = changes + 1
    /\ \E val \in Changes(obj) : obj' = [obj EXCEPT !.val = val]
    /\ UNCHANGED <<rvVars, size, pc, out, stack, res>>

\* The goroutine that encodes another struct of the type, by value.
OtherTakes ==
    /\ obj.by = "value" /\ others = None
    /\ \E o \in rvPool : TakeRv(o, OtherValue(obj.sd)) /\ others' = o
    /\ UNCHANGED <<obj, changes, prv, size, pc, out, stack, res>>

OtherPuts ==
    /\ others # None
    /\ rvPool' = rvPool \cup {others}
    /\ others' = None
    /\ UNCHANGED <<obj, changes, rv, prv, size, pc, out, stack, res>>

Step ==
    \/ Measure \/ Begin \/ NextField \/ StructEnd \/ NextElement \/ ListEnd
    \/ Iterate \/ NextEntry \/ EntryValue \/ MapEnd
    \/ WriteSimple \/ WriteStruct \/ WriteList \/ WriteMap \/ Return

Next == Step \/ Change \/ OtherTakes \/ OtherPuts

Spec == Init /\ [][Next]_vars
-----------------------------------------------------------------------------
(***************************************************************************)
(* Properties                                                              *)
(***************************************************************************)
\* The struct's fields, the list's elements or the map's entries still to be written, and
\* the key and value being written, are what the frame's type makes of its value.
StructFrameOK(frame) ==
    /\ frame \in [kind : {"struct"}, sd : DOMAIN StructDesc, val : Value[Pointer(Struct(frame.sd))] \ {None},
                  live : BOOLEAN, todo : SUBSET DOMAIN Fields(frame.sd), fn : {"Any"}]
    /\ frame.live => frame.sd = obj.sd

ListFrameOK(frame) ==
    frame \in [kind : {"list"}, v : DOMAIN Value, todo : Seq(Value[frame.v]),
               fn : {"Any", Class(frame.v.t)}]

MapFrameOK(frame) ==
    LET keys == Value[frame.type.k]
        values == Value[frame.type.v]
    IN  /\ frame \in [kind : {"map"}, type : DOMAIN Value, val : Value[frame.type] \ {None},
                      id : Nat \cup {None}, n : Int, at : {"start", "next", "key", "value"},
                      seen : SUBSET keys, due : SUBSET keys, k : keys \cup {None}, v : values \cup {None}]
        /\ frame.type.t = "map"
        /\ frame.at = "key" => frame.k \in keys
        /\ frame.at \in {"key", "value"} => frame.v \in values
        /\ frame.id # None => /\ frame.id \in DOMAIN Fields(obj.sd) \cap DOMAIN obj.val.f
                              /\ Fields(obj.sd)[frame.id].type = frame.type
                              /\ obj.val.f[frame.id] # None

FrameOK(frame) ==
    CASE frame.kind = "struct" -> StructFrameOK(frame)
      [] frame.kind = "list" -> ListFrameOK(frame)
      [] OTHER -> MapFrameOK(frame)

\* Type invariant: what a function is called for has the type it was made for (append.go).
TypeOK ==
    /\ obj \in [sd : DOMAIN StructDesc, val : Value[Pointer(Struct(obj.sd))], by : {"pointer", "value"}]
    /\ rvPool \subseteq RvObject /\ DOMAIN rv = RvObject
    /\ {prv, others} \subseteq RvObject \cup {None}
    /\ changes \in 0..MaxChanges
    /\ size \in Nat
    /\ pc \in {"idle", "measured", "next", "write", "end", "failed", "panic", "returned"}
    /\ stack \in Seq(Range(stack))
    /\ pc \in {"next", "write"} <=> stack # <<>>
    /\ stack # <<>> => obj.val # None /\ stack[1].kind = "struct"
    /\ \A k \in DOMAIN stack : FrameOK(stack[k])
    /\ res \in {"none", "ok", "too_long", "map_changed", "panic"}

\* What EncodeObject reports as written is one whole struct, no matter what was
\* changed under its hands: no header counts entries that are not there
\* (checkMapN, append_map.go).
WholeOrError == res = "ok" => Skip(out, 1, "struct") = Len(out)

\* What is encoded of a struct passed by value is the struct, from its first field to
\* its last, whatever else is encoded at the time (reflect.go).
CopyIsKept == prv # None => rv[prv] = obj.val

\* EncodedSize and EncodeObject agree on an object that is left alone: the buffer
\* is filled to the last byte, and nothing goes wrong (ttype.go, append.go).
MeasuredIsWritten ==
    pc = "returned" /\ changes = 0 =>
        /\ res = "ok"
        /\ Bytes(out, 1) = size
=============================================================================
