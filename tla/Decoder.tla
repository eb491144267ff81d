------------------------------- MODULE Decoder -------------------------------
(***************************************************************************)
(* tDecoder.Decode and decodeType (internal/reflect/decoder.go), with the  *)
(* pools they borrow from: bitsets for the required fields (bitset.go),    *)
(* indexes of unknown fields (unknownfields.go), and the temporary key and *)
(* value of a map type (utils.go).  Neither is cleared when it is put      *)
(* back, and messages, structs and goroutines all share them.              *)
(*                                                                         *)
(* The recursion is a stack of frames per goroutine, one for each struct,  *)
(* map or list being decoded.  Memory for new objects is taken as given    *)
(* (module Span); values of pointer types are the values pointed to.  An   *)
(* object is written field by field, so that an error or a panic leaves it *)
(* half decoded; the caller may decode the next message over it.           *)
(***************************************************************************)
EXTENDS Wire, SequencesExt

CONSTANTS
    Goroutine,      \* the concurrent callers of Decode
    Message,        \* Message[s]: the token sequences decoded into a struct s
    Skip(_, _, _),  \* thrift.Binary.Skip(b[i:], wt): how many tokens it reads, 0 if it fails
    Bitset,         \* the bitsets
    Unknown,        \* the unknownFields objects
    Tmp,            \* the tmpMapVars objects, whatever their map type
    Dirty,          \* what a number may be in memory that was not cleared
    MaxDepth,       \* maxDepthLimit
    MaxCalls        \* bound: the calls one goroutine makes

ASSUME GoroutineAssumption == Goroutine # {}
ASSUME PoolAssumption ==
    /\ None \notin Bitset \cup Unknown \cup Tmp
    /\ Bitset \cap Unknown = {} /\ Bitset \cap Tmp = {} /\ Unknown \cap Tmp = {}
ASSUME MessageAssumption ==
    \A s \in DOMAIN Message : \A m \in Message[s] :
        /\ m \in Seq(Range(m))
        /\ \A k \in 1..Len(m) : m[k].tok = "field" => m[k].id \in Nat
\* Skip reads no more than there is.
ASSUME SkipAssumption ==
    \A s \in DOMAIN Message : \A m \in Message[s] : \A k \in 1..Len(m) :
        m[k].tok = "field" => Skip(m, k + 1, m[k].wt) \in 0..(Len(m) - k)
ASSUME DirtyAssumption == Dirty # {}
ASSUME DepthAssumption == MaxDepth \in Nat
ASSUME MaxCallsAssumption == MaxCalls \in Nat

VARIABLES
    bits, bitsetPool,       \* the bits of each bitset; those not in use
    offs, unknownPool,      \* the offsets and sizes each object holds; those not in use
    tmps, tmpPool,          \* the map type of each tmpMapVars and its value; those not in use
    pc, ask, pos, stack, job, ret, res, calls   \* locals of each goroutine:
                            \* ret is the value decoded, or what is left of one
                            \* given up, and how many frames it is nested in; it
                            \* is empty if nothing was stored

pools == <<bits, bitsetPool, offs, unknownPool, tmps, tmpPool>>
vars == <<pools, pc, ask, pos, stack, job, ret, res, calls>>

NewTmp == [type |-> None, val |-> Zero]
NoJob == [type |-> Scalar("bool"), depth |-> 0, val |-> None]
NoAsk == [sd |-> None, b |-> <<>>, val |-> Zero]

Init ==
    /\ bits = [x \in Bitset |-> {}]
    /\ bitsetPool = Bitset
    /\ offs = [x \in Unknown |-> <<>>]
    /\ unknownPool = Unknown
    /\ tmps = [x \in Tmp |-> NewTmp]
    /\ tmpPool = Tmp
    /\ pc = [g \in Goroutine |-> "idle"]
    /\ ask = [g \in Goroutine |-> NoAsk]
    /\ pos = [g \in Goroutine |-> 1]
    /\ stack = [g \in Goroutine |-> <<>>]
    /\ job = [g \in Goroutine |-> NoJob]
    /\ ret = [g \in Goroutine |-> <<>>]
    /\ res = [g \in Goroutine |-> "ok"]
    /\ calls = [g \in Goroutine |-> 0]
-----------------------------------------------------------------------------
b(g) == ask[g].b
i(g) == pos[g]
AtEnd(g) == i(g) > Len(b(g))
Tok(g) == b(g)[i(g)]
IsTok(g, kind) == ~AtEnd(g) /\ Tok(g).tok = kind

Top(g) == stack[g][Len(stack[g])]
Rest(g) == SubSeq(stack[g], 1, Len(stack[g]) - 1)
SetTop(g, frame) == [stack EXCEPT ![g][Len(stack[g])] = frame]
Push(g, frame) == [stack EXCEPT ![g] = Append(@, frame)]
Pop(g) == [stack EXCEPT ![g] = Rest(g)]

Goto(g, from, to) == pc[g] = from /\ pc' = [pc EXCEPT ![g] = to]
InStruct(g) == pc[g] = "fields"
Move(g, n) == pos' = [pos EXCEPT ![g] = @ + n]
\* The value v, for the last of these frames.
Give(g, frames, v) == ret' = [ret EXCEPT ![g] = <<Len(frames), v>>]
Given(g) == ret[g][2]
GiveNone(g) == ret' = [ret EXCEPT ![g] = <<>>]

\* What is there of a value given up before anything of it was stored: a struct as it
\* was, or new memory behind a pointer.  Only types with pointers get it cleared, so
\* that a number behind one may be any.
NothingStored(g) ==
    IF job[g].type.t = "struct" THEN {job[g].val}
    ELSE IF ~job[g].type.ptr THEN {}
    ELSE IF IsFixed(job[g].type) THEN Dirty
    ELSE {ZeroOf([job[g].type EXCEPT !.ptr = FALSE])}
GiveUp(g) ==
    IF NothingStored(g) = {} THEN GiveNone(g)
    ELSE \E left \in NothingStored(g) : Give(g, stack[g], left)

\* Decode(b, v) from reflect.go with an object of struct s: a new one, or the one of
\* the last call, whether that has decoded it or has left it behind with an error.
Call(g, s, m) ==
    /\ calls[g] < MaxCalls
    /\ Goto(g, "idle", "enter")
    /\ \E val \in {Zero} \cup (IF ask[g].sd = s THEN {Given(g)} ELSE {}) :
          /\ ask' = [ask EXCEPT ![g] = [sd |-> s, b |-> m, val |-> val]]
          /\ job' = [job EXCEPT ![g] = [type |-> Struct(s), depth |-> MaxDepth, val |-> val]]
    /\ pos' = [pos EXCEPT ![g] = 1]
    /\ res' = [res EXCEPT ![g] = "ok"]
    /\ calls' = [calls EXCEPT ![g] = @ + 1]
    /\ GiveNone(g)
    /\ UNCHANGED <<pools, stack>>

-----------------------------------------------------------------------------
\* tDecoder.Decode: one struct.

\* Faulty variant: the limit is missed by one.
TooDeepLate(g) == job[g].depth = -1

\* maxdepth == 0, on entry of Decode and of decodeType.
TooDeep(g) == job[g].depth = 0

\* Faulty variant: what is nested inherits the depth.
SameDepth(frame) == frame.depth

\* maxdepth-1, for the values of a struct's fields and of a container's elements.
NextDepth(frame) == frame.depth - 1

EnterTooDeep(g) ==
    /\ TooDeep(g)
    /\ Goto(g, "enter", "fail")
    /\ GiveUp(g)
    /\ UNCHANGED <<pools, ask, pos, stack, job, res, calls>>

\* Faulty variant: the bits earlier users have set are kept.
Uncleared(x, s) == bits[x]

\* bs.unset of every required field.
Cleared(x, s) == bits[x] \ Required(s)

\* ufs.Reset().
ResetOffs(u) == <<>>

\* A bitset and an index are borrowed if the struct has a use for them.  Only the
\* bits of the required fields are cleared; the index is reset.
Enter(g) ==
    LET s == job[g].type.sd
        hasReq == Required(s) # {}
        frame(x, u) == [kind |-> "struct", type |-> job[g].type, depth |-> job[g].depth,
                        val |-> job[g].val, bs |-> x, ufs |-> u, fid |-> None,
                        got |-> {}, n |-> 0, key |-> None, tmp |-> None]
    IN  /\ ~TooDeep(g)
        /\ Goto(g, "enter", "fields")
        /\ \E x \in IF hasReq THEN bitsetPool ELSE {None},
              u \in IF StructDesc[s].unknown THEN unknownPool ELSE {None} :
              /\ stack' = Push(g, frame(x, u))
              /\ bitsetPool' = bitsetPool \ {x}
              /\ unknownPool' = unknownPool \ {u}
              /\ bits' = IF hasReq THEN [bits EXCEPT ![x] = Cleared(x, s)] ELSE bits
              /\ offs' = IF StructDesc[s].unknown THEN [offs EXCEPT ![u] = ResetOffs(u)] ELSE offs
        /\ UNCHANGED <<tmps, tmpPool, ask, pos, job, ret, res, calls>>

\* GetField, and the test of the wire type.
Known(g) ==
    LET fs == Fields(Top(g).type.sd)
    IN  Tok(g).id \in DOMAIN fs /\ WT(fs[Tok(g).id].type) = Tok(g).wt
FieldType(g) == Fields(Top(g).type.sd)[Tok(g).id].type
NoCopy(g) == Fields(Top(g).type.sd)[Tok(g).id].nocopy

\* Faulty variant: what is not remembered is not passed either.
PastRemembered(g, n) == IF Top(g).ufs = None THEN i(g) ELSE i(g) + n + 1

\* The position after a field that was skipped: its header and n tokens.
PastSkipped(g, n) == i(g) + n + 1

\* No field of that id and wire type: its bytes are skipped, and remembered.
SkipField(g) ==
    LET n == Skip(b(g), i(g) + 1, Tok(g).wt)
        u == Top(g).ufs
    IN  /\ InStruct(g) /\ IsTok(g, "field") /\ ~Known(g)
        /\ IF n = 0
           THEN Goto(g, "fields", "fail") /\ UNCHANGED <<offs, pos>>
           ELSE /\ pos' = [pos EXCEPT ![g] = PastSkipped(g, n)]
                /\ offs' = IF u = None THEN offs
                           ELSE [offs EXCEPT ![u] = Append(@, [off |-> i(g), sz |-> n + 1])]
                /\ UNCHANGED pc
        /\ UNCHANGED <<bits, bitsetPool, unknownPool, tmps, tmpPool, ask, stack, job, ret,
                       res, calls>>

\* Faulty variant: the struct a pointer already points to is used again.
OverAny(g) ==
    LET f == Top(g).val.f
    IN  IF FieldType(g).t = "struct" /\ Tok(g).id \in DOMAIN f THEN f[Tok(g).id] ELSE Zero

\* What the value is decoded over.  One behind a pointer is new (mallocIfPointer), a
\* struct held by value is what the object has there.
Over(g) ==
    LET f == Top(g).val.f
    IN  IF IsByValueStruct(FieldType(g)) /\ Tok(g).id \in DOMAIN f THEN f[Tok(g).id] ELSE Zero

\* The field is known; its value is decoded by decodeType unless it is of fixed
\* size or a NoCopy string.
OpenField(g) ==
    LET id == Tok(g).id
    IN  /\ InStruct(g) /\ IsTok(g, "field") /\ Known(g)
        /\ pc' = [pc EXCEPT ![g] = IF IsFixed(FieldType(g)) \/ NoCopy(g) THEN "inline" ELSE "type"]
        /\ Move(g, 1)
        /\ stack' = SetTop(g, [Top(g) EXCEPT !.fid = id])
        /\ job' = [job EXCEPT ![g] =
               [type |-> FieldType(g), depth |-> NextDepth(Top(g)), val |-> Over(g)]]
        /\ UNCHANGED <<pools, ask, ret, res, calls>>

\* b[i:] is too short for the type, the id or a value of fixed size: the slice
\* expression panics.
OutOfRange(g) ==
    /\ AtEnd(g)
    /\ \/ Goto(g, "fields", "panic") /\ GiveNone(g)
       \/ IsFixed(job[g].type) /\ Goto(g, "inline", "panic") /\ GiveUp(g)
    /\ UNCHANGED <<pools, ask, pos, stack, job, res, calls>>

\* decodeFixedSizeTypes: an enum is widened from 32 bits, sign and all.
Fixed(g) ==
    /\ Goto(g, "inline", "return")
    /\ IsFixed(job[g].type) /\ IsTok(g, "num")
    /\ Give(g, stack[g], IF job[g].type.t = "enum" THEN Int32(Tok(g).v) ELSE Tok(g).v)
    /\ Move(g, 1)
    /\ UNCHANGED <<pools, ask, stack, job, res, calls>>

\* The length of a string at i is one the buffer can hold.
StringFits(g) ==
    /\ IsTok(g, "str")
    /\ Tok(g).n >= 0
    /\ Tok(g).n <= Bytes(b(g), i(g)) - StrHeaderLen

\* decodeStringNoCopy, and the string case of decodeType.
String(g) ==
    /\ job[g].type.t = "string"
    /\ \/ pc[g] = "inline"
       \/ pc[g] = "type" /\ ~TooDeep(g)
    /\ IF StringFits(g)
       THEN /\ pc' = [pc EXCEPT ![g] = "return"]
            /\ Give(g, stack[g], Tok(g).s)
            /\ Move(g, 1)
       ELSE /\ pc' = [pc EXCEPT ![g] = "fail"]
            /\ GiveUp(g)
            /\ UNCHANGED pos
    /\ UNCHANGED <<pools, ask, stack, job, res, calls>>

\* unknownFields.Copy: the remembered bytes, one after the other.
Copied(g) == FlattenSeq([k \in DOMAIN offs[Top(g).ufs] |->
    SubSeq(b(g), offs[Top(g).ufs][k].off, offs[Top(g).ufs][k].off + offs[Top(g).ufs][k].sz - 1)])

\* tSTOP: every required field must have been set.
AllSet(g) == Required(Top(g).type.sd) \subseteq bits[Top(g).bs]

\* Faulty variant: the index is not given back.
ReleaseBits(g) ==
    /\ bitsetPool' = bitsetPool \cup ({Top(g).bs} \ {None})
    /\ UNCHANGED unknownPool

\* The deferred Puts.
Release(g) ==
    /\ bitsetPool' = bitsetPool \cup ({Top(g).bs} \ {None})
    /\ unknownPool' = unknownPool \cup ({Top(g).ufs} \ {None})

StructDone(g) ==
    /\ Goto(g, "fields", "return")
    /\ IsTok(g, "stop")
    /\ Required(Top(g).type.sd) # {} => AllSet(g)
    /\ Move(g, 1)
    /\ Give(g, Rest(g), IF Top(g).ufs # None /\ offs[Top(g).ufs] # <<>>
                        THEN [Top(g).val EXCEPT !.u = Copied(g)] ELSE Top(g).val)
    /\ stack' = Pop(g)
    /\ Release(g)
    /\ UNCHANGED <<bits, offs, tmps, tmpPool, ask, job, res, calls>>

NotAllSet(g) ==
    /\ Goto(g, "fields", "fail")
    /\ IsTok(g, "stop")
    /\ Required(Top(g).type.sd) # {} /\ ~AllSet(g)
    /\ Move(g, 1)
    /\ UNCHANGED <<pools, ask, stack, job, ret, res, calls>>

-----------------------------------------------------------------------------
\* decodeType: a string, a map, a list, a set or a struct.

TypeTooDeep(g) ==
    /\ TooDeep(g)
    /\ Goto(g, "type", "fail")
    /\ GiveUp(g)
    /\ UNCHANGED <<pools, ask, pos, stack, job, res, calls>>

\* InitDefault sets the fields it has a default for, and Decode does the rest.
OpenStruct(g) ==
    LET init == StructDesc[job[g].type.sd].init
        f == job[g].val.f
    IN  /\ job[g].type.t = "struct" /\ ~TooDeep(g)
        /\ Goto(g, "type", "enter")
        /\ job' = [job EXCEPT ![g].depth = @ - 1,
                              ![g].val.f = [id \in DOMAIN f \cup DOMAIN init |->
                                  IF id \in DOMAIN init THEN init[id] ELSE f[id]]]
        /\ UNCHANGED <<pools, ask, pos, stack, ret, res, calls>>

\* Faulty variant: a count that leaves nothing over is refused.
FitTight(n, bytes, width) == n < bytes \div width

\* So many elements of at least this width may be in the bytes that are left.
Fit(n, bytes, width) == n <= bytes \div width

\* The header is there, has the right types, and a count the rest may hold.
MapFits(g) ==
    LET kt == WT(job[g].type.k)
        vt == WT(job[g].type.v)
    IN  /\ IsTok(g, "map")
        /\ Tok(g).n >= 0
        /\ Tok(g).kt = kt /\ Tok(g).vt = vt
        /\ Fit(Tok(g).n, Bytes(b(g), i(g)) - MapHeaderLen, MinWireSize[kt] + MinWireSize[vt])

ListFits(g) ==
    LET et == WT(job[g].type.v)
    IN  /\ IsTok(g, "list")
        /\ Tok(g).n >= 0
        /\ Tok(g).et = et
        /\ Fit(Tok(g).n, Bytes(b(g), i(g)) - ListHeaderLen, MinWireSize[et])

\* A frame for the elements of a map, a list or a set.
Elements(g, val, x) ==
    [kind |-> job[g].type.t, type |-> job[g].type, depth |-> job[g].depth, val |-> val,
     bs |-> None, ufs |-> None, fid |-> None, got |-> {},
     n |-> Tok(g).n, key |-> None, tmp |-> x]

\* A temporary key and value of this map type are borrowed.
OpenMap(g) ==
    /\ job[g].type.t = "map" /\ ~TooDeep(g)
    /\ Goto(g, "type", "elements")
    /\ MapFits(g)
    /\ \E x \in {y \in tmpPool : tmps[y].type \in {None, job[g].type}} :
          /\ tmpPool' = tmpPool \ {x}
          /\ tmps' = [tmps EXCEPT ![x].type = job[g].type]
          /\ stack' = Push(g, Elements(g, <<>>, x))
    /\ Move(g, 1)
    /\ UNCHANGED <<bits, bitsetPool, offs, unknownPool, ask, job, ret, res, calls>>

OpenList(g) ==
    /\ job[g].type.t \in {"list", "set"} /\ ~TooDeep(g)
    /\ Goto(g, "type", "elements")
    /\ ListFits(g)
    /\ stack' = Push(g, Elements(g, <<>>, None))
    /\ Move(g, 1)
    /\ UNCHANGED <<pools, ask, job, ret, res, calls>>

BadHeader(g) ==
    /\ ~TooDeep(g)
    /\ \/ job[g].type.t = "map" /\ ~MapFits(g)
       \/ job[g].type.t \in {"list", "set"} /\ ~ListFits(g)
    /\ Goto(g, "type", "fail")
    /\ GiveUp(g)
    /\ UNCHANGED <<pools, ask, pos, stack, job, res, calls>>

\* The next key or element.  Memory for elements behind pointers and for list
\* elements is new; a map value held by value is decoded into the temporary one.
IsKey(frame) == frame.kind = "map" /\ frame.key = None

NextElement(g) ==
    LET type == IF IsKey(Top(g)) THEN Top(g).type.k ELSE Top(g).type.v
    IN  /\ pc[g] = "elements"
        /\ Top(g).n > 0
        /\ pc' = [pc EXCEPT ![g] = IF IsFixed(type) THEN "inline" ELSE "type"]
        /\ job' = [job EXCEPT ![g] =
               [type |-> type, depth |-> NextDepth(Top(g)),
                val |-> IF Top(g).kind = "map" /\ IsByValueStruct(type)
                        THEN tmps[Top(g).tmp].val ELSE Zero]]
        /\ UNCHANGED <<pools, ask, pos, stack, ret, res, calls>>

\* Faulty variant: an error in the loop returns at once.
PutTmpDone(g) == IF Top(g).n > 0 THEN tmpPool ELSE tmpPool \cup ({Top(g).tmp} \ {None})

\* t.MapTmpVarsPool.Put(tmp), after the loop.
PutTmp(g) == tmpPool \cup ({Top(g).tmp} \ {None})

ElementsDone(g) ==
    /\ Goto(g, "elements", "return")
    /\ Top(g).n = 0
    /\ Give(g, Rest(g), Top(g).val)
    /\ tmpPool' = PutTmp(g)
    /\ stack' = Pop(g)
    /\ UNCHANGED <<bits, bitsetPool, offs, unknownPool, tmps, ask, pos, job, res, calls>>

-----------------------------------------------------------------------------
\* A value is done, or given up.

\* The frame with the value stored where it belongs.
Stored(frame, v) ==
    CASE frame.kind = "struct" ->
           [frame EXCEPT !.val.f = PutAt(@, frame.fid, v), !.got = @ \cup {frame.fid}]
      [] frame.kind \in {"list", "set"} -> [frame EXCEPT !.val = Append(@, v), !.n = @ - 1]
      [] IsKey(frame) -> [frame EXCEPT !.key = v]
      [] OTHER -> [frame EXCEPT !.val = PutAt(@, frame.key, v), !.key = None, !.n = @ - 1]

\* What a struct held by value leaves in the temporary value of the map.
Leave(g, frame, v) ==
    tmps' = IF frame.kind = "map" /\ IsByValueStruct(frame.type.v) /\ ~IsKey(frame)
            THEN [tmps EXCEPT ![frame.tmp].val = v] ELSE tmps

\* bs.set marks the field, and the loop of the struct, map or list goes on.
Return(g) ==
    /\ stack[g] # <<>>
    /\ Goto(g, "return", IF Top(g).kind = "struct" THEN "fields" ELSE "elements")
    /\ stack' = SetTop(g, Stored(Top(g), Given(g)))
    /\ bits' = IF Top(g).bs = None THEN bits ELSE [bits EXCEPT ![Top(g).bs] = @ \cup {Top(g).fid}]
    /\ Leave(g, Top(g), Given(g))
    /\ GiveNone(g)
    /\ UNCHANGED <<bitsetPool, offs, unknownPool, tmpPool, ask, pos, job, res, calls>>

\* Faulty variant: the unknown fields are stored before the required ones are checked.
RemainsAndUnknown(g) ==
    [Top(g).val EXCEPT !.u = IF Top(g).ufs = None \/ offs[Top(g).ufs] = <<>> THEN @ ELSE Copied(g)]

\* What is left in memory of the struct, map or list of the top frame, with what is
\* left of the value in it that was given up.  A struct keeps the fields it has got.
RemainsOfStruct(g) ==
    IF ret[g] = <<>> THEN Top(g).val
    ELSE [Top(g).val EXCEPT !.f = PutAt(@, Top(g).fid, Given(g))]

\* A list is in its place, with its length, before its elements are decoded.
RemainsOfList(g) ==
    LET zero == ZeroOf(Top(g).type.v)
    IN  [k \in 1..(Len(Top(g).val) + Top(g).n) |->
            IF k <= Len(Top(g).val) THEN Top(g).val[k]
            ELSE IF k = Len(Top(g).val) + 1 /\ ret[g] # <<>> THEN Given(g) ELSE zero]

\* A map is put in its place when it is whole.
GiveRemains(g) ==
    CASE Top(g).kind = "struct" -> Give(g, Rest(g), RemainsOfStruct(g))
      [] Top(g).kind \in {"list", "set"} -> Give(g, Rest(g), RemainsOfList(g))
      [] OTHER -> GiveNone(g)

\* An error travels up; the frames give back what they borrowed.
Fail(g) ==
    /\ pc[g] = "fail" /\ stack[g] # <<>>
    /\ Release(g)
    /\ tmpPool' = PutTmp(g)
    /\ IF ret[g] = <<>> THEN UNCHANGED tmps ELSE Leave(g, Top(g), Given(g))
    /\ GiveRemains(g)
    /\ stack' = Pop(g)
    /\ UNCHANGED <<bits, offs, pc, ask, pos, job, res, calls>>

\* A panic runs the deferred Puts, which the one of the temporary variables is not:
\* they are lost, and the pool will make new ones in their place.
Panic(g) ==
    /\ pc[g] = "panic" /\ stack[g] # <<>>
    /\ Release(g)
    /\ tmpPool' = PutTmp(g)
    /\ tmps' = IF Top(g).tmp = None THEN tmps ELSE [tmps EXCEPT ![Top(g).tmp] = NewTmp]
    /\ GiveRemains(g)
    /\ stack' = Pop(g)
    /\ UNCHANGED <<bits, offs, pc, ask, pos, job, res, calls>>

\* Decode comes back to its caller, or is left by a panic the caller recovers from.
Done(g) ==
    /\ stack[g] = <<>>
    /\ pc[g] \in {"return", "fail", "panic"}
    /\ pc' = [pc EXCEPT ![g] = "idle"]
    /\ res' = [res EXCEPT ![g] =
           CASE pc[g] = "return" -> "ok" [] pc[g] = "fail" -> "error" [] OTHER -> "panic"]
    /\ pos' = [pos EXCEPT ![g] = 1]
    /\ job' = [job EXCEPT ![g] = NoJob]
    /\ UNCHANGED <<pools, ask, stack, ret, calls>>

\* The garbage collector empties a pool: the next object is a new one.
Collect ==
    \/ \E x \in bitsetPool : bits[x] # {} /\ bits' = [bits EXCEPT ![x] = {}]
          /\ UNCHANGED <<bitsetPool, offs, unknownPool, tmps, tmpPool>>
    \/ \E x \in unknownPool : offs[x] # <<>> /\ offs' = [offs EXCEPT ![x] = <<>>]
          /\ UNCHANGED <<bits, bitsetPool, unknownPool, tmps, tmpPool>>
    \/ \E x \in tmpPool : tmps[x] # NewTmp /\ tmps' = [tmps EXCEPT ![x] = NewTmp]
          /\ UNCHANGED <<bits, bitsetPool, offs, unknownPool, tmpPool>>

Step(g) ==
    \/ EnterTooDeep(g) \/ Enter(g) \/ SkipField(g) \/ OpenField(g) \/ OutOfRange(g)
    \/ Fixed(g) \/ String(g) \/ StructDone(g) \/ NotAllSet(g)
    \/ TypeTooDeep(g) \/ OpenStruct(g) \/ OpenMap(g) \/ OpenList(g) \/ BadHeader(g)
    \/ NextElement(g) \/ ElementsDone(g) \/ Return(g) \/ Fail(g) \/ Panic(g) \/ Done(g)

Next ==
    \/ \E g \in Goroutine :
          Step(g) \/ \E s \in DOMAIN Message : \E m \in Message[s] : Call(g, s, m)
    \/ Collect /\ UNCHANGED <<pc, ask, pos, stack, job, ret, res, calls>>

Spec == Init /\ [][Next]_vars

FairSpec == Spec /\ \A g \in Goroutine : WF_vars(Step(g))
-----------------------------------------------------------------------------
(***************************************************************************)
(* Properties                                                              *)
(***************************************************************************)
Borrowed(g, k) == {stack[g][k].bs, stack[g][k].ufs, stack[g][k].tmp} \ {None}

\* Type invariant.
TypeOK ==
    /\ bits \in [Bitset -> SUBSET Nat] /\ bitsetPool \subseteq Bitset
    /\ DOMAIN offs = Unknown /\ unknownPool \subseteq Unknown
    /\ DOMAIN tmps = Tmp /\ tmpPool \subseteq Tmp
    /\ pc \in [Goroutine -> {"idle", "enter", "fields", "inline", "type", "elements",
                             "return", "fail", "panic"}]
    /\ res \in [Goroutine -> {"ok", "error", "panic"}]
    /\ \A g \in Goroutine :
          /\ pos[g] \in 1..(Len(ask[g].b) + 1)
          /\ job[g].depth \in 0..MaxDepth
          /\ ret[g] # <<>> => ret[g][1] = Len(stack[g])
          /\ pc[g] = "idle" => stack[g] = <<>>
          /\ \A k \in DOMAIN stack[g] :
                stack[g][k].kind = "struct" => (stack[g][k].bs = None <=> Required(stack[g][k].type.sd) = {})

\* Every pooled object has one user: it is in its pool, or in one frame of one
\* goroutine.  No return, error or panic loses one or gives it back twice.
OneUser ==
    LET Frame == UNION {{g} \X (1..Len(stack[g])) : g \in Goroutine}
        free == bitsetPool \cup unknownPool \cup tmpPool
    IN  /\ \A x, y \in Frame : x # y => Borrowed(x[1], x[2]) \cap Borrowed(y[1], y[2]) = {}
        /\ Bitset \cup Unknown \cup Tmp =
              free \cup UNION {Borrowed(x[1], x[2]) : x \in Frame}
        /\ \A x \in Frame : Borrowed(x[1], x[2]) \cap free = {}

\* The bits of the required fields tell the fields this very struct had in the
\* message, whatever bits earlier users of the bitset left (bitset.go, decoder.go).
BitsTell ==
    \A g \in Goroutine : \A k \in DOMAIN stack[g] :
        LET frame == stack[g][k] IN
        frame.bs # None =>
            bits[frame.bs] \cap Required(frame.type.sd) = frame.got \cap Required(frame.type.sd)

\* The recursion is bounded (maxDepthLimit): a frame and the depth it has left
\* never add up to more than a goroutine's stack is to bear.
DepthBounded ==
    \A g \in Goroutine :
        /\ Len(stack[g]) <= MaxDepth
        /\ \A k \in DOMAIN stack[g] : k + stack[g][k].depth <= MaxDepth + 1

\* Every call ends, whatever the message.
CallEnds == \A g \in Goroutine : pc[g] = "enter" ~> pc[g] = "idle"
=============================================================================
