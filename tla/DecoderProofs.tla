---------------------------- MODULE DecoderProofs ----------------------------
(***************************************************************************)
(* Decoder: pooled objects have one user each, the bits of the required    *)
(* fields can be trusted, and the recursion is bounded.  A frame on any of *)
(* the stacks is a well-formed record (FrameOK); a goroutine's locals fit  *)
(* its stack (LocalOK); the pools and the frames share out all objects     *)
(* (Apart); and each bitset tells what its frame has got (Tell).           *)
(***************************************************************************)
EXTENDS Decoder, CommonLemmas

-----------------------------------------------------------------------------
(***************************************************************************)
(* The inductive invariant.                                                *)
(***************************************************************************)
Record(f) ==
    f = [kind |-> f.kind, type |-> f.type, depth |-> f.depth, val |-> f.val, bs |-> f.bs,
         ufs |-> f.ufs, fid |-> f.fid, got |-> f.got, n |-> f.n, key |-> f.key, tmp |-> f.tmp]

\* A frame borrows what its kind has a use for.
FrameOK(f) ==
    /\ Record(f)
    /\ f.bs \in Bitset \cup {None} /\ f.ufs \in Unknown \cup {None} /\ f.tmp \in Tmp \cup {None}
    /\ f.depth \in 1..MaxDepth
    /\ f.kind = "struct" => f.tmp = None /\ (f.bs = None <=> Required(f.type.sd) = {})
    /\ f.kind # "struct" => f.bs = None /\ f.ufs = None

LEMMA StoredFrame ==
    ASSUME NEW f, FrameOK(f), NEW v
    PROVE  /\ FrameOK(Stored(f, v))
           /\ Stored(f, v).kind = f.kind /\ Stored(f, v).type = f.type
           /\ Stored(f, v).bs = f.bs /\ Stored(f, v).ufs = f.ufs /\ Stored(f, v).tmp = f.tmp
           /\ Stored(f, v).depth = f.depth /\ Stored(f, v).fid = f.fid
           /\ f.kind = "struct" => Stored(f, v).got = f.got \cup {f.fid}
<1>1. CASE f.kind = "struct"
  <2>1. Stored(f, v) = [f EXCEPT !.val.f = PutAt(@, f.fid, v), !.got = @ \cup {f.fid}]
    BY <1>1 DEF Stored, IsKey
  <2> QED
    BY <1>1, <2>1 DEF FrameOK, Record
<1>2. CASE f.kind # "struct"
  <2>1. \/ Stored(f, v) = [f EXCEPT !.val = Append(@, v), !.n = @ - 1]
        \/ Stored(f, v) = [f EXCEPT !.key = v]
        \/ Stored(f, v) = [f EXCEPT !.val = PutAt(@, f.key, v), !.key = None, !.n = @ - 1]
    BY <1>2 DEF Stored, IsKey
  <2>2. CASE Stored(f, v) = [f EXCEPT !.val = Append(@, v), !.n = @ - 1]
    BY <1>2, <2>2 DEF FrameOK, Record
  <2>3. CASE Stored(f, v) = [f EXCEPT !.key = v]
    BY <1>2, <2>3 DEF FrameOK, Record
  <2>4. CASE Stored(f, v) = [f EXCEPT !.val = PutAt(@, f.key, v), !.key = None, !.n = @ - 1]
    BY <1>2, <2>4 DEF FrameOK, Record
  <2> QED
    BY <2>1, <2>2, <2>3, <2>4
<1> QED
  BY <1>1, <1>2

\* Below the top frame, a struct has the number of the field it waits for.
StackOK(s) ==
    /\ IsSeq(s)
    /\ \A k \in 1..Len(s) : FrameOK(s[k]) /\ k + s[k].depth <= MaxDepth + 1
    /\ \A k \in 1..(Len(s) - 1) : s[k].kind = "struct" => s[k].fid \in Nat

FieldOpen(s) == s # <<>> /\ s[Len(s)].kind = "struct" => s[Len(s)].fid \in Nat

Text == (UNION {Message[s] : s \in DOMAIN Message}) \cup {<<>>}

Entering == {"enter", "type", "inline"}

LocalOK(s, p, j, r, n, m) ==
    /\ StackOK(s)
    /\ p = "idle" => s = <<>>
    /\ p = "fields" => s # <<>> /\ s[Len(s)].kind = "struct"
    /\ p = "elements" => s # <<>> /\ s[Len(s)].kind # "struct"
    /\ p \in Entering \cup {"return"} => FieldOpen(s)
    /\ p \in Entering => Len(s) + j.depth <= MaxDepth
    /\ p \in Entering \cup {"fields", "elements"} => r = <<>>
    /\ r # <<>> => r[1] = Len(s)
    /\ j = [type |-> j.type, depth |-> j.depth, val |-> j.val] /\ j.depth \in 0..MaxDepth
    /\ m \in Text /\ n \in 1..(Len(m) + 1)

Held(f) == {f.bs, f.ufs, f.tmp} \ {None}

\* The frame k of g holds x.
Holds(st, g, k, x) == k \in 1..Len(st[g]) /\ x \in Held(st[g][k])

\* The stacks st and the pools, whose content is free, share out all pooled objects.
Apart(st, free) ==
    /\ \A g \in Goroutine, k \in Nat : \A x : Holds(st, g, k, x) => x \notin free
    /\ \A g, h \in Goroutine, k, l \in Nat : \A x :
          Holds(st, g, k, x) /\ Holds(st, h, l, x) => g = h /\ k = l
    /\ \A x \in Bitset \cup Unknown \cup Tmp :
          x \in free \/ \E g \in Goroutine, k \in Nat : Holds(st, g, k, x)

Tells(f, bi) ==
    f.bs # None => bi[f.bs] \cap Required(f.type.sd) = f.got \cap Required(f.type.sd)

Tell(st, bi) == \A g \in Goroutine : \A k \in 1..Len(st[g]) : Tells(st[g][k], bi)

Free == bitsetPool \cup unknownPool \cup tmpPool

Shapes ==
    /\ bits \in [Bitset -> SUBSET Nat] /\ bitsetPool \subseteq Bitset
    /\ DOMAIN offs = Unknown /\ unknownPool \subseteq Unknown
    /\ DOMAIN tmps = Tmp /\ tmpPool \subseteq Tmp
    /\ pc \in [Goroutine -> {"idle", "enter", "fields", "inline", "type", "elements",
                             "return", "fail", "panic"}]
    /\ res \in [Goroutine -> {"ok", "error", "panic"}]
    /\ DOMAIN stack = Goroutine /\ DOMAIN job = Goroutine /\ DOMAIN ret = Goroutine
    /\ DOMAIN pos = Goroutine /\ DOMAIN ask = Goroutine

Inv ==
    /\ Shapes
    /\ \A g \in Goroutine : LocalOK(stack[g], pc[g], job[g], ret[g], pos[g], ask[g].b)
    /\ Apart(stack, Free)
    /\ Tell(stack, bits)

-----------------------------------------------------------------------------
(***************************************************************************)
(* What a new frame, a changed top frame and a frame less do to a stack    *)
(* and to the shares.                                                      *)
(***************************************************************************)
LEMMA PushOK ==
    ASSUME NEW s, StackOK(s), FieldOpen(s), NEW f, FrameOK(f), Len(s) + f.depth <= MaxDepth
    PROVE  StackOK(Append(s, f)) /\ Len(Append(s, f)) = Len(s) + 1
<1> DEFINE t == Append(s, f)
<1>1. /\ IsSeq(t) /\ Len(t) = Len(s) + 1 /\ \A k \in 1..Len(s) : t[k] = s[k]
      /\ t[Len(s) + 1] = f
  BY PushSeq DEF StackOK
<1>2. Len(s) \in Nat /\ f.depth \in Nat
  BY LenProperties, DepthAssumption DEF StackOK, IsSeq, FrameOK
<1> HIDE DEF t
<1>3. \A k \in 1..Len(t) : FrameOK(t[k]) /\ k + t[k].depth <= MaxDepth + 1
  <2> SUFFICES ASSUME NEW k \in 1..Len(t) PROVE FrameOK(t[k]) /\ k + t[k].depth <= MaxDepth + 1
    OBVIOUS
  <2>1. CASE k \in 1..Len(s)
    BY <1>1, <2>1 DEF StackOK
  <2>2. CASE k = Len(s) + 1
    BY <1>1, <1>2, <2>2, DepthAssumption
  <2> QED
    BY <1>1, <1>2, <2>1, <2>2
<1>4. \A k \in 1..(Len(t) - 1) : t[k].kind = "struct" => t[k].fid \in Nat
  <2> SUFFICES ASSUME NEW k \in 1..Len(s) PROVE s[k].kind = "struct" => s[k].fid \in Nat
    BY <1>1, <1>2
  <2>1. s # <<>>
    BY <1>2, EmptySeq
  <2> QED
    BY <1>2, <2>1 DEF StackOK, FieldOpen
<1>5. StackOK(t)
  BY <1>1, <1>3, <1>4 DEF StackOK
<1> QED
  BY <1>1, <1>5 DEF t

LEMMA PopOK ==
    ASSUME NEW s, StackOK(s), s # <<>>
    PROVE  LET t == SubSeq(s, 1, Len(s) - 1) IN
           StackOK(t) /\ FieldOpen(t) /\ Len(t) = Len(s) - 1
<1> DEFINE t == SubSeq(s, 1, Len(s) - 1)
<1>1. /\ IsSeq(t) /\ Len(s) \in Nat \ {0} /\ Len(t) = Len(s) - 1
      /\ \A k \in 1..(Len(s) - 1) : t[k] = s[k]
  BY PopSeq DEF StackOK
<1> HIDE DEF t
<1>2. StackOK(t)
  BY <1>1 DEF StackOK
<1>3. t # <<>> => Len(t) \in 1..(Len(s) - 1)
  BY <1>1, EmptySeq DEF IsSeq
<1>4. FieldOpen(t)
  BY <1>1, <1>3 DEF FieldOpen, StackOK
<1> QED
  BY <1>1, <1>2, <1>4 DEF t

LEMMA SetTopOK ==
    ASSUME NEW s, StackOK(s), s # <<>>, NEW f, FrameOK(f), f.depth = s[Len(s)].depth
    PROVE  LET t == WithTop(s, f) IN
           StackOK(t) /\ Len(t) = Len(s) /\ t # <<>> /\ t[Len(t)] = f
<1> DEFINE t == WithTop(s, f)
<1>1. IsSeq(t) /\ Len(t) = Len(s) /\ \A k \in 1..Len(s) : t[k] = IF k = Len(s) THEN f ELSE s[k]
  BY SetTopSeq DEF StackOK
<1>2. Len(s) \in Nat \ {0}
  BY PopSeq DEF StackOK
<1> HIDE DEF t
<1>3. StackOK(t)
  BY <1>1, <1>2 DEF StackOK
<1>4. t # <<>> /\ t[Len(t)] = f
  BY <1>1, <1>2, EmptySeq
<1> QED
  BY <1>1, <1>3, <1>4 DEF t

LEMMA PushShares ==
    ASSUME NEW st, NEW st2, NEW g \in Goroutine, NEW free, NEW bi, NEW bi2, NEW f,
           Apart(st, free), Tell(st, bi), IsSeq(st[g]),
           \A h \in Goroutine \ {g} : st2[h] = st[h],
           st2[g] = Append(st[g], f),
           Held(f) \subseteq free, Tells(f, bi2), \A x : x # f.bs => bi2[x] = bi[x]
    PROVE  Apart(st2, free \ Held(f)) /\ Tell(st2, bi2)
<1> DEFINE n == Len(st[g])
<1>1. n \in Nat /\ Len(st2[g]) = n + 1 /\ st2[g][n + 1] = f /\ \A k \in 1..n : st2[g][k] = st[g][k]
  BY PushSeq, LenProperties DEF IsSeq
<1> HIDE DEF n
<1>2. ASSUME NEW h \in Goroutine, NEW k \in 1..Len(st2[h])
      PROVE  \/ k \in 1..Len(st[h]) /\ st2[h][k] = st[h][k]
             \/ h = g /\ k = n + 1 /\ st2[h][k] = f
  <2>1. CASE h = g
    BY <1>1, <2>1 DEF n
  <2>2. CASE h # g
    BY <2>2
  <2> QED
    BY <2>1, <2>2
<1>3. ASSUME NEW h \in Goroutine, NEW k \in Nat, NEW x
      PROVE  Holds(st2, h, k, x) <=> Holds(st, h, k, x) \/ (h = g /\ k = n + 1 /\ x \in Held(f))
  <2>1. CASE h = g
    BY <1>1, <2>1 DEF n, Holds
  <2>2. CASE h # g
    BY <2>2 DEF Holds
  <2> QED
    BY <2>1, <2>2
<1>4. Apart(st2, free \ Held(f))
  BY <1>1, <1>3 DEF Apart
<1>5. ASSUME NEW h \in Goroutine, NEW k \in 1..Len(st[h])
      PROVE  st[h][k].bs # None => st[h][k].bs # f.bs
  <2>1. SUFFICES ASSUME st[h][k].bs = f.bs, f.bs # None PROVE FALSE
    OBVIOUS
  <2>2. f.bs \in free
    BY <2>1 DEF Held
  <2>3. Holds(st, h, k, f.bs)
    BY <2>1 DEF Holds, Held
  <2> QED
    BY <2>2, <2>3 DEF Apart
<1>6. ASSUME NEW h \in Goroutine, NEW k \in 1..Len(st2[h]) PROVE Tells(st2[h][k], bi2)
  <2>1. CASE h = g /\ k = n + 1
    BY <1>1, <2>1
  <2>2. CASE k \in 1..Len(st[h]) /\ st2[h][k] = st[h][k]
    <3>1. Tells(st[h][k], bi)
      BY <2>2 DEF Tell
    <3> QED
      BY <1>5, <2>2, <3>1 DEF Tells
  <2> QED
    BY <1>2, <2>1, <2>2
<1> QED
  BY <1>4, <1>6 DEF Tell

LEMMA PopShares ==
    ASSUME NEW st, NEW st2, NEW g \in Goroutine, NEW free, NEW bi,
           Apart(st, free), Tell(st, bi), IsSeq(st[g]), st[g] # <<>>,
           \A h \in Goroutine \ {g} : st2[h] = st[h],
           st2[g] = SubSeq(st[g], 1, Len(st[g]) - 1)
    PROVE  Apart(st2, free \cup Held(st[g][Len(st[g])])) /\ Tell(st2, bi)
<1> DEFINE n == Len(st[g])
           f == st[g][n]
<1>1. n \in Nat \ {0} /\ Len(st2[g]) = n - 1 /\ \A k \in 1..(n - 1) : st2[g][k] = st[g][k]
  BY PopSeq
<1> HIDE DEF n
<1>2. ASSUME NEW h \in Goroutine, NEW k \in 1..Len(st2[h])
      PROVE  k \in 1..Len(st[h]) /\ st2[h][k] = st[h][k]
  <2>1. CASE h = g
    BY <1>1, <2>1 DEF n
  <2>2. CASE h # g
    BY <2>2
  <2> QED
    BY <2>1, <2>2
<1>3. ASSUME NEW h \in Goroutine, NEW k \in Nat, NEW x
      PROVE  Holds(st2, h, k, x) <=> Holds(st, h, k, x) /\ ~(h = g /\ k = n)
  <2>1. CASE h = g
    BY <1>1, <2>1 DEF n, Holds
  <2>2. CASE h # g
    BY <2>2 DEF Holds
  <2> QED
    BY <2>1, <2>2
<1>4. \A x : Holds(st, g, n, x) <=> x \in Held(f)
  BY <1>1 DEF n, Holds
<1> HIDE DEF f
<1>5. Apart(st2, free \cup Held(f))
  BY <1>1, <1>3, <1>4 DEF Apart
<1>6. Tell(st2, bi)
  BY <1>2 DEF Tell
<1> QED
  BY <1>5, <1>6 DEF n, f

LEMMA TopShares ==
    ASSUME NEW st, NEW st2, NEW g \in Goroutine, NEW free, NEW bi, NEW bi2, NEW f,
           Apart(st, free), Tell(st, bi), IsSeq(st[g]), st[g] # <<>>,
           \A h \in Goroutine \ {g} : st2[h] = st[h],
           st2[g] = WithTop(st[g], f),
           Held(f) = Held(st[g][Len(st[g])]), Tells(f, bi2),
           f.bs = st[g][Len(st[g])].bs, \A x : x # f.bs \/ f.bs = None => bi2[x] = bi[x]
    PROVE  Apart(st2, free) /\ Tell(st2, bi2)
<1> DEFINE n == Len(st[g])
<1>1. n \in Nat \ {0} /\ Len(st2[g]) = n
      /\ \A k \in 1..n : st2[g][k] = IF k = n THEN f ELSE st[g][k]
  BY PopSeq, SetTopSeq
<1>2. Held(f) = Held(st[g][n]) /\ f.bs = st[g][n].bs
  OBVIOUS
<1> HIDE DEF n
<1>3. ASSUME NEW h \in Goroutine, NEW k \in Nat, NEW x
      PROVE  Holds(st2, h, k, x) <=> Holds(st, h, k, x)
  <2>1. CASE h = g
    BY <1>1, <1>2, <2>1 DEF n, Holds
  <2>2. CASE h # g
    BY <2>2 DEF Holds
  <2> QED
    BY <2>1, <2>2
<1>4. Apart(st2, free)
  BY <1>3 DEF Apart
<1>5. ASSUME NEW h \in Goroutine, NEW k \in 1..Len(st[h]), ~(h = g /\ k = n)
      PROVE  st[h][k].bs # None => st[h][k].bs # f.bs
  <2>1. SUFFICES ASSUME st[h][k].bs = f.bs, f.bs # None PROVE FALSE
    OBVIOUS
  <2>2. Holds(st, h, k, f.bs) /\ Holds(st, g, n, f.bs)
    BY <1>1, <1>2, <2>1 DEF n, Holds, Held
  <2> QED
    BY <1>1, <1>5, <2>2 DEF Apart
<1>6. ASSUME NEW h \in Goroutine, NEW k \in 1..Len(st2[h]) PROVE Tells(st2[h][k], bi2)
  <2>1. CASE h = g /\ k = n
    BY <1>1, <2>1
  <2>2. CASE ~(h = g /\ k = n)
    <3>1. k \in 1..Len(st[h]) /\ st2[h][k] = st[h][k]
      BY <1>1, <2>2 DEF n
    <3>2. Tells(st[h][k], bi)
      BY <3>1 DEF Tell
    <3> QED
      BY <1>5, <2>2, <3>1, <3>2 DEF Tells
  <2> QED
    BY <2>1, <2>2
<1> QED
  BY <1>4, <1>6 DEF Tell

LEMMA FreeShares ==
    ASSUME NEW st, NEW free, NEW bi, NEW bi2, Apart(st, free), Tell(st, bi),
           \A x : x \notin free => bi2[x] = bi[x]
    PROVE  Tell(st, bi2)
<1> SUFFICES ASSUME NEW g \in Goroutine, NEW k \in 1..Len(st[g]) PROVE Tells(st[g][k], bi2)
  BY DEF Tell
<1>1. Tells(st[g][k], bi)
  BY DEF Tell
<1>2. st[g][k].bs # None => st[g][k].bs \notin free
  BY DEF Apart, Holds, Held
<1> QED
  BY <1>1, <1>2 DEF Tells

-----------------------------------------------------------------------------
(***************************************************************************)
(* One step.                                                               *)
(***************************************************************************)
LEMMA InitInv == Init => Inv
<1> SUFFICES ASSUME Init PROVE Inv
  OBVIOUS
<1>1. Shapes
  BY DEF Init, Shapes
<1>2. IsSeq(<<>>) /\ Len(<<>>) = 0
  BY EmptySeq DEF IsSeq
<1>3. ASSUME NEW g \in Goroutine
      PROVE  LocalOK(stack[g], pc[g], job[g], ret[g], pos[g], ask[g].b)
  <2>1. stack[g] = <<>> /\ pc[g] = "idle" /\ job[g] = NoJob /\ ret[g] = <<>> /\ pos[g] = 1
        /\ ask[g].b = <<>>
    BY DEF Init, NoAsk
  <2>2. StackOK(<<>>)
    BY <1>2 DEF StackOK
  <2>3. NoJob = [type |-> NoJob.type, depth |-> NoJob.depth, val |-> NoJob.val]
        /\ NoJob.depth \in 0..MaxDepth
    BY DepthAssumption DEF NoJob
  <2>4. <<>> \in Text /\ 1 \in 1..(Len(<<>>) + 1)
    BY <1>2 DEF Text
  <2>5. LocalOK(<<>>, "idle", NoJob, <<>>, 1, <<>>)
    BY <2>2, <2>3, <2>4 DEF LocalOK, Entering
  <2> QED
    BY <2>1, <2>5
<1>4. \A g \in Goroutine : Len(stack[g]) = 0
  BY <1>2 DEF Init
<1>5. Apart(stack, Free)
  BY <1>4 DEF Init, Apart, Holds, Free
<1>6. Tell(stack, bits)
  BY <1>4 DEF Tell
<1> QED
  BY <1>1, <1>3, <1>5, <1>6 DEF Inv

\* A step of one goroutine.
LEMMA OneMoves ==
    ASSUME Inv, NEW g \in Goroutine,
           \A h \in Goroutine \ {g} :
               /\ stack'[h] = stack[h] /\ pc'[h] = pc[h] /\ job'[h] = job[h]
               /\ ret'[h] = ret[h] /\ pos'[h] = pos[h] /\ ask'[h] = ask[h],
           LocalOK(stack'[g], pc'[g], job'[g], ret'[g], pos'[g], ask'[g].b),
           Shapes', Apart(stack', Free'), Tell(stack', bits')
    PROVE  Inv'
<1>1. ASSUME NEW h \in Goroutine
      PROVE  LocalOK(stack'[h], pc'[h], job'[h], ret'[h], pos'[h], ask'[h].b)
  <2>1. CASE h = g
    BY <2>1
  <2>2. CASE h # g
    BY <2>2 DEF Inv
  <2> QED
    BY <2>1, <2>2
<1> QED
  BY <1>1 DEF Inv

\* Most steps leave the stacks and the pools alone.
LEMMA QuietStep ==
    ASSUME Inv, NEW g \in Goroutine, UNCHANGED <<bits, bitsetPool, unknownPool, tmps, tmpPool, stack>>,
           \A h \in Goroutine \ {g} :
               /\ pc'[h] = pc[h] /\ job'[h] = job[h]
               /\ ret'[h] = ret[h] /\ pos'[h] = pos[h] /\ ask'[h] = ask[h],
           LocalOK(stack[g], pc'[g], job'[g], ret'[g], pos'[g], ask'[g].b), Shapes'
    PROVE  Inv'
<1>1. Free' = Free
  BY DEF Free
<1>2. Apart(stack', Free') /\ Tell(stack', bits')
  BY <1>1 DEF Inv
<1> QED
  BY <1>2, OneMoves

\* The value given goes to one of as many frames as there are.
LEMMA GiveFacts ==
    ASSUME NEW g \in Goroutine, DOMAIN ret = Goroutine
    PROVE  /\ GiveNone(g) => /\ DOMAIN ret' = Goroutine /\ ret'[g] = <<>>
                             /\ \A h \in Goroutine \ {g} : ret'[h] = ret[h]
           /\ \A s, v : Give(g, s, v) => /\ DOMAIN ret' = Goroutine /\ ret'[g][1] = Len(s)
                                         /\ \A h \in Goroutine \ {g} : ret'[h] = ret[h]
           /\ GiveUp(g) => /\ DOMAIN ret' = Goroutine
                           /\ ret'[g] # <<>> => ret'[g][1] = Len(stack[g])
                           /\ \A h \in Goroutine \ {g} : ret'[h] = ret[h]
<1>1. GiveNone(g) => /\ DOMAIN ret' = Goroutine /\ ret'[g] = <<>>
                     /\ \A h \in Goroutine \ {g} : ret'[h] = ret[h]
  BY DEF GiveNone
<1>2. ASSUME NEW s, NEW v, Give(g, s, v)
      PROVE  /\ DOMAIN ret' = Goroutine /\ ret'[g][1] = Len(s)
             /\ \A h \in Goroutine \ {g} : ret'[h] = ret[h]
  BY <1>2 DEF Give
<1>3. ASSUME GiveUp(g)
      PROVE  /\ DOMAIN ret' = Goroutine
             /\ ret'[g] # <<>> => ret'[g][1] = Len(stack[g])
             /\ \A h \in Goroutine \ {g} : ret'[h] = ret[h]
  <2>1. GiveNone(g) \/ \E v : Give(g, stack[g], v)
    BY <1>3 DEF GiveUp
  <2> QED
    BY <1>1, <1>2, <2>1
<1> QED
  BY <1>1, <1>2, <1>3

\* A token is one of a message.
LEMMA TokFacts ==
    ASSUME Inv, NEW g \in Goroutine
    PROVE  /\ Len(b(g)) \in Nat /\ i(g) \in 1..(Len(b(g)) + 1)
           /\ ~AtEnd(g) => i(g) + 1 \in 1..(Len(b(g)) + 1)
           /\ IsTok(g, "field") => /\ Tok(g).id \in Nat
                                   /\ i(g) + Skip(b(g), i(g) + 1, Tok(g).wt) + 1 \in 1..(Len(b(g)) + 1)
<1>1. b(g) \in Text /\ i(g) \in 1..(Len(b(g)) + 1)
  BY DEF Inv, LocalOK, b, i
<1>2. CASE b(g) = <<>>
  <2>1. Len(b(g)) = 0
    BY <1>2
  <2> QED
    BY <1>1, <2>1 DEF IsTok, AtEnd
<1>3. CASE \E s \in DOMAIN Message : b(g) \in Message[s]
  <2>1. Len(b(g)) \in Nat
    BY <1>3, MessageAssumption, LenProperties
  <2>2. ASSUME i(g) \in 1..Len(b(g)), b(g)[i(g)].tok = "field"
        PROVE  /\ b(g)[i(g)].id \in Nat
               /\ Skip(b(g), i(g) + 1, b(g)[i(g)].wt) \in 0..(Len(b(g)) - i(g))
    BY <1>3, <2>2, MessageAssumption, SkipAssumption
  <2> QED
    BY <1>1, <2>1, <2>2 DEF IsTok, AtEnd, Tok
<1>4. b(g) = <<>> \/ \E s \in DOMAIN Message : b(g) \in Message[s]
  BY <1>1 DEF Text
<1> QED
  BY <1>2, <1>3, <1>4

\* An error or a panic begins.
LEMMA GivesUp ==
    ASSUME Inv, NEW g \in Goroutine, NEW p \in {"fail", "panic"}, pc' = [pc EXCEPT ![g] = p],
           GiveUp(g) \/ GiveNone(g), UNCHANGED <<pools, ask, pos, stack, job, res>>
    PROVE  Inv'
<1>1. Shapes /\ LocalOK(stack[g], pc[g], job[g], ret[g], pos[g], ask[g].b)
  BY DEF Inv
<1>2. /\ DOMAIN ret' = Goroutine
      /\ ret'[g] # <<>> => ret'[g][1] = Len(stack[g])
      /\ \A h \in Goroutine \ {g} : ret'[h] = ret[h]
  BY <1>1, GiveFacts DEF Shapes
<1>3. Shapes'
  BY <1>1, <1>2 DEF Shapes, pools
<1>4. pc'[g] = p /\ \A h \in Goroutine \ {g} : pc'[h] = pc[h]
  BY <1>1 DEF Shapes
<1>5. LocalOK(stack[g], p, job[g], ret'[g], pos[g], ask[g].b)
  BY <1>1, <1>2 DEF LocalOK, Entering
<1> QED
  BY <1>2, <1>3, <1>4, <1>5, QuietStep DEF pools

\* The steps that end in an error or a panic.
LEMMA ErrorKeeps ==
    ASSUME Inv, NEW g \in Goroutine,
           EnterTooDeep(g) \/ TypeTooDeep(g) \/ BadHeader(g) \/ OutOfRange(g)
    PROVE  Inv'
<1>1. \/ pc' = [pc EXCEPT ![g] = "fail"]
      \/ pc' = [pc EXCEPT ![g] = "panic"]
  BY DEF EnterTooDeep, TypeTooDeep, BadHeader, OutOfRange, Goto
<1>2. GiveUp(g) \/ GiveNone(g)
  BY DEF EnterTooDeep, TypeTooDeep, BadHeader, OutOfRange
<1>3. UNCHANGED <<pools, ask, pos, stack, job, res>>
  BY DEF EnterTooDeep, TypeTooDeep, BadHeader, OutOfRange
<1> QED
  BY <1>1, <1>2, <1>3, GivesUp

LEMMA SkipFieldKeeps ==
    ASSUME Inv, NEW g \in Goroutine, SkipField(g) PROVE Inv'
<1>1. Shapes /\ LocalOK(stack[g], pc[g], job[g], ret[g], pos[g], ask[g].b)
  BY DEF Inv
<1>2. pc[g] = "fields" /\ IsTok(g, "field")
      /\ UNCHANGED <<bits, bitsetPool, unknownPool, tmps, tmpPool, ask, stack, job, ret, res>>
  BY DEF SkipField, InStruct
<1>3. CASE pc' = [pc EXCEPT ![g] = "fail"] /\ UNCHANGED <<offs, pos>>
  <2>1. Shapes'
    BY <1>1, <1>2, <1>3 DEF Shapes
  <2>2. LocalOK(stack[g], "fail", job[g], ret[g], pos[g], ask[g].b)
    BY <1>1 DEF LocalOK, Entering
  <2>3. pc'[g] = "fail" /\ \A h \in Goroutine \ {g} : pc'[h] = pc[h]
    BY <1>1, <1>3 DEF Shapes
  <2> QED
    BY <1>2, <1>3, <2>1, <2>2, <2>3, QuietStep
<1>4. CASE /\ pos' = [pos EXCEPT ![g] = i(g) + Skip(b(g), i(g) + 1, Tok(g).wt) + 1]
           /\ DOMAIN offs' = DOMAIN offs /\ UNCHANGED pc
  <2>1. Shapes'
    BY <1>1, <1>2, <1>4 DEF Shapes
  <2>2. pos'[g] \in 1..(Len(ask[g].b) + 1) /\ \A h \in Goroutine \ {g} : pos'[h] = pos[h]
    BY <1>1, <1>2, <1>4, TokFacts DEF Shapes, b
  <2>3. LocalOK(stack[g], pc[g], job[g], ret[g], pos'[g], ask[g].b)
    BY <1>1, <2>2 DEF LocalOK
  <2> QED
    BY <1>2, <1>4, <2>1, <2>2, <2>3, QuietStep
<1> QED
  BY <1>3, <1>4 DEF SkipField, Goto, PastSkipped

\* A number or a string is read.
LEMMA ReadKeeps ==
    ASSUME Inv, NEW g \in Goroutine, Fixed(g) \/ String(g) PROVE Inv'
<1>1. Shapes /\ LocalOK(stack[g], pc[g], job[g], ret[g], pos[g], ask[g].b)
  BY DEF Inv
<1>2. pc[g] \in Entering /\ UNCHANGED <<pools, ask, stack, job, res>>
  BY DEF Fixed, String, Goto, Entering
<1>3. CASE pc' = [pc EXCEPT ![g] = "fail"] /\ GiveUp(g) /\ UNCHANGED pos
  BY <1>2, <1>3, GivesUp
<1>4. CASE ~AtEnd(g) /\ pc' = [pc EXCEPT ![g] = "return"] /\ Move(g, 1) /\ \E v : Give(g, stack[g], v)
  <2>1. /\ DOMAIN ret' = Goroutine
        /\ ret'[g][1] = Len(stack[g])
        /\ \A h \in Goroutine \ {g} : ret'[h] = ret[h]
    BY <1>1, <1>4, GiveFacts DEF Shapes
  <2>2. pos'[g] = i(g) + 1 /\ DOMAIN pos' = Goroutine /\ \A h \in Goroutine \ {g} : pos'[h] = pos[h]
    BY <1>1, <1>4 DEF Shapes, Move, i
  <2>3. Shapes'
    BY <1>1, <1>2, <1>4, <2>1, <2>2 DEF Shapes, pools
  <2>4. pc'[g] = "return" /\ \A h \in Goroutine \ {g} : pc'[h] = pc[h]
    BY <1>1, <1>4 DEF Shapes
  <2>5. pos'[g] \in 1..(Len(ask[g].b) + 1)
    BY <1>4, <2>2, TokFacts DEF b
  <2>6. LocalOK(stack[g], "return", job[g], ret'[g], pos'[g], ask[g].b)
    BY <1>1, <1>2, <2>1, <2>5 DEF LocalOK, Entering
  <2> QED
    BY <1>2, <2>1, <2>2, <2>3, <2>4, <2>6, QuietStep DEF pools
<1> QED
  BY <1>3, <1>4 DEF Fixed, String, StringFits, IsTok, Goto

LEMMA NotAllSetKeeps ==
    ASSUME Inv, NEW g \in Goroutine, NotAllSet(g) PROVE Inv'
<1>1. Shapes /\ LocalOK(stack[g], pc[g], job[g], ret[g], pos[g], ask[g].b)
  BY DEF Inv
<1>2. /\ pc' = [pc EXCEPT ![g] = "fail"] /\ Move(g, 1) /\ ~AtEnd(g)
      /\ UNCHANGED <<pools, ask, stack, job, ret, res>>
  BY DEF NotAllSet, Goto, IsTok
<1>3. pos'[g] = i(g) + 1 /\ DOMAIN pos' = Goroutine /\ \A h \in Goroutine \ {g} : pos'[h] = pos[h]
  BY <1>1, <1>2 DEF Shapes, Move, i
<1>4. Shapes'
  BY <1>1, <1>2, <1>3 DEF Shapes, pools
<1>5. pc'[g] = "fail" /\ \A h \in Goroutine \ {g} : pc'[h] = pc[h]
  BY <1>1, <1>2 DEF Shapes
<1>6. pos'[g] \in 1..(Len(ask[g].b) + 1)
  BY <1>2, <1>3, TokFacts DEF b
<1>7. LocalOK(stack[g], "fail", job[g], ret[g], pos'[g], ask[g].b)
  BY <1>1, <1>6 DEF LocalOK, Entering
<1> QED
  BY <1>2, <1>3, <1>4, <1>5, <1>7, QuietStep DEF pools

\* decodeType goes on to Decode, one level deeper.
LEMMA OpenStructKeeps ==
    ASSUME Inv, NEW g \in Goroutine, OpenStruct(g) PROVE Inv'
<1>1. Shapes /\ LocalOK(stack[g], pc[g], job[g], ret[g], pos[g], ask[g].b)
  BY DEF Inv
<1>2. /\ pc[g] = "type" /\ pc' = [pc EXCEPT ![g] = "enter"] /\ job[g].depth # 0
      /\ UNCHANGED <<pools, ask, pos, stack, ret, res>>
      /\ \E f : job' = [job EXCEPT ![g].depth = @ - 1, ![g].val.f = f]
  BY DEF OpenStruct, Goto, TooDeep
<1>3. DOMAIN job' = Goroutine /\ \A h \in Goroutine \ {g} : job'[h] = job[h]
  BY <1>1, <1>2 DEF Shapes
<1>4. /\ job'[g] = [type |-> job'[g].type, depth |-> job'[g].depth, val |-> job'[g].val]
      /\ job'[g].depth = job[g].depth - 1
  <2>1. PICK f : job' = [job EXCEPT ![g].depth = @ - 1, ![g].val.f = f]
    BY <1>2
  <2> QED
    BY <1>1, <2>1 DEF Shapes, LocalOK
<1>5. Shapes'
  BY <1>1, <1>2, <1>3 DEF Shapes, pools
<1>6. pc'[g] = "enter" /\ \A h \in Goroutine \ {g} : pc'[h] = pc[h]
  BY <1>1, <1>2 DEF Shapes
<1>7. job'[g].depth \in 0..MaxDepth /\ Len(stack[g]) + job'[g].depth <= MaxDepth
  <2>1. Len(stack[g]) \in Nat
    BY <1>1, LenProperties DEF LocalOK, StackOK, IsSeq
  <2>2. job[g].depth \in 0..MaxDepth /\ Len(stack[g]) + job[g].depth <= MaxDepth
    BY <1>1, <1>2 DEF LocalOK, Entering
  <2> QED
    BY <1>2, <1>4, <2>1, <2>2, DepthAssumption
<1>8. LocalOK(stack[g], "enter", job'[g], ret[g], pos[g], ask[g].b)
  BY <1>1, <1>2, <1>4, <1>7 DEF LocalOK, Entering
<1> QED
  BY <1>2, <1>3, <1>5, <1>6, <1>8, QuietStep DEF pools

\* The top frame is well formed, and leaves its values one level less.
LEMMA TopFacts ==
    ASSUME Inv, NEW g \in Goroutine, stack[g] # <<>>
    PROVE  /\ Len(stack[g]) \in Nat \ {0}
           /\ FrameOK(Top(g))
           /\ NextDepth(Top(g)) \in 0..MaxDepth
           /\ Len(stack[g]) + NextDepth(Top(g)) <= MaxDepth
<1>1. StackOK(stack[g])
  BY DEF Inv, LocalOK
<1>2. Len(stack[g]) \in Nat \ {0}
  BY <1>1, PopSeq DEF StackOK
<1>3. FrameOK(Top(g)) /\ Len(stack[g]) + Top(g).depth <= MaxDepth + 1
  BY <1>1, <1>2 DEF StackOK, Top
<1>4. Top(g).depth \in 1..MaxDepth
  BY <1>3 DEF FrameOK
<1> QED
  BY <1>2, <1>3, <1>4, DepthAssumption DEF NextDepth

LEMMA NextElementKeeps ==
    ASSUME Inv, NEW g \in Goroutine, NextElement(g) PROVE Inv'
<1>1. Shapes /\ LocalOK(stack[g], pc[g], job[g], ret[g], pos[g], ask[g].b)
  BY DEF Inv
<1>2. /\ pc[g] = "elements"
      /\ \E p \in {"inline", "type"} : pc' = [pc EXCEPT ![g] = p]
      /\ \E x, y : job' = [job EXCEPT ![g] = [type |-> x, depth |-> NextDepth(Top(g)), val |-> y]]
      /\ UNCHANGED <<pools, ask, pos, stack, ret, res>>
  BY DEF NextElement
<1>3. /\ DOMAIN job' = Goroutine /\ \A h \in Goroutine \ {g} : job'[h] = job[h]
      /\ job'[g] = [type |-> job'[g].type, depth |-> job'[g].depth, val |-> job'[g].val]
      /\ job'[g].depth = NextDepth(Top(g))
  BY <1>1, <1>2 DEF Shapes
<1>4. PICK p \in {"inline", "type"} : pc' = [pc EXCEPT ![g] = p]
  BY <1>2
<1>5. pc'[g] = p /\ \A h \in Goroutine \ {g} : pc'[h] = pc[h]
  BY <1>1, <1>4 DEF Shapes
<1>6. Shapes'
  BY <1>1, <1>2, <1>3, <1>4 DEF Shapes, pools
<1>7. stack[g] # <<>> /\ Top(g).kind # "struct"
  BY <1>1, <1>2 DEF LocalOK, Top
<1>8. LocalOK(stack[g], p, job'[g], ret[g], pos[g], ask[g].b)
  BY <1>1, <1>2, <1>3, <1>7, TopFacts DEF LocalOK, Entering, FieldOpen, Top
<1> QED
  BY <1>2, <1>3, <1>5, <1>6, <1>8, QuietStep DEF pools

LEMMA DoneKeeps ==
    ASSUME Inv, NEW g \in Goroutine, Done(g) PROVE Inv'
<1>1. Shapes /\ LocalOK(stack[g], pc[g], job[g], ret[g], pos[g], ask[g].b)
  BY DEF Inv
<1>2. /\ stack[g] = <<>> /\ pc' = [pc EXCEPT ![g] = "idle"]
      /\ pos' = [pos EXCEPT ![g] = 1] /\ job' = [job EXCEPT ![g] = NoJob]
      /\ \E r \in {"ok", "error", "panic"} : res' = [res EXCEPT ![g] = r]
      /\ UNCHANGED <<pools, ask, stack, ret>>
  <2>1. \E r \in {"ok", "error", "panic"} : res' = [res EXCEPT ![g] = r]
    BY DEF Done
  <2> QED
    BY <2>1 DEF Done
<1>3. /\ pc'[g] = "idle" /\ pos'[g] = 1 /\ job'[g] = NoJob
      /\ \A h \in Goroutine \ {g} : pc'[h] = pc[h] /\ pos'[h] = pos[h] /\ job'[h] = job[h]
  BY <1>1, <1>2 DEF Shapes
<1>4. Shapes'
  BY <1>1, <1>2 DEF Shapes, pools
<1>5. 1 \in 1..(Len(ask[g].b) + 1)
  BY TokFacts DEF b
<1>6. NoJob = [type |-> NoJob.type, depth |-> NoJob.depth, val |-> NoJob.val]
      /\ NoJob.depth \in 0..MaxDepth
  BY DepthAssumption DEF NoJob
<1>7. LocalOK(stack[g], "idle", NoJob, ret[g], 1, ask[g].b)
  BY <1>1, <1>2, <1>5, <1>6 DEF LocalOK, Entering
<1> QED
  BY <1>2, <1>3, <1>4, <1>7, QuietStep DEF pools

LEMMA CallKeeps ==
    ASSUME Inv, NEW g \in Goroutine, NEW s \in DOMAIN Message, NEW m \in Message[s], Call(g, s, m)
    PROVE  Inv'
<1>1. Shapes /\ LocalOK(stack[g], pc[g], job[g], ret[g], pos[g], ask[g].b)
  BY DEF Inv
<1>2. /\ pc[g] = "idle" /\ pc' = [pc EXCEPT ![g] = "enter"]
      /\ pos' = [pos EXCEPT ![g] = 1] /\ res' = [res EXCEPT ![g] = "ok"] /\ GiveNone(g)
      /\ UNCHANGED <<pools, stack>>
      /\ \E val : /\ ask' = [ask EXCEPT ![g] = [sd |-> s, b |-> m, val |-> val]]
                  /\ job' = [job EXCEPT ![g] = [type |-> Struct(s), depth |-> MaxDepth, val |-> val]]
  BY DEF Call, Goto
<1>3. PICK val : /\ ask' = [ask EXCEPT ![g] = [sd |-> s, b |-> m, val |-> val]]
                 /\ job' = [job EXCEPT ![g] = [type |-> Struct(s), depth |-> MaxDepth, val |-> val]]
  BY <1>2
<1>4. DOMAIN ret' = Goroutine /\ ret'[g] = <<>> /\ \A h \in Goroutine \ {g} : ret'[h] = ret[h]
  BY <1>1, <1>2, GiveFacts DEF Shapes
<1>5. /\ pc'[g] = "enter" /\ pos'[g] = 1 /\ ask'[g].b = m
      /\ job'[g] = [type |-> Struct(s), depth |-> MaxDepth, val |-> val]
      /\ \A h \in Goroutine \ {g} :
            pc'[h] = pc[h] /\ pos'[h] = pos[h] /\ job'[h] = job[h] /\ ask'[h] = ask[h]
  BY <1>1, <1>2, <1>3 DEF Shapes
<1>6. Shapes'
  BY <1>1, <1>2, <1>3, <1>4 DEF Shapes, pools
<1>7. stack[g] = <<>> /\ Len(stack[g]) = 0 /\ StackOK(stack[g]) /\ FieldOpen(stack[g])
  BY <1>1, <1>2 DEF LocalOK, FieldOpen
<1>8. m \in Text /\ 1 \in 1..(Len(m) + 1)
  <2>1. m \in Seq(Range(m))
    BY MessageAssumption
  <2>2. Len(m) \in Nat
    BY <2>1, LenProperties
  <2> QED
    BY <2>2 DEF Text
<1>9. LocalOK(stack[g], "enter", job'[g], ret'[g], 1, m)
  BY <1>4, <1>5, <1>7, <1>8, DepthAssumption DEF LocalOK, Entering
<1> QED
  BY <1>2, <1>4, <1>5, <1>6, <1>9, QuietStep DEF pools

-----------------------------------------------------------------------------
(***************************************************************************)
(* The steps that change a stack.                                          *)
(***************************************************************************)
\* A frame is made, with what it borrows.
LEMMA PushStep ==
    ASSUME Inv, NEW g \in Goroutine, NEW f, NEW p \in {"fields", "elements"},
           stack' = Push(g, f), FrameOK(f), Tells(f, bits'), pc[g] \in Entering,
           p = "fields" <=> f.kind = "struct", pc' = [pc EXCEPT ![g] = p],
           f.depth = job[g].depth, UNCHANGED <<ask, job, ret, res>>,
           DOMAIN pos' = Goroutine, \A h \in Goroutine \ {g} : pos'[h] = pos[h],
           pos'[g] \in 1..(Len(ask[g].b) + 1),
           Held(f) \subseteq Free, Free' = Free \ Held(f), \A x : x # f.bs => bits'[x] = bits[x],
           bits' \in [Bitset -> SUBSET Nat], DOMAIN offs' = Unknown, DOMAIN tmps' = Tmp,
           bitsetPool' \subseteq Bitset, unknownPool' \subseteq Unknown, tmpPool' \subseteq Tmp
    PROVE  Inv'
<1>1. Shapes /\ LocalOK(stack[g], pc[g], job[g], ret[g], pos[g], ask[g].b)
  BY DEF Inv
<1>2. stack'[g] = Append(stack[g], f) /\ \A h \in Goroutine \ {g} : stack'[h] = stack[h]
  BY <1>1 DEF Shapes, Push
<1>3. Shapes'
  BY <1>1 DEF Shapes, Push
<1>4. StackOK(stack[g]) /\ FieldOpen(stack[g]) /\ Len(stack[g]) + f.depth <= MaxDepth /\ ret[g] = <<>>
  BY <1>1 DEF LocalOK
<1>5. StackOK(stack'[g])
  BY <1>2, <1>4, PushOK
<1>6. IsSeq(stack[g])
  BY <1>4 DEF StackOK
<1>7. stack'[g] # <<>> /\ stack'[g][Len(stack'[g])] = f
  <2>1. Len(Append(stack[g], f)) = Len(stack[g]) + 1 /\ Append(stack[g], f)[Len(stack[g]) + 1] = f
    BY <1>6, PushSeq
  <2>2. Len(stack[g]) \in Nat
    BY <1>6, LenProperties DEF IsSeq
  <2>3. Len(<<>>) = 0
    BY EmptySeq
  <2> QED
    BY <1>2, <2>1, <2>2, <2>3
<1>8. pc'[g] = p /\ \A h \in Goroutine \ {g} : pc'[h] = pc[h]
  BY <1>1 DEF Shapes
<1>9. LocalOK(stack'[g], p, job[g], ret[g], pos'[g], ask[g].b)
  BY <1>1, <1>4, <1>5, <1>7 DEF LocalOK, Entering
<1>10. Apart(stack', Free') /\ Tell(stack', bits')
  BY <1>2, <1>6, PushShares DEF Inv
<1>11. \A h \in Goroutine \ {g} :
          /\ stack'[h] = stack[h] /\ pc'[h] = pc[h] /\ job'[h] = job[h]
          /\ ret'[h] = ret[h] /\ pos'[h] = pos[h] /\ ask'[h] = ask[h]
  BY <1>2, <1>8
<1>12. LocalOK(stack'[g], pc'[g], job'[g], ret'[g], pos'[g], ask'[g].b)
  BY <1>8, <1>9
<1> QED
  BY <1>3, <1>10, <1>11, <1>12, OneMoves

\* A frame is done, or given up, and what it borrowed is given back.
LEMMA PopStep ==
    ASSUME Inv, NEW g \in Goroutine, NEW p \in {"return", "fail", "panic"}, stack[g] # <<>>,
           stack' = Pop(g), pc' = [pc EXCEPT ![g] = p],
           Free' = Free \cup Held(Top(g)), UNCHANGED <<bits, offs, ask, job, res>>,
           DOMAIN tmps' = Tmp,
           bitsetPool' \subseteq Bitset, unknownPool' \subseteq Unknown, tmpPool' \subseteq Tmp,
           DOMAIN ret' = Goroutine, \A h \in Goroutine \ {g} : ret'[h] = ret[h],
           ret'[g] # <<>> => ret'[g][1] = Len(Rest(g)),
           DOMAIN pos' = Goroutine, \A h \in Goroutine \ {g} : pos'[h] = pos[h],
           pos'[g] \in 1..(Len(ask[g].b) + 1)
    PROVE  Inv'
<1>1. Shapes /\ LocalOK(stack[g], pc[g], job[g], ret[g], pos[g], ask[g].b)
  BY DEF Inv
<1>2. stack'[g] = Rest(g) /\ \A h \in Goroutine \ {g} : stack'[h] = stack[h]
  BY <1>1 DEF Shapes, Pop
<1>3. Shapes'
  BY <1>1 DEF Shapes, Pop
<1>4. StackOK(Rest(g)) /\ FieldOpen(Rest(g)) /\ IsSeq(stack[g])
  BY <1>1, PopOK DEF LocalOK, Rest, StackOK
<1>5. pc'[g] = p /\ \A h \in Goroutine \ {g} : pc'[h] = pc[h]
  BY <1>1 DEF Shapes
<1>6. LocalOK(stack'[g], p, job[g], ret'[g], pos'[g], ask[g].b)
  BY <1>1, <1>2, <1>4 DEF LocalOK, Entering
<1>7. Apart(stack', Free') /\ Tell(stack', bits')
  BY <1>2, <1>4, PopShares DEF Inv, Top, Rest
<1> QED
  BY <1>2, <1>3, <1>5, <1>6, <1>7, OneMoves

\* The top frame is changed, but not what it borrows.
LEMMA TopStep ==
    ASSUME Inv, NEW g \in Goroutine, NEW f, NEW p, stack[g] # <<>>,
           p \in {"inline", "type", "fields", "elements"},
           stack' = SetTop(g, f), FrameOK(f), f.depth = Top(g).depth, f.kind = Top(g).kind,
           Held(f) = Held(Top(g)), f.bs = Top(g).bs, Tells(f, bits'),
           \A x : x # f.bs \/ f.bs = None => bits'[x] = bits[x],
           p = "fields" => f.kind = "struct", p = "elements" => f.kind # "struct",
           p \in Entering => /\ f.kind = "struct" => f.fid \in Nat
                             /\ Len(stack[g]) + job'[g].depth <= MaxDepth,
           pc' = [pc EXCEPT ![g] = p],
           DOMAIN job' = Goroutine, \A h \in Goroutine \ {g} : job'[h] = job[h],
           job'[g] = [type |-> job'[g].type, depth |-> job'[g].depth, val |-> job'[g].val],
           job'[g].depth \in 0..MaxDepth,
           DOMAIN ret' = Goroutine, \A h \in Goroutine \ {g} : ret'[h] = ret[h], ret'[g] = <<>>,
           DOMAIN pos' = Goroutine, \A h \in Goroutine \ {g} : pos'[h] = pos[h],
           pos'[g] \in 1..(Len(ask[g].b) + 1),
           UNCHANGED <<bitsetPool, offs, unknownPool, tmpPool, ask, res>>,
           bits' \in [Bitset -> SUBSET Nat], DOMAIN tmps' = Tmp
    PROVE  Inv'
<1>1. Shapes /\ LocalOK(stack[g], pc[g], job[g], ret[g], pos[g], ask[g].b)
  BY DEF Inv
<1>2. stack'[g] = WithTop(stack[g], f) /\ \A h \in Goroutine \ {g} : stack'[h] = stack[h]
  BY <1>1 DEF Shapes, SetTop, WithTop
<1>3. Shapes'
  BY <1>1 DEF Shapes, SetTop
<1>4. StackOK(stack[g]) /\ IsSeq(stack[g])
  BY <1>1 DEF LocalOK, StackOK
<1>5. StackOK(stack'[g]) /\ Len(stack'[g]) = Len(stack[g])
      /\ stack'[g] # <<>> /\ stack'[g][Len(stack'[g])] = f
  BY <1>2, <1>4, SetTopOK DEF Top
<1>6. pc'[g] = p /\ \A h \in Goroutine \ {g} : pc'[h] = pc[h]
  BY <1>1 DEF Shapes
<1>7. LocalOK(stack'[g], p, job'[g], ret'[g], pos'[g], ask[g].b)
  BY <1>1, <1>5 DEF LocalOK, Entering, FieldOpen
<1>8. Free' = Free
  BY DEF Free
<1>9. Apart(stack', Free') /\ Tell(stack', bits')
  <2>1. Apart(stack, Free) /\ Tell(stack, bits)
    BY DEF Inv
  <2>2. /\ Held(f) = Held(stack[g][Len(stack[g])])
        /\ f.bs = stack[g][Len(stack[g])].bs
    BY DEF Top
  <2>3. Apart(stack', Free) /\ Tell(stack', bits')
    BY <1>2, <1>4, <2>1, <2>2, TopShares
  <2> QED
    BY <1>8, <2>3
<1> QED
  BY <1>2, <1>3, <1>6, <1>7, <1>9, OneMoves

\* Enter: the bits of the required fields are cleared, so that they tell what the
\* frame has got so far, nothing.
LEMMA EnterKeeps ==
    ASSUME Inv, NEW g \in Goroutine, Enter(g) PROVE Inv'
<1>1. Shapes /\ LocalOK(stack[g], pc[g], job[g], ret[g], pos[g], ask[g].b)
  BY DEF Inv
<1> DEFINE s == job[g].type.sd
           hasReq == Required(s) # {}
           frame(x, u) == [kind |-> "struct", type |-> job[g].type, depth |-> job[g].depth,
                           val |-> job[g].val, bs |-> x, ufs |-> u, fid |-> None,
                           got |-> {}, n |-> 0, key |-> None, tmp |-> None]
<1>2. PICK x \in IF hasReq THEN bitsetPool ELSE {None},
           u \in IF StructDesc[s].unknown THEN unknownPool ELSE {None} :
              /\ stack' = Push(g, frame(x, u))
              /\ bitsetPool' = bitsetPool \ {x}
              /\ unknownPool' = unknownPool \ {u}
              /\ bits' = IF hasReq THEN [bits EXCEPT ![x] = Cleared(x, s)] ELSE bits
              /\ offs' = IF StructDesc[s].unknown THEN [offs EXCEPT ![u] = ResetOffs(u)] ELSE offs
  BY DEF Enter
<1>3. /\ pc[g] = "enter" /\ pc' = [pc EXCEPT ![g] = "fields"] /\ job[g].depth # 0
      /\ UNCHANGED <<tmps, tmpPool, ask, pos, job, ret, res>>
  BY DEF Enter, Goto, TooDeep
<1> DEFINE f == frame(x, u)
<1>4. /\ x \in Bitset \cup {None} /\ (x = None <=> Required(s) = {})
      /\ u \in Unknown \cup {None}
      /\ x = None \/ x \in bitsetPool
      /\ u = None \/ u \in unknownPool
  BY <1>1, PoolAssumption DEF Shapes
<1>5. job[g].depth \in 1..MaxDepth
  BY <1>1, <1>3, DepthAssumption DEF LocalOK
<1>6. FrameOK(f)
  BY <1>4, <1>5 DEF FrameOK, Record
<1>7. /\ bits' \in [Bitset -> SUBSET Nat] /\ DOMAIN offs' = Unknown
      /\ \A y : y # x => bits'[y] = bits[y]
      /\ x # None => bits'[x] = bits[x] \ Required(s)
  <2>1. CASE hasReq
    <3>1. x \in Bitset /\ bits' = [bits EXCEPT ![x] = bits[x] \ Required(s)]
      BY <1>1, <1>2, <2>1 DEF Shapes, Cleared
    <3>2. \A y : y # x => bits'[y] = bits[y]
      <4>1. \A y \in Bitset : y # x => bits'[y] = bits[y]
        BY <1>1, <3>1 DEF Shapes
      <4>2. bits' = [y \in Bitset |-> IF y = x THEN bits[x] \ Required(s) ELSE bits[y]]
        BY <1>1, <3>1 DEF Shapes
      <4> QED
        BY <3>1, <4>1, <4>2
    <3> QED
      BY <1>1, <1>2, <3>1, <3>2 DEF Shapes
  <2>2. CASE ~hasReq
    BY <1>1, <1>2, <2>2 DEF Shapes
  <2> QED
    BY <2>1, <2>2
<1>8. Tells(f, bits')
  BY <1>7 DEF Tells
<1>9. Held(f) = {x, u} \ {None}
  BY DEF Held
<1>10. Held(f) \subseteq Free /\ Free' = Free \ Held(f)
  <2>1. bitsetPool \subseteq Bitset /\ unknownPool \subseteq Unknown /\ tmpPool \subseteq Tmp
    BY <1>1 DEF Shapes
  <2>2. x \notin Unknown \cup Tmp /\ u \notin Bitset \cup Tmp
    BY <1>4, PoolAssumption
  <2>3. None \notin Free
    BY <2>1, PoolAssumption DEF Free
  <2>4. /\ bitsetPool' = bitsetPool \ {x, u}
        /\ unknownPool' = unknownPool \ {x, u}
        /\ tmpPool' = tmpPool \ {x, u}
    BY <1>2, <1>3, <2>1, <2>2
  <2>5. Free' = Free \ {x, u}
    BY <2>4 DEF Free
  <2>6. Free' = Free \ Held(f)
    BY <1>9, <2>3, <2>5
  <2>7. Held(f) \subseteq Free
    BY <1>4, <1>9 DEF Free
  <2> QED
    BY <2>6, <2>7
<1>11. /\ stack' = Push(g, f) /\ f.kind = "struct" /\ f.depth = job[g].depth /\ f.bs = x
       /\ bitsetPool' \subseteq Bitset /\ unknownPool' \subseteq Unknown /\ tmpPool' \subseteq Tmp
       /\ DOMAIN tmps' = Tmp /\ DOMAIN pos' = Goroutine /\ pos' = pos
       /\ pos[g] \in 1..(Len(ask[g].b) + 1) /\ pc[g] \in Entering
  BY <1>1, <1>2, <1>3 DEF Shapes, LocalOK, Entering
<1> HIDE DEF f
<1> QED
  BY <1>3, <1>6, <1>7, <1>8, <1>10, <1>11, PushStep

\* OpenMap and OpenList: a frame for elements borrows a temporary key and value if
\* it is a map's.
LEMMA OpenKeeps ==
    ASSUME Inv, NEW g \in Goroutine, OpenMap(g) \/ OpenList(g) PROVE Inv'
<1>1. Shapes /\ LocalOK(stack[g], pc[g], job[g], ret[g], pos[g], ask[g].b)
  BY DEF Inv
<1>2. /\ pc[g] = "type" /\ pc' = [pc EXCEPT ![g] = "elements"] /\ job[g].depth # 0
      /\ job[g].type.t # "struct" /\ ~AtEnd(g) /\ Move(g, 1)
      /\ UNCHANGED <<bits, bitsetPool, offs, unknownPool, ask, job, ret, res>>
  BY DEF OpenMap, OpenList, Goto, TooDeep, MapFits, ListFits, IsTok, pools
<1>3. PICK x \in tmpPool \cup {None} :
          /\ tmpPool' = tmpPool \ {x} /\ DOMAIN tmps' = DOMAIN tmps
          /\ stack' = Push(g, Elements(g, <<>>, x))
  <2>1. CASE OpenMap(g)
    BY <2>1 DEF OpenMap
  <2>2. CASE OpenList(g)
    <3>1. None \notin tmpPool
      BY <1>1, PoolAssumption DEF Shapes
    <3> QED
      BY <2>2, <3>1 DEF OpenList, pools
  <2> QED
    BY <2>1, <2>2
<1> DEFINE f == Elements(g, <<>>, x)
<1>4. /\ f.kind = job[g].type.t /\ f.depth = job[g].depth /\ f.bs = None /\ f.ufs = None /\ f.tmp = x
      /\ Record(f)
  BY DEF Elements, Record
<1> HIDE DEF f
<1>5. job[g].depth \in 1..MaxDepth
  BY <1>1, <1>2, DepthAssumption DEF LocalOK
<1>6. FrameOK(f)
  BY <1>1, <1>2, <1>4, <1>5 DEF FrameOK, Shapes
<1>7. Tells(f, bits')
  BY <1>4 DEF Tells
<1>8. Held(f) = {x} \ {None}
  BY <1>4 DEF Held
<1>9. Held(f) \subseteq Free /\ Free' = Free \ Held(f)
  BY <1>1, <1>2, <1>3, <1>8, PoolAssumption DEF Free, Shapes
<1>10. /\ DOMAIN pos' = Goroutine /\ \A h \in Goroutine \ {g} : pos'[h] = pos[h]
       /\ pos'[g] \in 1..(Len(ask[g].b) + 1)
  <2>1. pos'[g] = i(g) + 1 /\ DOMAIN pos' = Goroutine /\ \A h \in Goroutine \ {g} : pos'[h] = pos[h]
    BY <1>1, <1>2 DEF Shapes, Move, i
  <2> QED
    BY <1>2, <2>1, TokFacts DEF b
<1>11. /\ stack' = Push(g, f) /\ f.kind # "struct" /\ pc[g] \in Entering
       /\ bits' \in [Bitset -> SUBSET Nat] /\ DOMAIN offs' = Unknown /\ DOMAIN tmps' = Tmp
       /\ bitsetPool' \subseteq Bitset /\ unknownPool' \subseteq Unknown /\ tmpPool' \subseteq Tmp
  BY <1>1, <1>2, <1>3, <1>4 DEF Shapes, Entering, f
<1>12. \A y : y # f.bs => bits'[y] = bits[y]
  BY <1>2
<1> QED
  BY <1>2, <1>4, <1>6, <1>7, <1>9, <1>10, <1>11, <1>12, PushStep

\* What Release and PutTmp give back is what the top frame has borrowed.
LEMMA GivenBack ==
    ASSUME Inv, NEW g \in Goroutine, stack[g] # <<>>, Release(g), tmpPool' = PutTmp(g)
    PROVE  /\ Free' = Free \cup Held(Top(g))
           /\ bitsetPool' \subseteq Bitset /\ unknownPool' \subseteq Unknown /\ tmpPool' \subseteq Tmp
<1>1. FrameOK(Top(g)) /\ Shapes
  BY TopFacts DEF Inv
<1> QED
  BY <1>1 DEF Release, PutTmp, Free, Held, FrameOK, Shapes

LEMMA StructDoneKeeps ==
    ASSUME Inv, NEW g \in Goroutine, StructDone(g) PROVE Inv'
<1>1. Shapes /\ LocalOK(stack[g], pc[g], job[g], ret[g], pos[g], ask[g].b)
  BY DEF Inv
<1>2. /\ pc[g] = "fields" /\ pc' = [pc EXCEPT ![g] = "return"] /\ ~AtEnd(g) /\ Move(g, 1)
      /\ \E v : Give(g, Rest(g), v)
      /\ stack' = Pop(g) /\ Release(g)
      /\ UNCHANGED <<bits, offs, tmps, tmpPool, ask, job, res>>
  BY DEF StructDone, Goto, IsTok
<1>3. stack[g] # <<>> /\ Top(g).kind = "struct"
  BY <1>1, <1>2 DEF LocalOK, Top
<1>4. tmpPool' = PutTmp(g)
  <2>1. Top(g).tmp = None
    BY <1>3, TopFacts DEF FrameOK
  <2> QED
    BY <1>2, <2>1 DEF PutTmp
<1>5. /\ DOMAIN ret' = Goroutine /\ ret'[g][1] = Len(Rest(g))
      /\ \A h \in Goroutine \ {g} : ret'[h] = ret[h]
  BY <1>1, <1>2, GiveFacts DEF Shapes
<1>6. /\ DOMAIN pos' = Goroutine /\ \A h \in Goroutine \ {g} : pos'[h] = pos[h]
      /\ pos'[g] \in 1..(Len(ask[g].b) + 1)
  <2>1. pos'[g] = i(g) + 1 /\ DOMAIN pos' = Goroutine /\ \A h \in Goroutine \ {g} : pos'[h] = pos[h]
    BY <1>1, <1>2 DEF Shapes, Move, i
  <2> QED
    BY <1>2, <2>1, TokFacts DEF b
<1>7. DOMAIN tmps' = Tmp
  BY <1>1, <1>2 DEF Shapes
<1> QED
  BY <1>2, <1>3, <1>4, <1>5, <1>6, <1>7, GivenBack, PopStep

LEMMA ElementsDoneKeeps ==
    ASSUME Inv, NEW g \in Goroutine, ElementsDone(g) PROVE Inv'
<1>1. Shapes /\ LocalOK(stack[g], pc[g], job[g], ret[g], pos[g], ask[g].b)
  BY DEF Inv
<1>2. /\ pc[g] = "elements" /\ pc' = [pc EXCEPT ![g] = "return"]
      /\ \E v : Give(g, Rest(g), v)
      /\ stack' = Pop(g) /\ tmpPool' = PutTmp(g)
      /\ UNCHANGED <<bits, bitsetPool, offs, unknownPool, tmps, ask, pos, job, res>>
  BY DEF ElementsDone, Goto
<1>3. stack[g] # <<>> /\ Top(g).kind # "struct"
  BY <1>1, <1>2 DEF LocalOK, Top
<1>4. Release(g)
  <2>1. Top(g).bs = None /\ Top(g).ufs = None
    BY <1>3, TopFacts DEF FrameOK
  <2> QED
    BY <1>2, <2>1 DEF Release
<1>5. /\ DOMAIN ret' = Goroutine /\ ret'[g][1] = Len(Rest(g))
      /\ \A h \in Goroutine \ {g} : ret'[h] = ret[h]
  BY <1>1, <1>2, GiveFacts DEF Shapes
<1>6. /\ DOMAIN pos' = Goroutine /\ \A h \in Goroutine \ {g} : pos'[h] = pos[h]
      /\ pos'[g] \in 1..(Len(ask[g].b) + 1) /\ DOMAIN tmps' = Tmp
  BY <1>1, <1>2 DEF Shapes, LocalOK
<1> QED
  BY <1>2, <1>3, <1>4, <1>5, <1>6, GivenBack, PopStep

\* An error or a panic travels up, and what was borrowed is given back on the way.
LEMMA UnwindKeeps ==
    ASSUME Inv, NEW g \in Goroutine, Fail(g) \/ Panic(g) PROVE Inv'
<1>1. Shapes /\ LocalOK(stack[g], pc[g], job[g], ret[g], pos[g], ask[g].b)
  BY DEF Inv
<1>2. /\ pc[g] \in {"fail", "panic"} /\ stack[g] # <<>>
      /\ Release(g) /\ tmpPool' = PutTmp(g) /\ GiveRemains(g) /\ stack' = Pop(g)
      /\ UNCHANGED <<bits, offs, pc, ask, pos, job, res>>
  BY DEF Fail, Panic
<1>3. DOMAIN tmps' = Tmp
  <2>1. DOMAIN tmps' = DOMAIN tmps
    BY DEF Fail, Panic, Leave
  <2> QED
    BY <1>1, <2>1 DEF Shapes
<1>4. /\ DOMAIN ret' = Goroutine
      /\ ret'[g] # <<>> => ret'[g][1] = Len(Rest(g))
      /\ \A h \in Goroutine \ {g} : ret'[h] = ret[h]
  <2>1. GiveNone(g) \/ \E v : Give(g, Rest(g), v)
    BY <1>2 DEF GiveRemains
  <2> QED
    BY <1>1, <2>1, GiveFacts DEF Shapes
<1>5. pc' = [pc EXCEPT ![g] = pc[g]]
  BY <1>1, <1>2 DEF Shapes
<1>6. /\ DOMAIN pos' = Goroutine /\ \A h \in Goroutine \ {g} : pos'[h] = pos[h]
      /\ pos'[g] \in 1..(Len(ask[g].b) + 1)
  BY <1>1, <1>2 DEF Shapes, LocalOK
<1>7. /\ Free' = Free \cup Held(Top(g))
      /\ bitsetPool' \subseteq Bitset /\ unknownPool' \subseteq Unknown /\ tmpPool' \subseteq Tmp
  BY <1>2, GivenBack
<1>8. PICK p \in {"return", "fail", "panic"} : pc' = [pc EXCEPT ![g] = p]
  BY <1>2, <1>5
<1> QED
  BY <1>2, <1>3, <1>4, <1>6, <1>7, <1>8, PopStep

LEMMA TopTells ==
    ASSUME Inv, NEW g \in Goroutine, stack[g] # <<>>
    PROVE  Tells(Top(g), bits)
<1>1. Len(stack[g]) \in 1..Len(stack[g])
  BY TopFacts
<1> QED
  BY <1>1 DEF Inv, Tell, Top

LEMMA OpenFieldKeeps ==
    ASSUME Inv, NEW g \in Goroutine, OpenField(g) PROVE Inv'
<1>1. Shapes /\ LocalOK(stack[g], pc[g], job[g], ret[g], pos[g], ask[g].b)
  BY DEF Inv
<1> DEFINE f == [Top(g) EXCEPT !.fid = Tok(g).id]
<1>2. /\ pc[g] = "fields" /\ IsTok(g, "field") /\ Move(g, 1)
      /\ stack' = SetTop(g, f)
      /\ \E x, y : job' = [job EXCEPT ![g] = [type |-> x, depth |-> NextDepth(Top(g)), val |-> y]]
      /\ UNCHANGED <<pools, ask, ret, res>>
  BY DEF OpenField, InStruct
<1>3. PICK p \in {"inline", "type"} : pc' = [pc EXCEPT ![g] = p]
  BY DEF OpenField
<1>4. stack[g] # <<>> /\ Top(g).kind = "struct" /\ ret[g] = <<>>
  BY <1>1, <1>2 DEF LocalOK, Top, Entering
<1>5. FrameOK(Top(g)) /\ NextDepth(Top(g)) \in 0..MaxDepth
      /\ Len(stack[g]) + NextDepth(Top(g)) <= MaxDepth
  BY <1>4, TopFacts
<1>6. Tok(g).id \in Nat
  BY <1>2, TokFacts
<1>7. /\ FrameOK(f) /\ f.depth = Top(g).depth /\ f.kind = Top(g).kind
      /\ Held(f) = Held(Top(g)) /\ f.bs = Top(g).bs /\ f.fid \in Nat
  BY <1>5, <1>6 DEF FrameOK, Record, Held
<1>8. Tells(f, bits)
  <2>1. f.type = Top(g).type /\ f.got = Top(g).got
    BY <1>5 DEF FrameOK, Record
  <2> QED
    BY <1>4, <1>7, <2>1, TopTells DEF Tells
<1> HIDE DEF f
<1>9. /\ DOMAIN job' = Goroutine /\ \A h \in Goroutine \ {g} : job'[h] = job[h]
      /\ job'[g] = [type |-> job'[g].type, depth |-> job'[g].depth, val |-> job'[g].val]
      /\ job'[g].depth = NextDepth(Top(g))
  BY <1>1, <1>2 DEF Shapes
<1>10. /\ DOMAIN pos' = Goroutine /\ \A h \in Goroutine \ {g} : pos'[h] = pos[h]
       /\ pos'[g] \in 1..(Len(ask[g].b) + 1)
  <2>1. pos'[g] = i(g) + 1 /\ DOMAIN pos' = Goroutine /\ \A h \in Goroutine \ {g} : pos'[h] = pos[h]
    BY <1>1, <1>2 DEF Shapes, Move, i
  <2> QED
    BY <1>2, <2>1, TokFacts DEF b, IsTok
<1>11. /\ bits' = bits /\ bits' \in [Bitset -> SUBSET Nat] /\ DOMAIN tmps' = Tmp
       /\ UNCHANGED <<bitsetPool, offs, unknownPool, tmpPool, ask, res>>
       /\ DOMAIN ret' = Goroutine /\ ret' = ret
  BY <1>1, <1>2 DEF Shapes, pools
<1>12. Tells(f, bits')
  BY <1>8, <1>11
<1> QED
  BY <1>2, <1>3, <1>4, <1>5, <1>7, <1>9, <1>10, <1>11, <1>12, TopStep

\* Return: the bit of the field and the field are set together.
LEMMA ReturnKeeps ==
    ASSUME Inv, NEW g \in Goroutine, Return(g) PROVE Inv'
<1>1. Shapes /\ LocalOK(stack[g], pc[g], job[g], ret[g], pos[g], ask[g].b)
  BY DEF Inv
<1> DEFINE f == Stored(Top(g), Given(g))
           x == Top(g).bs
           p == IF Top(g).kind = "struct" THEN "fields" ELSE "elements"
<1>2. /\ stack[g] # <<>> /\ pc[g] = "return" /\ pc' = [pc EXCEPT ![g] = p]
      /\ stack' = SetTop(g, f)
      /\ bits' = IF x = None THEN bits ELSE [bits EXCEPT ![x] = bits[x] \cup {Top(g).fid}]
      /\ DOMAIN tmps' = DOMAIN tmps /\ GiveNone(g)
      /\ UNCHANGED <<bitsetPool, offs, unknownPool, tmpPool, ask, pos, job, res>>
  BY DEF Return, Goto, Leave
<1>3. FrameOK(Top(g)) /\ Tells(Top(g), bits)
  BY <1>2, TopFacts, TopTells
<1>4. /\ FrameOK(f) /\ f.kind = Top(g).kind /\ f.type = Top(g).type /\ f.bs = x
      /\ f.depth = Top(g).depth /\ f.fid = Top(g).fid /\ Held(f) = Held(Top(g))
      /\ f.kind = "struct" => f.got = Top(g).got \cup {Top(g).fid}
  BY <1>3, StoredFrame DEF Held
<1>5. x # None => x \in Bitset /\ Top(g).kind = "struct" /\ Top(g).fid \in Nat
  <2>1. x # None => x \in Bitset /\ Top(g).kind = "struct"
    BY <1>3 DEF FrameOK
  <2>2. FieldOpen(stack[g])
    BY <1>1, <1>2 DEF LocalOK
  <2> QED
    BY <1>2, <2>1, <2>2 DEF FieldOpen, Top
<1> HIDE DEF f
<1>6. /\ bits' \in [Bitset -> SUBSET Nat]
      /\ \A y : y # x \/ x = None => bits'[y] = bits[y]
      /\ x # None => bits'[x] = bits[x] \cup {Top(g).fid}
  <2>1. CASE x = None
    BY <1>1, <1>2, <2>1 DEF Shapes
  <2>2. CASE x # None
    <3> HIDE DEF x
    <3>1. x \in Bitset /\ Top(g).fid \in Nat /\ bits' = [bits EXCEPT ![x] = bits[x] \cup {Top(g).fid}]
      BY <1>2, <1>5, <2>2
    <3>2. bits' = [y \in Bitset |-> IF y = x THEN bits[x] \cup {Top(g).fid} ELSE bits[y]]
      BY <1>1, <3>1 DEF Shapes
    <3>3. bits' \in [Bitset -> SUBSET Nat] /\ bits'[x] = bits[x] \cup {Top(g).fid}
      BY <1>1, <3>1, <3>2 DEF Shapes
    <3>4. \A y : y # x => bits'[y] = bits[y]
      <4>1. \A y \in Bitset : y # x => bits'[y] = bits[y]
        BY <3>2
      <4> QED
        BY <3>1, <4>1
    <3> QED
      BY <2>2, <3>3, <3>4
  <2> QED
    BY <2>1, <2>2
<1>7. Tells(f, bits')
  BY <1>3, <1>4, <1>5, <1>6 DEF Tells
<1>8. /\ DOMAIN job' = Goroutine /\ \A h \in Goroutine \ {g} : job'[h] = job[h]
      /\ job'[g] = [type |-> job'[g].type, depth |-> job'[g].depth, val |-> job'[g].val]
      /\ job'[g].depth \in 0..MaxDepth
      /\ DOMAIN pos' = Goroutine /\ \A h \in Goroutine \ {g} : pos'[h] = pos[h]
      /\ pos'[g] \in 1..(Len(ask[g].b) + 1) /\ DOMAIN tmps' = Tmp
  BY <1>1, <1>2 DEF Shapes, LocalOK
<1>9. DOMAIN ret' = Goroutine /\ ret'[g] = <<>> /\ \A h \in Goroutine \ {g} : ret'[h] = ret[h]
  BY <1>1, <1>2, GiveFacts DEF Shapes
<1>10. /\ p \in {"inline", "type", "fields", "elements"} /\ p \notin Entering
       /\ p = "fields" => f.kind = "struct"
       /\ p = "elements" => f.kind # "struct"
  BY <1>4 DEF Entering
<1>11. \A y : y # f.bs \/ f.bs = None => bits'[y] = bits[y]
  BY <1>4, <1>6
<1> HIDE DEF p, x
<1>12. f.bs = Top(g).bs
  BY <1>4 DEF x
<1> QED
  BY <1>2, <1>4, <1>6, <1>7, <1>8, <1>9, <1>10, <1>11, <1>12, TopStep

\* The collector changes what is in the pools, which no frame looks at.
LEMMA CollectKeeps ==
    ASSUME Inv, Collect, UNCHANGED <<pc, ask, pos, stack, job, ret, res>> PROVE Inv'
<1>1. Shapes /\ Apart(stack, Free) /\ Tell(stack, bits)
  BY DEF Inv
<1>2. /\ UNCHANGED <<bitsetPool, unknownPool, tmpPool>>
      /\ DOMAIN offs' = DOMAIN offs /\ DOMAIN tmps' = DOMAIN tmps
      /\ UNCHANGED bits \/ \E x \in bitsetPool : bits' = [bits EXCEPT ![x] = {}]
  BY DEF Collect
<1>3. bits' \in [Bitset -> SUBSET Nat] /\ \A y : y \notin Free => bits'[y] = bits[y]
  <2>1. CASE UNCHANGED bits
    BY <1>1, <2>1 DEF Shapes
  <2>2. CASE \E x \in bitsetPool : bits' = [bits EXCEPT ![x] = {}]
    <3>1. PICK x \in bitsetPool : bits' = [bits EXCEPT ![x] = {}]
      BY <2>2
    <3>2. x \in Bitset /\ x \in Free
      BY <1>1 DEF Shapes, Free
    <3>3. bits' = [y \in Bitset |-> IF y = x THEN {} ELSE bits[y]]
      BY <1>1, <3>1, <3>2 DEF Shapes
    <3>4. \A y : y # x => bits'[y] = bits[y]
      <4>1. \A y \in Bitset : y # x => bits'[y] = bits[y]
        BY <3>3
      <4> QED
        BY <1>1, <3>1, <4>1 DEF Shapes
    <3> QED
      BY <1>1, <3>2, <3>3, <3>4 DEF Shapes
  <2> QED
    BY <1>2, <2>1, <2>2
<1>4. Free' = Free
  BY <1>2 DEF Free
<1>5. Tell(stack, bits')
  BY <1>1, <1>3, FreeShares
<1>6. Shapes'
  BY <1>1, <1>2, <1>3 DEF Shapes
<1>7. Apart(stack', Free') /\ Tell(stack', bits')
  BY <1>1, <1>4, <1>5
<1>8. \A g \in Goroutine : LocalOK(stack'[g], pc'[g], job'[g], ret'[g], pos'[g], ask'[g].b)
  BY DEF Inv
<1> QED
  BY <1>6, <1>7, <1>8 DEF Inv

LEMMA StepInv == Inv /\ [Next]_vars => Inv'
<1> SUFFICES ASSUME Inv, [Next]_vars PROVE Inv'
  OBVIOUS
<1>1. ASSUME NEW g \in Goroutine, Step(g) PROVE Inv'
  <2>1. CASE EnterTooDeep(g) \/ TypeTooDeep(g) \/ BadHeader(g) \/ OutOfRange(g)
    BY <2>1, ErrorKeeps
  <2>2. CASE Enter(g)
    BY <2>2, EnterKeeps
  <2>3. CASE SkipField(g)
    BY <2>3, SkipFieldKeeps
  <2>4. CASE OpenField(g)
    BY <2>4, OpenFieldKeeps
  <2>5. CASE Fixed(g) \/ String(g)
    BY <2>5, ReadKeeps
  <2>6. CASE StructDone(g)
    BY <2>6, StructDoneKeeps
  <2>7. CASE NotAllSet(g)
    BY <2>7, NotAllSetKeeps
  <2>8. CASE OpenStruct(g)
    BY <2>8, OpenStructKeeps
  <2>9. CASE OpenMap(g) \/ OpenList(g)
    BY <2>9, OpenKeeps
  <2>10. CASE NextElement(g)
    BY <2>10, NextElementKeeps
  <2>11. CASE ElementsDone(g)
    BY <2>11, ElementsDoneKeeps
  <2>12. CASE Return(g)
    BY <2>12, ReturnKeeps
  <2>13. CASE Fail(g) \/ Panic(g)
    BY <2>13, UnwindKeeps
  <2>14. CASE Done(g)
    BY <2>14, DoneKeeps
  <2> QED
    BY <1>1, <2>1, <2>2, <2>3, <2>4, <2>5, <2>6, <2>7, <2>8, <2>9, <2>10, <2>11, <2>12, <2>13,
       <2>14 DEF Step
<1>2. ASSUME NEW g \in Goroutine, NEW s \in DOMAIN Message, NEW m \in Message[s], Call(g, s, m)
      PROVE  Inv'
  BY <1>2, CallKeeps
<1>3. CASE Collect /\ UNCHANGED <<pc, ask, pos, stack, job, ret, res, calls>>
  BY <1>3, CollectKeeps
<1>4. CASE UNCHANGED vars
  <2>1. UNCHANGED <<bits, bitsetPool, offs, unknownPool, tmps, tmpPool,
                    pc, ask, pos, stack, job, ret, res>>
    BY <1>4 DEF vars, pools
  <2>2. Shapes' /\ Free' = Free
    BY <2>1 DEF Inv, Shapes, Free
  <2>3. Apart(stack', Free') /\ Tell(stack', bits')
    BY <2>1, <2>2 DEF Inv
  <2>4. \A g \in Goroutine : LocalOK(stack'[g], pc'[g], job'[g], ret'[g], pos'[g], ask'[g].b)
    BY <2>1 DEF Inv
  <2> QED
    BY <2>2, <2>3, <2>4 DEF Inv
<1> QED
  BY <1>1, <1>2, <1>3, <1>4 DEF Next

LEMMA InvHolds == Spec => []Inv
BY InitInv, StepInv, PTL DEF Spec

-----------------------------------------------------------------------------
(***************************************************************************)
(* The theorems.                                                           *)
(***************************************************************************)
LEMMA StackDomain ==
    ASSUME Inv, NEW g \in Goroutine
    PROVE  Len(stack[g]) \in Nat /\ DOMAIN stack[g] = 1..Len(stack[g])
BY LenProperties DEF Inv, LocalOK, StackOK, IsSeq

\* Type correctness: a goroutine never reads past its message, and a struct has a
\* bitset exactly if it has required fields.
THEOREM TypeCorrect == Spec => []TypeOK
<1>1. Inv => TypeOK
  <2> SUFFICES ASSUME Inv PROVE TypeOK
    OBVIOUS
  <2>1. Shapes
    BY DEF Inv
  <2>2. ASSUME NEW g \in Goroutine
        PROVE  /\ pos[g] \in 1..(Len(ask[g].b) + 1)
               /\ job[g].depth \in 0..MaxDepth
               /\ ret[g] # <<>> => ret[g][1] = Len(stack[g])
               /\ pc[g] = "idle" => stack[g] = <<>>
    BY DEF Inv, LocalOK
  <2>3. ASSUME NEW g \in Goroutine, NEW k \in DOMAIN stack[g]
        PROVE  stack[g][k].kind = "struct" =>
                   (stack[g][k].bs = None <=> Required(stack[g][k].type.sd) = {})
    <3>1. FrameOK(stack[g][k])
      BY StackDomain DEF Inv, LocalOK, StackOK
    <3> QED
      BY <3>1 DEF FrameOK
  <2> QED
    BY <2>1, <2>2, <2>3 DEF TypeOK, Shapes
<1> QED
  BY <1>1, InvHolds, PTL

\* Every object of the three pools has one user, however many goroutines decode and
\* however their calls end.
THEOREM PooledOnce == Spec => []OneUser
<1>1. Inv => OneUser
  <2> SUFFICES ASSUME Inv PROVE OneUser
    OBVIOUS
  <2> DEFINE Frame == UNION {{g} \X (1..Len(stack[g])) : g \in Goroutine}
             free == bitsetPool \cup unknownPool \cup tmpPool
  <2>1. free = Free /\ Apart(stack, Free) /\ Shapes
    BY DEF Inv, Free
  <2>2. \A x \in Frame : x[1] \in Goroutine /\ x[2] \in 1..Len(stack[x[1]]) /\ x = <<x[1], x[2]>>
    OBVIOUS
  <2>3. \A g \in Goroutine : Len(stack[g]) \in Nat
    BY StackDomain
  <2>4. \A x \in Frame : x[1] \in Goroutine /\ x[2] \in Nat
            /\ \A y : y \in Borrowed(x[1], x[2]) <=> Holds(stack, x[1], x[2], y)
    BY <2>2, <2>3 DEF Borrowed, Holds, Held
  <2>5. \A g \in Goroutine, k \in Nat : \A y : Holds(stack, g, k, y) =>
            <<g, k>> \in Frame /\ y \in Borrowed(g, k)
    BY DEF Borrowed, Holds, Held
  <2> HIDE DEF Frame, free
  <2>6. \A x, y \in Frame : x # y => Borrowed(x[1], x[2]) \cap Borrowed(y[1], y[2]) = {}
    <3> SUFFICES ASSUME NEW x \in Frame, NEW y \in Frame, x # y,
                        NEW z, z \in Borrowed(x[1], x[2]), z \in Borrowed(y[1], y[2])
                 PROVE  FALSE
      OBVIOUS
    <3>1. Holds(stack, x[1], x[2], z) /\ Holds(stack, y[1], y[2], z)
      BY <2>4
    <3>2. x[1] = y[1] /\ x[2] = y[2]
      BY <2>1, <2>4, <3>1 DEF Apart
    <3> QED
      BY <2>2, <3>2
  <2>7. \A x \in Frame : Borrowed(x[1], x[2]) \cap free = {}
    BY <2>1, <2>4 DEF Apart
  <2>8. Bitset \cup Unknown \cup Tmp \subseteq free \cup UNION {Borrowed(x[1], x[2]) : x \in Frame}
    <3> SUFFICES ASSUME NEW y \in Bitset \cup Unknown \cup Tmp, y \notin free
                 PROVE  \E x \in Frame : y \in Borrowed(x[1], x[2])
      OBVIOUS
    <3>1. PICK g \in Goroutine : \E k \in Nat : Holds(stack, g, k, y)
      BY <2>1 DEF Apart
    <3>2. PICK k \in Nat : Holds(stack, g, k, y)
      BY <3>1
    <3>3. <<g, k>> \in Frame /\ y \in Borrowed(<<g, k>>[1], <<g, k>>[2])
      BY <2>5, <3>2
    <3> QED
      BY <3>3
  <2>9. \A x \in Frame : Borrowed(x[1], x[2]) \subseteq Bitset \cup Unknown \cup Tmp
    <3> SUFFICES ASSUME NEW x \in Frame PROVE Borrowed(x[1], x[2]) \subseteq Bitset \cup Unknown \cup Tmp
      OBVIOUS
    <3>1. FrameOK(stack[x[1]][x[2]])
      BY <2>2 DEF Inv, LocalOK, StackOK
    <3> QED
      BY <3>1 DEF FrameOK, Borrowed
  <2>10. free \subseteq Bitset \cup Unknown \cup Tmp
    BY <2>1 DEF Shapes, Free
  <2>11. Bitset \cup Unknown \cup Tmp = free \cup UNION {Borrowed(x[1], x[2]) : x \in Frame}
    BY <2>8, <2>9, <2>10
  <2> QED
    BY <2>6, <2>7, <2>11 DEF OneUser, Frame, free
<1> QED
  BY <1>1, InvHolds, PTL

\* Whatever bits a bitset came with, those of the required fields tell what this
\* struct has got.
THEOREM BitsTrusted == Spec => []BitsTell
<1>1. Inv => BitsTell
  <2> SUFFICES ASSUME Inv, NEW g \in Goroutine, NEW k \in DOMAIN stack[g], stack[g][k].bs # None
               PROVE  LET frame == stack[g][k] IN
                      bits[frame.bs] \cap Required(frame.type.sd) = frame.got \cap Required(frame.type.sd)
    BY DEF BitsTell
  <2>1. Tells(stack[g][k], bits)
    BY StackDomain DEF Inv, Tell
  <2> QED
    BY <2>1 DEF Tells
<1> QED
  BY <1>1, InvHolds, PTL

\* No message makes a goroutine recurse deeper than the limit.
THEOREM DepthLimited == Spec => []DepthBounded
<1>1. Inv => DepthBounded
  <2> SUFFICES ASSUME Inv, NEW g \in Goroutine
               PROVE  /\ Len(stack[g]) <= MaxDepth
                      /\ \A k \in DOMAIN stack[g] : k + stack[g][k].depth <= MaxDepth + 1
    BY DEF DepthBounded
  <2>1. Len(stack[g]) \in Nat /\ DOMAIN stack[g] = 1..Len(stack[g]) /\ StackOK(stack[g])
    BY StackDomain DEF Inv, LocalOK
  <2>2. \A k \in DOMAIN stack[g] : stack[g][k].depth \in 1..MaxDepth /\ k + stack[g][k].depth <= MaxDepth + 1
    BY <2>1 DEF StackOK, FrameOK
  <2>3. CASE Len(stack[g]) = 0
    BY <2>2, <2>3, DepthAssumption
  <2>4. CASE Len(stack[g]) # 0
    <3> DEFINE d == stack[g][Len(stack[g])].depth
    <3>1. d \in 1..MaxDepth /\ Len(stack[g]) + d <= MaxDepth + 1
      BY <2>1, <2>2, <2>4
    <3> QED
      BY <2>1, <2>2, <3>1, DepthAssumption
  <2> QED
    BY <2>3, <2>4
<1> QED
  BY <1>1, InvHolds, PTL
=============================================================================
