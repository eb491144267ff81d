-------------------------------- MODULE Span --------------------------------
(***************************************************************************)
(* The decoder's memory: span.Malloc (span.go), which cuts small objects   *)
(* without pointers out of a 2 KiB block, tDecoder.Malloc (decoder.go),    *)
(* which decides between the span and the runtime's mallocgc, and the      *)
(* decoderPool through which goroutines share the decoders that own the    *)
(* spans.  What a decoder handed out lives on in the decoded values after  *)
(* the decoder went back to the pool, with the rest of its block still to  *)
(* be cut up by whoever gets it next.                                      *)
(***************************************************************************)
EXTENDS Integers, Sequences

CONSTANTS
    Goroutine,   \* the concurrent callers of Decode
    Decoder,     \* the tDecoder objects decoderPool.New ever makes
    Request,     \* the arguments n, align and abiType # 0 of tDecoder.Malloc
    BlockSize,   \* defaultDecoderMemSize
    SmallLimit,  \* defaultDecoderMemSize/8
    Gap,         \* how far above the memory in use mallocgc may place a block
    NoDecoder,
    NoRequest,
    MaxMallocs   \* bound: the requests made in one behaviour

ASSUME DecoderAssumption == NoDecoder \notin Decoder
\* No empty requests: an empty list, map or string allocates nothing, and the
\* only types of size 0 are structs, for which mallocgc returns no memory at all.
ASSUME RequestAssumption ==
    /\ Request \subseteq [n : Nat \ {0}, align : Nat \ {0}, scan : BOOLEAN]
    /\ NoRequest \notin Request
ASSUME SizeAssumption == BlockSize \in Nat /\ SmallLimit \in Nat
ASSUME GapAssumption == Gap \subseteq Nat
ASSUME MaxMallocsAssumption == MaxMallocs \in Nat

VARIABLES
    pool,    \* the decoders lying in decoderPool
    born,    \* the decoders made so far
    span,    \* span[d]: the fields p, b and n of d.s
    held,    \* the decoder each goroutine works with
    pc,
    want,    \* the request each goroutine is working on
    given,   \* the regions handed out, in that order
    heap,    \* the regions mallocgc returned
    brk      \* the first address above them

vars == <<pool, born, span, held, pc, want, given, heap, brk>>

Region == [lo : Nat, n : Nat]
NoSpan == [p |-> 0, b |-> 0, n |-> 0]

Init ==
    /\ pool = {}
    /\ born = {}
    /\ span = [d \in Decoder |-> NoSpan]
    /\ held = [g \in Goroutine |-> NoDecoder]
    /\ pc = [g \in Goroutine |-> "idle"]
    /\ want = [g \in Goroutine |-> NoRequest]
    /\ given = <<>>
    /\ heap = {}
    /\ brk = 0

Goto(g, from, to) == pc[g] = from /\ pc' = [pc EXCEPT ![g] = to]

\* mallocgc(n, ...): n bytes nobody can reach yet, at lo.  What nobody can reach
\* any more may be reused; addresses are never reused here, since a region that
\* is handed out counts as reachable for good.
Mallocgc(lo, n) ==
    /\ lo - brk \in Gap
    /\ heap' = heap \cup {[lo |-> lo, n |-> n]}
    /\ brk' = lo + n

\* span.init, and the refill of span.Malloc.
NewBlock(d, n) ==
    \E gap \in Gap :
        /\ Mallocgc(brk + gap, n)
        /\ span' = [span EXCEPT ![d] = [p |-> 0, b |-> brk + gap, n |-> n]]
-----------------------------------------------------------------------------
\* decoderPool.

\* Faulty variant: the pool lends the decoder and keeps it.
GetKept(g) ==
    \E d \in pool :
        /\ Goto(g, "idle", "decode")
        /\ held' = [held EXCEPT ![g] = d]
        /\ UNCHANGED <<pool, born, span, want, given, heap, brk>>

\* Faulty variant: a decoder starts its block from the beginning for each message.
GetRewound(g) ==
    \E d \in pool :
        /\ Goto(g, "idle", "decode")
        /\ pool' = pool \ {d}
        /\ held' = [held EXCEPT ![g] = d]
        /\ span' = [span EXCEPT ![d].p = 0]
        /\ UNCHANGED <<born, want, given, heap, brk>>

\* Get finds a decoder someone put back; its span is as it was left.
Get(g) ==
    \E d \in pool :
        /\ Goto(g, "idle", "decode")
        /\ pool' = pool \ {d}
        /\ held' = [held EXCEPT ![g] = d]
        /\ UNCHANGED <<born, span, want, given, heap, brk>>

\* Get finds none, which a sync.Pool is free to say at any time.
GetNew(g) ==
    \E d \in Decoder \ born :
        /\ Goto(g, "idle", "decode")
        /\ born' = born \cup {d}
        /\ held' = [held EXCEPT ![g] = d]
        /\ NewBlock(d, BlockSize)
        /\ UNCHANGED <<pool, want, given>>

\* Decode came back, with an error or without, and its decoder is put back.
Put(g) ==
    /\ Goto(g, "decode", "idle")
    /\ pool' = pool \cup {held[g]}
    /\ held' = [held EXCEPT ![g] = NoDecoder]
    /\ UNCHANGED <<born, span, want, given, heap, brk>>

\* Decode panicked (a truncated message does that) and the caller recovered:
\* Put is not deferred, so the pool never sees this decoder again.
Panic(g) ==
    /\ Goto(g, "decode", "idle")
    /\ held' = [held EXCEPT ![g] = NoDecoder]
    /\ UNCHANGED <<pool, born, span, want, given, heap, brk>>

\* The garbage collector empties pools.
Collect(d) ==
    /\ d \in pool
    /\ pool' = pool \ {d}
    /\ UNCHANGED <<born, span, held, pc, want, given, heap, brk>>
-----------------------------------------------------------------------------
\* tDecoder.Malloc and span.Malloc.

Malloc(g, r) ==
    /\ Len(given) < MaxMallocs
    /\ Goto(g, "decode", "malloc")
    /\ want' = [want EXCEPT ![g] = r]
    /\ UNCHANGED <<pool, born, span, held, given, heap, brk>>

Size(g) == want[g].n
Mask(g) == want[g].align - 1
Cut(g) == span[held[g]]

Give(g, lo) ==
    /\ given' = Append(given, [lo |-> lo, n |-> Size(g)])
    /\ want' = [want EXCEPT ![g] = NoRequest]

IsDirect(r) == r.n > SmallLimit \/ r.scan

\* Too large, or memory the collector has to scan: mallocgc, which aligns what
\* it returns for its type.
Direct(g) ==
    /\ Goto(g, "malloc", "decode")
    /\ IsDirect(want[g])
    /\ \E gap \in Gap :
          /\ (brk + gap) % want[g].align = 0
          /\ Mallocgc(brk + gap, Size(g))
          /\ Give(g, brk + gap)
    /\ UNCHANGED <<pool, born, span, held>>

\* Faulty variant: the bytes the alignment may cost are not counted.
NeedsUnaligned(g) == Cut(g).p + Size(g)

\* The room a request may take, alignment included.
Needs(g) == Cut(g).p + Size(g) + Mask(g)

\* Faulty variant: a block of its own is as large as the object.
RefillTight(g) ==
    /\ Goto(g, "malloc", "cut")
    /\ ~IsDirect(want[g])
    /\ Needs(g) > Cut(g).n
    /\ NewBlock(held[g], IF Size(g) > BlockSize THEN Size(g) ELSE BlockSize)
    /\ UNCHANGED <<pool, born, held, want, given>>

\* It may not fit into what is left of the block: start a new one, and one that
\* fits if the request is larger than a block.
Refill(g) ==
    /\ Goto(g, "malloc", "cut")
    /\ ~IsDirect(want[g])
    /\ Needs(g) > Cut(g).n
    /\ NewBlock(held[g], IF Size(g) + Mask(g) > BlockSize
                         THEN Size(g) + Mask(g) ELSE BlockSize)
    /\ UNCHANGED <<pool, born, held, want, given>>

Fits(g) ==
    /\ Goto(g, "malloc", "cut")
    /\ ~IsDirect(want[g])
    /\ Needs(g) <= Cut(g).n
    /\ UNCHANGED <<pool, born, span, held, want, given, heap, brk>>

\* Faulty variant: the address is rounded down.
AlignDown(a, align) == a - (a % align)

\* (a + mask) &^ mask: for the alignments Go has, the powers of two, the &^ takes
\* the remainder away.
AlignUp(a, align) == (a + (align - 1)) - ((a + (align - 1)) % align)

\* The region is cut out of the block behind the last one.
Take(g) ==
    LET ret == Cut(g).b + Cut(g).p
        off == AlignUp(ret, want[g].align) - ret
    IN  /\ Goto(g, "cut", "decode")
        /\ span' = [span EXCEPT ![held[g]].p = @ + Size(g) + off]
        /\ Give(g, ret + off)
        /\ UNCHANGED <<pool, born, held, heap, brk>>
-----------------------------------------------------------------------------
Next ==
    \/ \E g \in Goroutine :
          \/ Get(g) \/ GetNew(g) \/ Put(g) \/ Panic(g)
          \/ Direct(g) \/ Refill(g) \/ Fits(g) \/ Take(g)
          \/ \E r \in Request : Malloc(g, r)
    \/ \E d \in Decoder : Collect(d)

Spec == Init /\ [][Next]_vars
-----------------------------------------------------------------------------
(***************************************************************************)
(* Properties                                                              *)
(***************************************************************************)
Spans == [p : Nat, b : Nat, n : Nat]

\* Type invariant; a span never counts more than its block has.
TypeOK ==
    /\ pool \subseteq born
    /\ born \subseteq Decoder
    /\ span \in [Decoder -> Spans]
    /\ \A d \in Decoder : span[d].p <= span[d].n
    /\ held \in [Goroutine -> born \cup {NoDecoder}]
    /\ pc \in [Goroutine -> {"idle", "decode", "malloc", "cut"}]
    /\ want \in [Goroutine -> Request \cup {NoRequest}]
    /\ given \in Seq(Region)
    /\ heap \subseteq Region
    /\ brk \in Nat

\* A decoder has one user at a time, and none while it lies in the pool: the
\* unlocked fields of its span rely on it.
Exclusive ==
    /\ \A g \in Goroutine : held[g] \notin pool
    /\ \A g, h \in Goroutine : g # h /\ held[g] # NoDecoder => held[g] # held[h]

Apart(x, y) == x.lo + x.n <= y.lo \/ y.lo + y.n <= x.lo

\* No two objects ever handed out share a byte, whichever goroutines, messages,
\* blocks and decoders they came from.
Disjoint ==
    \A i, j \in 1..Len(given) : i # j => Apart(given[i], given[j])

Within(x, y) == y.lo <= x.lo /\ x.lo + x.n <= y.lo + y.n

\* An object lies within one region mallocgc returned, so the collector keeps all
\* of it as long as someone points to it.
InBlock ==
    \A i \in 1..Len(given) : \E m \in heap : Within(given[i], m)

\* The decoder's memory implements the allocator of Allocator: each request is
\* answered with that many fresh bytes, aligned.
Memory ==
    INSTANCE Allocator WITH
        want <- want,
        given <- given

ImplementsAllocator == Memory!Spec
=============================================================================
