------------------------------ MODULE SpanProofs ------------------------------
(***************************************************************************)
(* The decoder's memory, for any number of goroutines, decoders, requests  *)
(* and block sizes.  The invariant ties the regions handed out to the      *)
(* spans: no region reaches into the part of a block that is still to be   *)
(* cut, no two blocks overlap, and a goroutine about to cut has room for   *)
(* the object and for its alignment.                                       *)
(***************************************************************************)
EXTENDS Span, TLAPS

\* Where a goroutine stands, in terms of the decoder and of the request it has.
Working ==
    \A g \in Goroutine :
        /\ (pc[g] = "idle") <=> (held[g] = NoDecoder)
        /\ (pc[g] \in {"malloc", "cut"}) <=> (want[g] # NoRequest)

Room == \A g \in Goroutine : pc[g] = "cut" => Needs(g) <= Cut(g).n

Block(d) == [lo |-> span[d].b, n |-> span[d].n]

\* A decoder's block is memory of its own.
Blocks ==
    /\ \A d \in born : Block(d) \in heap
    /\ \A d, e \in born : d # e => Apart(Block(d), Block(e))

Below == \A m \in heap : m.lo + m.n <= brk

\* What was handed out is not in the part of a block still to be cut.
Rest(d) == [lo |-> span[d].b + span[d].p, n |-> span[d].n - span[d].p]

Behind == \A i \in 1..Len(given), d \in born : Apart(given[i], Rest(d))

IInv ==
    /\ TypeOK
    /\ Exclusive
    /\ Working
    /\ Room
    /\ Blocks
    /\ Below
    /\ Behind
    /\ InBlock
    /\ Disjoint

-----------------------------------------------------------------------------
\* span.Malloc's rounding: the next multiple of the alignment, at most
\* mask = align - 1 bytes further on.
LEMMA Rounding ==
    ASSUME NEW a \in Nat, NEW align \in Nat \ {0}
    PROVE  /\ AlignUp(a, align) \in Nat
           /\ a <= AlignUp(a, align)
           /\ AlignUp(a, align) <= a + (align - 1)
           /\ AlignUp(a, align) % align = 0
<1> DEFINE x == a + (align - 1)
<1>1. x \in Nat /\ x % align \in 0..(align - 1)
  BY SMT
<1>2. x - (x % align) = align * (x \div align) /\ x \div align \in Nat
  BY <1>1, SMT
<1>3. (align * (x \div align)) % align = 0
  BY <1>2, SMT
<1> QED
  BY <1>1, <1>2, <1>3 DEF AlignUp

\* mallocgc returns memory above everything it returned before (the model's way of
\* saying that nobody else can reach it), so no object handed out is in it.
LEMMA NewMemory ==
    ASSUME IInv, NEW gap \in Gap, NEW n \in Nat, Mallocgc(brk + gap, n)
    PROVE  /\ brk + gap \in Nat
           /\ [lo |-> brk + gap, n |-> n] \in heap'
           /\ heap' \subseteq Region /\ heap \subseteq heap'
           /\ brk' \in Nat
           /\ Below'
           /\ \A m \in heap : m.lo + m.n <= brk + gap
           /\ \A i \in 1..Len(given) : given[i].lo + given[i].n <= brk + gap
<1>1. /\ gap \in Nat /\ brk \in Nat /\ heap \subseteq Region /\ given \in Seq(Region)
  BY GapAssumption DEF IInv, TypeOK
<1>2. heap' = heap \cup {[lo |-> brk + gap, n |-> n]} /\ brk' = brk + gap + n
  BY <1>1 DEF Mallocgc
<1>3. \A m \in heap : m.lo \in Nat /\ m.n \in Nat /\ m.lo + m.n <= brk + gap
  BY <1>1 DEF IInv, Below, Region
<1>4. Below'
  BY <1>1, <1>2, <1>3 DEF Below
<1>5. ASSUME NEW i \in 1..Len(given)
      PROVE  given[i].lo + given[i].n <= brk + gap
  <2>1. PICK m \in heap : Within(given[i], m)
    BY DEF IInv, InBlock
  <2>2. given[i] \in Region
    BY <1>1
  <2>3. given[i].lo \in Nat /\ given[i].n \in Nat /\ m.lo \in Nat /\ m.n \in Nat
    BY <1>3, <2>1, <2>2 DEF Region
  <2>4. given[i].lo + given[i].n <= m.lo + m.n /\ m.lo + m.n <= brk + gap
    BY <1>3, <2>1 DEF Within
  <2>5. brk + gap \in Nat
    BY <1>1
  <2> QED
    BY <2>3, <2>4, <2>5
<1> QED
  BY <1>1, <1>2, <1>3, <1>4, <1>5 DEF Region

\* The part of IInv that speaks of memory; the rest speaks of who is where.
MInv == Blocks /\ Below /\ Behind /\ InBlock /\ Disjoint

\* span.init and the refill leave the decoder with an empty block of its own.
LEMMA FreshBlock ==
    ASSUME IInv, NEW d \in Decoder, NEW n \in Nat, NewBlock(d, n),
           born' = born \cup {d}, given' = given
    PROVE  /\ span' \in [Decoder -> Spans]
           /\ \A e \in Decoder : span'[e].p <= span'[e].n
           /\ span'[d].p = 0 /\ span'[d].n = n
           /\ \A e \in Decoder \ {d} : span'[e] = span[e]
           /\ heap' \subseteq Region /\ brk' \in Nat
           /\ MInv'
<1>1. PICK gap \in Gap :
         /\ Mallocgc(brk + gap, n)
         /\ span' = [span EXCEPT ![d] = [p |-> 0, b |-> brk + gap, n |-> n]]
  BY DEF NewBlock
<1>2. /\ brk + gap \in Nat
      /\ [lo |-> brk + gap, n |-> n] \in heap'
      /\ heap' \subseteq Region /\ heap \subseteq heap'
      /\ brk' \in Nat
      /\ Below'
      /\ \A m \in heap : m.lo + m.n <= brk + gap
      /\ \A i \in 1..Len(given) : given[i].lo + given[i].n <= brk + gap
  BY <1>1, NewMemory
<1>3. /\ span \in [Decoder -> Spans] /\ born \subseteq Decoder
      /\ \A e \in Decoder : span[e].p <= span[e].n
      /\ given \in Seq(Region)
  BY DEF IInv, TypeOK
<1>4. /\ span' \in [Decoder -> Spans]
      /\ span'[d] = [p |-> 0, b |-> brk + gap, n |-> n]
      /\ \A e \in Decoder \ {d} : span'[e] = span[e]
  BY <1>1, <1>2, <1>3 DEF Spans
<1>5. \A e \in Decoder : span'[e].p <= span'[e].n
  BY <1>3, <1>4
<1>6. Block(d)' = [lo |-> brk + gap, n |-> n]
  BY <1>4 DEF Block
<1>7. \A e \in born \ {d} : Block(e)' = Block(e) /\ Rest(e)' = Rest(e)
  BY <1>3, <1>4 DEF Block, Rest
<1>8. Blocks'
  <2>1. \A e \in born' : Block(e)' \in heap'
    BY <1>2, <1>6, <1>7 DEF IInv, Blocks
  <2>2. \A e \in born \ {d} : Apart(Block(e), Block(d)') /\ Apart(Block(d)', Block(e))
    BY <1>2, <1>6 DEF IInv, Blocks, Apart
  <2>3. ASSUME NEW x \in born', NEW y \in born', x # y
        PROVE  Apart(Block(x)', Block(y)')
    <3>1. CASE x = d
      BY <1>7, <2>2, <2>3, <3>1
    <3>2. CASE y = d
      BY <1>7, <2>2, <2>3, <3>2
    <3>3. CASE x # d /\ y # d
      BY <1>7, <2>3, <3>3 DEF IInv, Blocks
    <3> QED
      BY <3>1, <3>2, <3>3
  <2> QED
    BY <2>1, <2>3 DEF Blocks, Apart
<1>9. Behind'
  <2>1. \A i \in 1..Len(given) : Apart(given[i], Rest(d)')
    BY <1>2, <1>4 DEF Apart, Rest
  <2>2. ASSUME NEW i \in 1..Len(given), NEW e \in born \ {d}
        PROVE  Apart(given[i], Rest(e)')
    BY <1>7 DEF IInv, Behind
  <2>3. ASSUME NEW i \in 1..Len(given), NEW e \in born'
        PROVE  Apart(given[i], Rest(e)')
    BY <2>1, <2>2
  <2> QED
    BY <2>3 DEF Behind, Apart
<1>10. InBlock' /\ Disjoint'
  BY <1>2 DEF IInv, InBlock, Disjoint, Within, Apart
<1> QED
  BY <1>2, <1>4, <1>5, <1>8, <1>9, <1>10 DEF MInv

\* A cut within a region is apart from whatever the region is apart from.
LEMMA ApartWithin ==
    ASSUME NEW x \in [lo : Int, n : Int], NEW y \in [lo : Int, n : Int],
           NEW z \in [lo : Int, n : Int], Apart(x, y), Within(z, y)
    PROVE  Apart(x, z)
BY DEF Apart, Within

\* What is left of a rest of n - p bytes when s bytes are cut at l.
LEMMA Leftover ==
    ASSUME NEW b \in Nat, NEW p \in Nat, NEW n \in Nat, NEW l \in Nat, NEW s \in Nat, b + p <= l
    PROVE  /\ [lo |-> b + p, n |-> n - p] \in [lo : Int, n : Int]
           /\ [lo |-> l + s, n |-> b + n - (l + s)] \in [lo : Int, n : Int]
           /\ Within([lo |-> l + s, n |-> b + n - (l + s)], [lo |-> b + p, n |-> n - p])
<1>1. b + p \in Int /\ n - p \in Int /\ l + s \in Int /\ b + n - (l + s) \in Int
  OBVIOUS
<1>2. b + p <= l + s /\ (l + s) + (b + n - (l + s)) <= (b + p) + (n - p)
  OBVIOUS
<1> QED
  BY <1>1, <1>2, Zenon DEF Within

\* A step that cuts nothing and makes no block leaves the memory as it was.
LEMMA SameMemory ==
    ASSUME IInv, UNCHANGED <<born, span, given, heap, brk>>
    PROVE  MInv'
BY DEF IInv, MInv, Blocks, Below, Behind, InBlock, Disjoint, Block, Rest, Within, Apart

\* What is handed out comes from memory mallocgc has just returned (Direct), or
\* from the part of the caller's own block that is still to be cut (Take).
LEMMA GiveOut ==
    ASSUME IInv, NEW g \in Goroutine, NEW lo \in Nat, Give(g, lo), want[g] \in Request,
           \A i \in 1..Len(given) : Apart(given[i], [lo |-> lo, n |-> Size(g)])
    PROVE  /\ given' \in Seq(Region)
           /\ Len(given') = Len(given) + 1
           /\ given'[Len(given) + 1] = [lo |-> lo, n |-> Size(g)]
           /\ \A i \in 1..Len(given) : given'[i] = given[i]
           /\ Disjoint'
<1>1. /\ given \in Seq(Region)
      /\ [lo |-> lo, n |-> Size(g)] \in Region
  BY RequestAssumption DEF IInv, TypeOK, Region, Size
<1>2. /\ given' \in Seq(Region)
      /\ Len(given') = Len(given) + 1
      /\ given'[Len(given) + 1] = [lo |-> lo, n |-> Size(g)]
      /\ \A i \in 1..Len(given) : given'[i] = given[i]
  BY <1>1 DEF Give
<1>3. ASSUME NEW i \in 1..Len(given'), NEW j \in 1..Len(given'), i # j
      PROVE  Apart(given'[i], given'[j])
  <2>1. Len(given) \in Nat
    BY <1>1
  <2>2. CASE i \in 1..Len(given) /\ j \in 1..Len(given)
    BY <1>2, <1>3, <2>2 DEF IInv, Disjoint
  <2>3. CASE i = Len(given) + 1 /\ j \in 1..Len(given)
    BY <1>2, <2>3 DEF Apart
  <2>4. CASE j = Len(given) + 1 /\ i \in 1..Len(given)
    BY <1>2, <2>4 DEF Apart
  <2> QED
    BY <1>2, <1>3, <2>1, <2>2, <2>3, <2>4
<1> QED
  BY <1>2, <1>3 DEF Disjoint, Apart

\* tDecoder.Malloc, the branch of mallocgc.
LEMMA DirectStep == ASSUME IInv, NEW g \in Goroutine, Direct(g) PROVE IInv'
<1>1. PICK gap \in Gap :
         /\ (brk + gap) % want[g].align = 0
         /\ Mallocgc(brk + gap, Size(g))
         /\ Give(g, brk + gap)
  BY DEF Direct
<1>2. /\ pc[g] = "malloc" /\ pc' = [pc EXCEPT ![g] = "decode"]
      /\ UNCHANGED <<pool, born, span, held>>
      /\ want' = [want EXCEPT ![g] = NoRequest]
  BY <1>1 DEF Direct, Goto, Give
<1>3. want[g] \in Request /\ Size(g) \in Nat
  BY <1>2, RequestAssumption DEF IInv, TypeOK, Working, Size
<1>4. /\ brk + gap \in Nat
      /\ [lo |-> brk + gap, n |-> Size(g)] \in heap'
      /\ heap' \subseteq Region /\ heap \subseteq heap'
      /\ brk' \in Nat
      /\ Below'
      /\ \A m \in heap : m.lo + m.n <= brk + gap
      /\ \A i \in 1..Len(given) : given[i].lo + given[i].n <= brk + gap
  BY <1>1, <1>3, NewMemory
<1>5. /\ given' \in Seq(Region)
      /\ Len(given') = Len(given) + 1
      /\ given'[Len(given) + 1] = [lo |-> brk + gap, n |-> Size(g)]
      /\ \A i \in 1..Len(given) : given'[i] = given[i]
      /\ Disjoint'
  BY <1>1, <1>3, <1>4, GiveOut DEF Apart
<1>6. TypeOK'
  BY <1>2, <1>4, <1>5 DEF IInv, TypeOK
<1>7. Exclusive' /\ Working'
  BY <1>2 DEF IInv, TypeOK, Exclusive, Working
<1>8. Room'
  BY <1>2 DEF IInv, TypeOK, Room, Needs, Cut, Size, Mask
<1>9. Blocks'
  BY <1>2, <1>4 DEF IInv, Blocks, Block, Apart
<1>10. Behind'
  <2>1. ASSUME NEW d \in born PROVE Apart([lo |-> brk + gap, n |-> Size(g)], Rest(d))
    <3>1. Block(d) \in heap /\ span[d] \in Spans /\ span[d].p <= span[d].n
      BY <2>1 DEF IInv, Blocks, TypeOK
    <3> QED
      BY <1>4, <3>1 DEF Apart, Rest, Block, Spans
  <2>2. Len(given) \in Nat
    BY DEF IInv, TypeOK
  <2>3. ASSUME NEW i \in 1..Len(given'), NEW d \in born PROVE Apart(given'[i], Rest(d))
    <3>1. CASE i \in 1..Len(given)
      BY <1>5, <3>1 DEF IInv, Behind
    <3>2. CASE i = Len(given) + 1
      BY <1>5, <2>1, <3>2
    <3> QED
      BY <1>5, <2>2, <3>1, <3>2
  <2> QED
    BY <1>2, <2>3 DEF Behind, Apart, Rest
<1>11. InBlock'
  <2>1. Within([lo |-> brk + gap, n |-> Size(g)], [lo |-> brk + gap, n |-> Size(g)])
    BY <1>3, <1>4 DEF Within
  <2>2. Len(given) \in Nat
    BY DEF IInv, TypeOK
  <2> QED
    BY <1>4, <1>5, <2>1, <2>2 DEF IInv, InBlock, Within
<1> QED
  BY <1>4, <1>5, <1>6, <1>7, <1>8, <1>9, <1>10, <1>11 DEF IInv

\* span.Malloc's last four lines.
LEMMA TakeStep == ASSUME IInv, NEW g \in Goroutine, Take(g) PROVE IInv'
<1> DEFINE d == held[g]
           ret == span[d].b + span[d].p
           lo == AlignUp(ret, want[g].align)
           r == [lo |-> lo, n |-> Size(g)]
<1>1. /\ pc[g] = "cut" /\ pc' = [pc EXCEPT ![g] = "decode"]
      /\ span' = [span EXCEPT ![d].p = @ + Size(g) + (lo - ret)]
      /\ want' = [want EXCEPT ![g] = NoRequest]
      /\ Give(g, ret + (lo - ret))
      /\ UNCHANGED <<pool, born, held, heap, brk>>
  BY DEF Take, Goto, Give, Cut
<1>2. /\ d \in born /\ d \in Decoder
      /\ span[d] \in Spans /\ span[d].p <= span[d].n
      /\ want[g] \in Request
      /\ Size(g) \in Nat \ {0} /\ want[g].align \in Nat \ {0}
      /\ span[d].p + Size(g) + (want[g].align - 1) <= span[d].n
  <2>1. d # NoDecoder /\ want[g] # NoRequest
    BY <1>1 DEF IInv, Working
  <2>2. d \in born /\ want[g] \in Request
    BY <2>1 DEF IInv, TypeOK
  <2> QED
    BY <1>1, <2>2, RequestAssumption DEF IInv, TypeOK, Room, Needs, Cut, Size, Mask
<1>3. ret \in Nat
  BY <1>2 DEF Spans
<1>4. /\ lo \in Nat /\ ret <= lo /\ lo <= ret + (want[g].align - 1)
  BY <1>2, <1>3, Rounding
<1>5. Give(g, lo)
  <2>1. ret + (lo - ret) = lo
    BY <1>3, <1>4
  <2> QED
    BY <1>1, <2>1
<1>6. /\ Within(r, Rest(d))
      /\ lo + Size(g) <= span[d].b + span[d].n
  BY <1>2, <1>3, <1>4 DEF Within, Rest, Spans
<1>7. \A i \in 1..Len(given) : Apart(given[i], r)
  <2>1. ASSUME NEW i \in 1..Len(given) PROVE Apart(given[i], r)
    <3>1. Apart(given[i], Rest(d)) /\ given[i] \in Region
      BY <1>2 DEF IInv, Behind, TypeOK
    <3>2. Rest(d) \in [lo : Int, n : Int] /\ r \in [lo : Int, n : Int]
      <4>1. /\ span[d].b \in Nat /\ span[d].p \in Nat /\ span[d].n \in Nat
            /\ Size(g) \in Nat /\ lo \in Nat /\ span[d].b + span[d].p <= lo
        BY <1>2, <1>4 DEF Spans
      <4> HIDE DEF lo
      <4>2. Rest(d) \in [lo : Int, n : Int]
        BY <4>1, Leftover DEF Rest
      <4> QED
        BY <4>1, <4>2
    <3>3. given[i] \in [lo : Int, n : Int]
      BY <3>1 DEF Region
    <3> HIDE DEF r
    <3> QED
      BY <1>6, <3>1, <3>2, <3>3, ApartWithin
  <2> QED
    BY <2>1
<1>8. /\ given' \in Seq(Region)
      /\ Len(given') = Len(given) + 1
      /\ given'[Len(given) + 1] = r
      /\ \A i \in 1..Len(given) : given'[i] = given[i]
      /\ Disjoint'
  BY <1>2, <1>4, <1>5, <1>7, GiveOut
<1>9. /\ span' \in [Decoder -> Spans]
      /\ span'[d].b = span[d].b /\ span'[d].n = span[d].n
      /\ span'[d].p = lo + Size(g) - span[d].b
      /\ span'[d].p <= span'[d].n
      /\ \A e \in Decoder \ {d} : span'[e] = span[e]
  <2>1. span \in [Decoder -> Spans]
    BY DEF IInv, TypeOK
  <2>2. span[d].p + Size(g) + (lo - ret) \in Nat
    BY <1>2, <1>3, <1>4 DEF Spans
  <2>3. /\ span'[d] = [span[d] EXCEPT !.p = span[d].p + Size(g) + (lo - ret)]
        /\ \A e \in Decoder \ {d} : span'[e] = span[e]
    BY <1>1, <1>2, <2>1
  <2>4. span'[d] \in Spans /\ span' \in [Decoder -> Spans]
    BY <1>1, <1>2, <2>1, <2>2, <2>3 DEF Spans
  <2>5. /\ span'[d].b = span[d].b /\ span'[d].n = span[d].n
        /\ span'[d].p = span[d].p + Size(g) + (lo - ret)
    BY <1>2, <2>3 DEF Spans
  <2>6. /\ span[d].b \in Nat /\ span[d].p \in Nat /\ span[d].n \in Nat /\ Size(g) \in Nat
        /\ lo \in Nat /\ lo + Size(g) <= span[d].b + span[d].n
    BY <1>2, <1>4, <1>6 DEF Spans
  <2>7. span'[d].p = lo + Size(g) - span[d].b /\ span'[d].p <= span'[d].n
    <3> HIDE DEF lo
    <3> QED
      BY <2>5, <2>6
  <2> QED
    BY <2>3, <2>4, <2>5, <2>7, Zenon
<1>10. TypeOK'
  <2>1. \A e \in Decoder : span'[e].p <= span'[e].n
    BY <1>9 DEF IInv, TypeOK
  <2> QED
    BY <1>1, <1>8, <1>9, <2>1 DEF IInv, TypeOK
<1>11. Exclusive' /\ Working'
  BY <1>1 DEF IInv, TypeOK, Exclusive, Working
<1>12. Room'
  <2>1. ASSUME NEW h \in Goroutine, pc'[h] = "cut"
        PROVE  /\ Needs(h)' = Needs(h) /\ Cut(h)' = Cut(h) /\ pc[h] = "cut"
    <3>1. h # g /\ pc[h] = "cut" /\ want'[h] = want[h] /\ held'[h] = held[h]
      BY <1>1, <2>1 DEF IInv, TypeOK
    <3>2. held[h] # d /\ held[h] \in Decoder
      <4>1. held[h] # NoDecoder
        BY <3>1 DEF IInv, Working
      <4> QED
        BY <3>1, <4>1 DEF IInv, Exclusive, TypeOK
    <3>3. span'[held[h]] = span[held[h]]
      BY <1>9, <3>2
    <3> QED
      BY <3>1, <3>3 DEF Needs, Cut, Size, Mask
  <2> QED
    BY <2>1 DEF IInv, Room
<1>13. \A e \in born : Block(e)' = Block(e)
  BY <1>9 DEF IInv, TypeOK, Block
<1>14. Blocks' /\ Below'
  BY <1>1, <1>13 DEF IInv, Blocks, Below, Apart
<1>15. Behind'
  <2>1. Len(given) \in Nat
    BY DEF IInv, TypeOK
  <2>2. ASSUME NEW e \in born \ {d} PROVE Rest(e)' = Rest(e) /\ Apart(r, Rest(e))
    <3>1. span'[e] = span[e] /\ span[e] \in Spans /\ span[e].p <= span[e].n
      BY <1>9 DEF IInv, TypeOK
    <3>2. Apart(Block(d), Block(e))
      BY <1>2 DEF IInv, Blocks
    <3> QED
      BY <1>2, <1>3, <1>4, <1>6, <3>1, <3>2 DEF Rest, Apart, Block, Within, Spans
  <2>3. Rest(d)' = [lo |-> lo + Size(g), n |-> span[d].b + span[d].n - (lo + Size(g))]
    <3>1. /\ span[d].b \in Nat /\ span[d].n \in Nat /\ Size(g) \in Nat /\ lo \in Nat
          /\ span'[d].b = span[d].b /\ span'[d].n = span[d].n
          /\ span'[d].p = lo + Size(g) - span[d].b
      BY <1>2, <1>4, <1>9 DEF Spans
    <3> HIDE DEF lo
    <3>2. /\ span'[d].b + span'[d].p = lo + Size(g)
          /\ span'[d].n - span'[d].p = span[d].b + span[d].n - (lo + Size(g))
      BY <3>1
    <3>3. Rest(d)' = [lo |-> span'[d].b + span'[d].p, n |-> span'[d].n - span'[d].p]
      BY <1>1 DEF Rest
    <3> QED
      BY <3>2, <3>3, Zenon
  <2>4. ASSUME NEW i \in 1..Len(given) PROVE Apart(given[i], Rest(d)')
    <3>1. Apart(given[i], Rest(d)) /\ given[i] \in Region
      BY <1>2 DEF IInv, Behind, TypeOK
    <3> DEFINE left == [lo |-> lo + Size(g), n |-> span[d].b + span[d].n - (lo + Size(g))]
    <3>2. /\ Rest(d) \in [lo : Int, n : Int] /\ left \in [lo : Int, n : Int]
          /\ Within(left, Rest(d))
      <4>1. /\ span[d].b \in Nat /\ span[d].p \in Nat /\ span[d].n \in Nat
            /\ Size(g) \in Nat /\ lo \in Nat /\ span[d].b + span[d].p <= lo
        BY <1>2, <1>4 DEF Spans
      <4> QED
        BY <4>1, Leftover DEF Rest
    <3>3. given[i] \in [lo : Int, n : Int]
      BY <3>1 DEF Region
    <3>4. Apart(given[i], left)
      <4> HIDE DEF left
      <4> QED
        BY <3>1, <3>2, <3>3, ApartWithin
    <3> QED
      BY <2>3, <3>4
  <2>5. ASSUME NEW i \in 1..Len(given'), NEW e \in born
        PROVE  Apart(given'[i], Rest(e)')
    <3>1. CASE i \in 1..Len(given) /\ e = d
      BY <1>1, <1>8, <2>4, <3>1 DEF Rest
    <3>2. CASE i \in 1..Len(given) /\ e # d
      BY <1>8, <2>2, <3>2 DEF IInv, Behind
    <3>3. CASE i = Len(given) + 1
      <4>1. CASE e = d
        <5>1. /\ given'[i] = r /\ r.lo = lo /\ r.n = Size(g)
              /\ Rest(d)'.lo = lo + Size(g)
              /\ lo \in Nat /\ Size(g) \in Nat
          BY <1>2, <1>4, <1>8, <2>3, <3>3
        <5> HIDE DEF lo, r
        <5>2. r.lo + r.n <= Rest(d)'.lo
          BY <5>1
        <5>3. Apart(r, Rest(d)')
          BY <5>2, Zenon DEF Apart
        <5>4. Rest(e)' = Rest(d)'
          BY <1>1, <4>1 DEF Rest
        <5> QED
          BY <5>1, <5>3, <5>4, Zenon
      <4>2. CASE e # d
        BY <1>8, <2>2, <3>3, <4>2
      <4> QED
        BY <4>1, <4>2
    <3> QED
      BY <1>8, <2>1, <3>1, <3>2, <3>3
  <2> QED
    BY <1>1, <2>5 DEF Behind, Apart
<1>16. InBlock'
  <2>1. Within(r, Block(d)) /\ Block(d) \in heap
    BY <1>2, <1>3, <1>4, <1>6 DEF IInv, Blocks, Within, Block, Spans
  <2>2. Len(given) \in Nat
    BY DEF IInv, TypeOK
  <2> QED
    BY <1>1, <1>8, <2>1, <2>2 DEF IInv, InBlock, Within
<1> QED
  BY <1>8, <1>10, <1>11, <1>12, <1>14, <1>15, <1>16 DEF IInv

\* span.Malloc's refill: the new block has room for the object and its alignment,
\* whatever their sizes.
LEMMA RefillStep == ASSUME IInv, NEW g \in Goroutine, Refill(g) PROVE IInv'
<1> DEFINE d == held[g]
           m == IF Size(g) + Mask(g) > BlockSize THEN Size(g) + Mask(g) ELSE BlockSize
<1>1. /\ pc[g] = "malloc" /\ pc' = [pc EXCEPT ![g] = "cut"]
      /\ NewBlock(d, m)
      /\ UNCHANGED <<pool, born, held, want, given>>
  BY DEF Refill, Goto
<1>2. /\ d \in born /\ d \in Decoder
      /\ Size(g) \in Nat /\ Mask(g) \in Nat /\ m \in Nat
      /\ Size(g) + Mask(g) <= m
  <2>1. d # NoDecoder /\ want[g] # NoRequest
    BY <1>1 DEF IInv, Working
  <2>2. d \in born /\ want[g] \in Request
    BY <2>1 DEF IInv, TypeOK
  <2> QED
    BY <2>2, RequestAssumption, SizeAssumption DEF IInv, TypeOK, Size, Mask
<1>3. born' = born \cup {d}
  BY <1>1, <1>2
<1>4. /\ span' \in [Decoder -> Spans]
      /\ \A e \in Decoder : span'[e].p <= span'[e].n
      /\ span'[d].p = 0 /\ span'[d].n = m
      /\ \A e \in Decoder \ {d} : span'[e] = span[e]
      /\ heap' \subseteq Region /\ brk' \in Nat
      /\ MInv'
  BY <1>1, <1>2, <1>3, FreshBlock
<1>5. TypeOK'
  BY <1>1, <1>4 DEF IInv, TypeOK
<1>6. Exclusive' /\ Working'
  BY <1>1 DEF IInv, TypeOK, Exclusive, Working
<1>7. ASSUME NEW h \in Goroutine, pc'[h] = "cut"
      PROVE  Needs(h)' <= Cut(h)'.n
  <2>1. CASE h = g
    BY <1>1, <1>2, <1>4, <2>1 DEF Needs, Cut, Size, Mask
  <2>2. CASE h # g
    <3>1. pc[h] = "cut"
      BY <1>1, <1>7, <2>2 DEF IInv, TypeOK
    <3>2. held[h] # d /\ held[h] \in Decoder
      <4>1. held[h] # NoDecoder
        BY <3>1 DEF IInv, Working
      <4> QED
        BY <2>2, <4>1 DEF IInv, Exclusive, TypeOK
    <3>3. span'[held[h]] = span[held[h]]
      BY <1>4, <3>2
    <3> QED
      BY <1>1, <3>1, <3>3 DEF IInv, Room, Needs, Cut, Size, Mask
  <2> QED
    BY <2>1, <2>2
<1> QED
  BY <1>4, <1>5, <1>6, <1>7 DEF IInv, Room, MInv

\* decoderPool.New: the new decoder starts with a block of its own.
LEMMA GetNewStep == ASSUME IInv, NEW g \in Goroutine, GetNew(g) PROVE IInv'
<1>1. PICK d \in Decoder \ born :
         /\ pc[g] = "idle" /\ pc' = [pc EXCEPT ![g] = "decode"]
         /\ born' = born \cup {d}
         /\ held' = [held EXCEPT ![g] = d]
         /\ NewBlock(d, BlockSize)
         /\ UNCHANGED <<pool, want, given>>
  BY DEF GetNew, Goto
<1>2. /\ span' \in [Decoder -> Spans]
      /\ \A e \in Decoder : span'[e].p <= span'[e].n
      /\ \A e \in Decoder \ {d} : span'[e] = span[e]
      /\ heap' \subseteq Region /\ brk' \in Nat
      /\ MInv'
  BY <1>1, SizeAssumption, FreshBlock
<1>3. d \notin pool /\ d # NoDecoder /\ \A h \in Goroutine : held[h] # d
  BY <1>1, DecoderAssumption DEF IInv, TypeOK
<1>4. TypeOK'
  BY <1>1, <1>2 DEF IInv, TypeOK
<1>5. Exclusive' /\ Working'
  BY <1>1, <1>3 DEF IInv, TypeOK, Exclusive, Working
<1>6. Room'
  <2>1. ASSUME NEW h \in Goroutine, pc'[h] = "cut"
        PROVE  Needs(h)' <= Cut(h)'.n
    <3>1. h # g /\ pc[h] = "cut" /\ held'[h] = held[h]
      BY <1>1, <2>1 DEF IInv, TypeOK
    <3>2. held[h] # d /\ held[h] \in Decoder
      <4>1. held[h] # NoDecoder
        BY <3>1 DEF IInv, Working
      <4> QED
        BY <1>3, <4>1 DEF IInv, TypeOK
    <3>3. span'[held[h]] = span[held[h]]
      BY <1>2, <3>2
    <3> QED
      BY <1>1, <3>1, <3>3 DEF IInv, Room, Needs, Cut, Size, Mask
  <2> QED
    BY <2>1 DEF Room
<1> QED
  BY <1>2, <1>4, <1>5, <1>6 DEF IInv, MInv

\* Every step of decoders, pool and memory keeps the invariant.
LEMMA Step == IInv /\ [Next]_vars => IInv'
<1> SUFFICES ASSUME IInv, [Next]_vars PROVE IInv'
  OBVIOUS
<1> USE DEF IInv, TypeOK
<1>1. ASSUME NEW g \in Goroutine, Get(g) PROVE IInv'
  <2>1. PICK d \in pool :
           /\ pc[g] = "idle" /\ pc' = [pc EXCEPT ![g] = "decode"]
           /\ pool' = pool \ {d}
           /\ held' = [held EXCEPT ![g] = d]
           /\ UNCHANGED <<born, span, want, given, heap, brk>>
    BY <1>1 DEF Get, Goto
  <2>2. d # NoDecoder /\ \A h \in Goroutine : held[h] # d
    BY DecoderAssumption DEF Exclusive
  <2>3. TypeOK'
    BY <2>1
  <2>4. Exclusive' /\ Working'
    BY <2>1, <2>2 DEF Exclusive, Working
  <2>5. Room'
    BY <2>1 DEF Room, Needs, Cut, Size, Mask
  <2> QED
    BY <2>1, <2>3, <2>4, <2>5, SameMemory DEF MInv
<1>2. ASSUME NEW g \in Goroutine, Put(g) \/ Panic(g) PROVE IInv'
  <2>1. /\ pc[g] = "decode" /\ pc' = [pc EXCEPT ![g] = "idle"]
        /\ pool' \in {pool, pool \cup {held[g]}}
        /\ held' = [held EXCEPT ![g] = NoDecoder]
        /\ UNCHANGED <<born, span, want, given, heap, brk>>
    BY <1>2 DEF Put, Panic, Goto
  <2>2. held[g] \in born /\ held[g] # NoDecoder
    BY <2>1 DEF Working
  <2>3. TypeOK'
    BY <2>1, <2>2
  <2>4. Exclusive'
    <3>1. NoDecoder \notin pool'
      BY <2>1, <2>2, DecoderAssumption
    <3> QED
      BY <2>1, <2>2, <3>1 DEF Exclusive
  <2>5. Working' /\ Room'
    BY <2>1 DEF Working, Room, Needs, Cut, Size, Mask
  <2> QED
    BY <2>1, <2>3, <2>4, <2>5, SameMemory DEF MInv
<1>3. ASSUME NEW g \in Goroutine, NEW r \in Request, Malloc(g, r) PROVE IInv'
  <2>1. /\ pc[g] = "decode" /\ pc' = [pc EXCEPT ![g] = "malloc"]
        /\ want' = [want EXCEPT ![g] = r]
        /\ UNCHANGED <<pool, born, span, held, given, heap, brk>>
    BY <1>3 DEF Malloc, Goto
  <2>2. TypeOK' /\ Exclusive'
    BY <2>1 DEF Exclusive
  <2>3. Working'
    BY <2>1, RequestAssumption DEF Working
  <2>4. Room'
    BY <2>1 DEF Room, Needs, Cut, Size, Mask
  <2> QED
    BY <2>1, <2>2, <2>3, <2>4, SameMemory DEF MInv
<1>4. ASSUME NEW g \in Goroutine, Fits(g) PROVE IInv'
  <2>1. /\ pc[g] = "malloc" /\ pc' = [pc EXCEPT ![g] = "cut"]
        /\ Needs(g) <= Cut(g).n
        /\ UNCHANGED <<pool, born, span, held, want, given, heap, brk>>
    BY <1>4 DEF Fits, Goto
  <2>2. TypeOK' /\ Exclusive' /\ Working'
    BY <2>1 DEF Exclusive, Working
  <2>3. Room'
    BY <2>1 DEF Room, Needs, Cut, Size, Mask
  <2> QED
    BY <2>1, <2>2, <2>3, SameMemory DEF MInv
<1>5. ASSUME NEW d \in Decoder, Collect(d) PROVE IInv'
  <2>1. TypeOK' /\ Exclusive' /\ Working' /\ Room'
    BY <1>5 DEF Collect, Exclusive, Working, Room, Needs, Cut, Size, Mask
  <2> QED
    BY <1>5, <2>1, SameMemory DEF Collect, MInv
<1>6. CASE UNCHANGED vars
  <2>1. TypeOK' /\ Exclusive' /\ Working' /\ Room'
    BY <1>6 DEF vars, Exclusive, Working, Room, Needs, Cut, Size, Mask
  <2> QED
    BY <1>6, <2>1, SameMemory DEF vars, MInv
<1> QED
  BY <1>1, <1>2, <1>3, <1>4, <1>5, <1>6, GetNewStep, RefillStep, DirectStep, TakeStep
  DEF Next

\* The state in which the package is loaded satisfies the invariant.
LEMMA Start == Init => IInv
BY DEF Init, IInv, TypeOK, Exclusive, Working, Room, Blocks, Below, Behind, InBlock,
       Disjoint, Spans, NoSpan

\* The invariant of the decoder's memory.
THEOREM Invariance == Spec => []IInv
BY Start, Step, PTL DEF Spec

\* Types, and no span counts more than its block has.
THEOREM TypeCorrect == Spec => []TypeOK
<1>1. IInv => TypeOK
  BY DEF IInv
<1> QED
  BY <1>1, Invariance, PTL

\* A decoder, whose span has no lock, has one user at a time (decoderPool).
THEOREM OneUser == Spec => []Exclusive
<1>1. IInv => Exclusive
  BY DEF IInv
<1> QED
  BY <1>1, Invariance, PTL

\* No two objects tDecoder.Malloc ever returned share a byte.
THEOREM NoOverlap == Spec => []Disjoint
<1>1. IInv => Disjoint
  BY DEF IInv
<1> QED
  BY <1>1, Invariance, PTL

\* Every object lies within one region of the runtime's.
THEOREM InBounds == Spec => []InBlock
<1>1. IInv => InBlock
  BY DEF IInv
<1> QED
  BY <1>1, Invariance, PTL

-----------------------------------------------------------------------------
\* What a goroutine is given is an answer of the abstract allocator.
LEMMA AnswerStep ==
    ASSUME IInv, NEW g \in Goroutine, NEW lo \in Nat, Give(g, lo), want[g] # NoRequest,
           lo % want[g].align = 0,
           \A i \in 1..Len(given) : Apart(given[i], [lo |-> lo, n |-> Size(g)])
    PROVE  Memory!Answer(g)
<1>1. want[g] \in Request /\ Size(g) \in Nat
  BY RequestAssumption DEF IInv, TypeOK, Size
<1>2. /\ Len(given') = Len(given) + 1
      /\ given'[Len(given) + 1] = [lo |-> lo, n |-> Size(g)]
  BY <1>1, GiveOut
<1>3. Memory!Fresh([lo |-> lo, n |-> Size(g)])
  BY DEF Memory!Fresh, Apart
<1> QED
  BY <1>1, <1>2, <1>3 DEF Memory!Answer, Memory!Region, Give, Size

\* Each step is one of the allocator's, or leaves requests and regions alone.
LEMMA Refines == IInv /\ [Next]_vars => [Memory!Next]_<<want, given>>
<1> SUFFICES ASSUME IInv, [Next]_vars PROVE [Memory!Next]_<<want, given>>
  OBVIOUS
<1>1. ASSUME NEW g \in Goroutine, NEW r \in Request, Malloc(g, r)
      PROVE  Memory!Ask(g)
  BY <1>1 DEF Malloc, Goto, Memory!Ask, IInv, Working
<1>2. ASSUME NEW g \in Goroutine, Direct(g) PROVE Memory!Answer(g)
  <2>1. PICK gap \in Gap :
           /\ (brk + gap) % want[g].align = 0
           /\ Mallocgc(brk + gap, Size(g))
           /\ Give(g, brk + gap)
    BY <1>2 DEF Direct
  <2>2. want[g] # NoRequest /\ Size(g) \in Nat
    BY <1>2, RequestAssumption DEF Direct, Goto, IInv, Working, TypeOK, Size
  <2>3. /\ brk + gap \in Nat
        /\ \A i \in 1..Len(given) : given[i].lo + given[i].n <= brk + gap
    BY <2>1, <2>2, NewMemory
  <2> QED
    BY <2>1, <2>2, <2>3, AnswerStep DEF Apart
<1>3. ASSUME NEW g \in Goroutine, Take(g) PROVE Memory!Answer(g)
  <2> DEFINE d == held[g]
             ret == span[d].b + span[d].p
             lo == AlignUp(ret, want[g].align)
  <2>1. Give(g, ret + (lo - ret))
    BY <1>3 DEF Take, Cut
  <2>2. /\ d \in born /\ span[d] \in Spans
        /\ want[g] # NoRequest /\ want[g] \in Request /\ want[g].align \in Nat \ {0}
    <3>1. d # NoDecoder /\ want[g] # NoRequest
      BY <1>3 DEF Take, Goto, IInv, Working
    <3> QED
      BY <3>1, RequestAssumption DEF IInv, TypeOK
  <2>3. lo \in Nat /\ lo % want[g].align = 0 /\ ret \in Nat
    <3>1. ret \in Nat
      BY <2>2 DEF Spans
    <3> QED
      BY <2>2, <3>1, Rounding
  <2>4. Give(g, lo)
    <3>1. ret + (lo - ret) = lo
      BY <2>3
    <3> QED
      BY <2>1, <3>1
  <2>5. Disjoint' /\ given' = Append(given, [lo |-> lo, n |-> Size(g)])
    BY <1>3, <2>4, TakeStep DEF IInv, Give
  <2>6. ASSUME NEW i \in 1..Len(given)
        PROVE  Apart(given[i], [lo |-> lo, n |-> Size(g)])
    <3>1. given \in Seq(Region) /\ [lo |-> lo, n |-> Size(g)] \in Region
      BY <2>2, <2>3, RequestAssumption DEF IInv, TypeOK, Size, Region
    <3>2. /\ given'[i] = given[i]
          /\ given'[Len(given) + 1] = [lo |-> lo, n |-> Size(g)]
          /\ i \in 1..Len(given') /\ Len(given) + 1 \in 1..Len(given')
          /\ i # Len(given) + 1
      BY <2>5, <2>6, <3>1
    <3>3. Apart(given'[i], given'[Len(given) + 1])
      BY <2>5, <3>2 DEF Disjoint, Apart
    <3> QED
      BY <3>2, <3>3
  <2> QED
    BY <2>2, <2>3, <2>4, <2>6, AnswerStep
<1>4. ASSUME NEW g \in Goroutine,
             Get(g) \/ GetNew(g) \/ Put(g) \/ Panic(g) \/ Refill(g) \/ Fits(g)
      PROVE  UNCHANGED <<want, given>>
  BY <1>4 DEF Get, GetNew, Put, Panic, Refill, Fits
<1>5. ASSUME NEW d \in Decoder, Collect(d) PROVE UNCHANGED <<want, given>>
  BY <1>5 DEF Collect
<1> QED
  BY <1>1, <1>2, <1>3, <1>4, <1>5 DEF Next, vars, Memory!Next

\* Decoders, pool, spans and mallocgc together are the allocator decodeType works
\* with: every request is answered with fresh, aligned memory of its size.
THEOREM Implements == Spec => ImplementsAllocator
<1>1. Init => Memory!Init
  BY DEF Init, Memory!Init
<1> QED
  BY <1>1, Refines, Invariance, PTL DEF Spec, ImplementsAllocator, Memory!Spec
=============================================================================
