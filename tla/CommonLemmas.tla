---------------------------- MODULE CommonLemmas ----------------------------
(***************************************************************************)
(* A stack of frames, whatever the frames: one is pushed, popped, put in   *)
(* the place of the top. The sums of the community modules:                *)
(* SumFunctionOnSet does not depend on the order it takes elements in. And *)
(* recursion: induction on a depth, and that there is a function which     *)
(* each step of a recursion or each turn of a loop makes of itself.        *)
(***************************************************************************)
EXTENDS FiniteSetTheorems, SequenceTheorems, WellFoundedInduction, Functions, TLAPS

IsSeq(s) == s \in Seq(Range(s))

LEMMA InSeq == ASSUME NEW S, NEW s \in Seq(S) PROVE IsSeq(s)
BY SeqOfRange DEF IsSeq

LEMMA PushSeq ==
    ASSUME NEW s, IsSeq(s), NEW f
    PROVE  /\ IsSeq(Append(s, f))
           /\ Len(Append(s, f)) = Len(s) + 1
           /\ \A k \in 1..Len(s) : Append(s, f)[k] = s[k]
           /\ Append(s, f)[Len(s) + 1] = f
<1> DEFINE S == Range(s) \cup {f}
<1>1. s \in Seq(S) /\ f \in S
  BY SeqMonotonic DEF IsSeq
<1> HIDE DEF S
<1>2. /\ Append(s, f) \in Seq(S)
      /\ Len(Append(s, f)) = Len(s) + 1
      /\ \A k \in 1..Len(s) : Append(s, f)[k] = s[k]
      /\ Append(s, f)[Len(s) + 1] = f
  BY <1>1, AppendProperties
<1>3. IsSeq(Append(s, f))
  BY <1>2, InSeq
<1> QED
  BY <1>2, <1>3

LEMMA PopSeq ==
    ASSUME NEW s, IsSeq(s), s # <<>>
    PROVE  /\ Len(s) \in Nat \ {0}
           /\ IsSeq(SubSeq(s, 1, Len(s) - 1))
           /\ Len(SubSeq(s, 1, Len(s) - 1)) = Len(s) - 1
           /\ \A k \in 1..(Len(s) - 1) : SubSeq(s, 1, Len(s) - 1)[k] = s[k]
<1>1. Len(s) \in Nat \ {0}
  BY EmptySeq DEF IsSeq
<1>2. \A k \in 1..(Len(s) - 1) : s[k] \in Range(s)
  BY <1>1, ElementOfSeq DEF IsSeq
<1> DEFINE t == SubSeq(s, 1, Len(s) - 1)
<1>3. t \in Seq(Range(s)) /\ Len(t) = Len(s) - 1 /\ \A k \in 1..(Len(s) - 1) : t[k] = s[k]
  <2>1. Len(s) - 1 \in Int /\ 1 \in Int
    BY <1>1
  <2>2. /\ t \in Seq(Range(s))
        /\ Len(t) = IF 1 <= Len(s) - 1 THEN Len(s) - 1 - 1 + 1 ELSE 0
        /\ \A k \in 1..(Len(s) - 1 - 1 + 1) : t[k] = s[1 + k - 1]
    BY <1>2, <2>1, SubSeqProperties
  <2>3. Len(s) - 1 - 1 + 1 = Len(s) - 1 /\ \A k \in 1..(Len(s) - 1) : 1 + k - 1 = k
    BY <1>1
  <2>4. \A k \in 1..(Len(s) - 1) : t[k] = s[k]
    BY <2>2, <2>3, Zenon
  <2>5. \A n \in Nat \ {0} : (IF 1 <= n - 1 THEN n - 1 - 1 + 1 ELSE 0) = n - 1
    OBVIOUS
  <2>6. Len(t) = Len(s) - 1
    BY <1>1, <2>2, <2>5, Zenon
  <2> QED
    BY <2>2, <2>4, <2>6
<1>4. IsSeq(t)
  BY <1>3, InSeq
<1> QED
  BY <1>1, <1>3, <1>4

WithTop(s, f) == [s EXCEPT ![Len(s)] = f]

LEMMA SetTopSeq ==
    ASSUME NEW s, IsSeq(s), s # <<>>, NEW f
    PROVE  LET t == WithTop(s, f) IN
           /\ IsSeq(t)
           /\ Len(t) = Len(s)
           /\ \A k \in 1..Len(s) : t[k] = IF k = Len(s) THEN f ELSE s[k]
<1> DEFINE S == Range(s) \cup {f}
<1>1. s \in Seq(S) /\ f \in S
  BY SeqMonotonic DEF IsSeq
<1>2. Len(s) \in 1..Len(s)
  BY EmptySeq DEF IsSeq
<1> HIDE DEF S
<1> DEFINE t == WithTop(s, f)
<1>3. t \in Seq(S) /\ Len(t) = Len(s) /\ \A k \in 1..Len(s) : t[k] = IF k = Len(s) THEN f ELSE s[k]
  BY <1>1, <1>2, ExceptSeq DEF WithTop
<1>4. IsSeq(t)
  BY <1>3, InSeq
<1> QED
  BY <1>3, <1>4

\* The top popped and another frame pushed.
LEMMA ReplaceTopSeq ==
    ASSUME NEW s, IsSeq(s), s # <<>>, NEW f
    PROVE  LET t == Append(SubSeq(s, 1, Len(s) - 1), f) IN
           /\ IsSeq(t)
           /\ Len(t) = Len(s)
           /\ \A k \in 1..Len(s) : t[k] = IF k = Len(s) THEN f ELSE s[k]
<1> DEFINE r == SubSeq(s, 1, Len(s) - 1)
           t == Append(r, f)
<1>1. /\ Len(s) \in Nat \ {0} /\ IsSeq(r) /\ Len(r) = Len(s) - 1
      /\ \A k \in 1..(Len(s) - 1) : r[k] = s[k]
  BY PopSeq
<1> HIDE DEF r
<1>2. /\ IsSeq(t) /\ Len(t) = Len(r) + 1 /\ t[Len(r) + 1] = f
      /\ \A k \in 1..Len(r) : t[k] = r[k]
  BY <1>1, PushSeq
<1> HIDE DEF t
<1>3. Len(t) = Len(s) /\ t[Len(s)] = f /\ \A k \in 1..(Len(s) - 1) : t[k] = s[k]
  BY <1>1, <1>2
<1>4. \A k \in 1..Len(s) : k # Len(s) => k \in 1..(Len(s) - 1)
  BY <1>1
<1>5. \A k \in 1..Len(s) : t[k] = IF k = Len(s) THEN f ELSE s[k]
  BY <1>3, <1>4
<1> QED
  BY <1>2, <1>3, <1>5 DEF t, r

LEMMA SingleSeq == ASSUME NEW S, NEW e \in S PROVE <<e>> \in Seq(S)
<1>1. <<>> \in Seq(S)
  BY EmptySeq
<1>2. Append(<<>>, e) \in Seq(S)
  BY <1>1, AppendProperties
<1>3. Append(<<>>, e) = <<e>>
  OBVIOUS
<1> QED
  BY <1>2, <1>3

-----------------------------------------------------------------------------
\* Induction, over numbers and over finite sets.
LEMMA NatSet ==
    ASSUME NEW G, 0 \in G, \A n \in Nat : n \in G => n + 1 \in G
    PROVE  Nat \subseteq G
<1> SUFFICES ASSUME Nat \ G # {} PROVE FALSE
  OBVIOUS
<1>1. PICK n \in Nat \ G : \A m \in Nat \ G : ~ (<<m, n>> \in OpToRel(<, Nat))
  BY NatLessThanWellFounded, WFMin, Zenon
<1>2. n - 1 \in Nat /\ n - 1 \notin G
  <2>1. n # 0
    BY <1>1
  <2>2. \A m \in Nat \ {0} : m - 1 \in Nat /\ (m - 1) + 1 = m
    OBVIOUS
  <2>3. n - 1 \in Nat /\ (n - 1) + 1 = n
    BY <2>1, <2>2, Zenon
  <2> QED
    BY <1>1, <2>3
<1>3. <<n - 1, n>> \in OpToRel(<, Nat)
  BY <1>1, <1>2 DEF OpToRel
<1> QED
  BY <1>1, <1>2, <1>3

LEMMA SetSet ==
    ASSUME NEW S, IsFiniteSet(S), NEW G, {} \in G,
           \A T \in SUBSET S : \A x \in S \ T : T \in G => T \cup {x} \in G
    PROVE  S \in G
<1> DEFINE H == {n \in Nat : \A T \in SUBSET S : Cardinality(T) = n => T \in G}
<1>1. \A T \in SUBSET S : IsFiniteSet(T) /\ Cardinality(T) \in Nat
  BY FS_Subset, FS_CardinalityType
<1>2. 0 \in H
  <2>1. \A T \in SUBSET S : Cardinality(T) = 0 => T = {}
    BY <1>1, FS_EmptySet
  <2> QED
    BY <2>1
<1>3. ASSUME NEW n \in Nat, n \in H PROVE n + 1 \in H
  <2> SUFFICES ASSUME NEW T \in SUBSET S, Cardinality(T) = n + 1 PROVE T \in G
    OBVIOUS
  <2>1. PICK x : x \in T
    <3>1. n + 1 # 0
      OBVIOUS
    <3> QED
      BY <3>1, FS_EmptySet
  <2>2. Cardinality(T \ {x}) = n
    <3>1. IsFiniteSet(T) /\ Cardinality(T) = n + 1
      BY <1>1
    <3>2. Cardinality(T \ {x}) = Cardinality(T) - 1
      BY <2>1, <3>1, FS_RemoveElement
    <3> QED
      BY <3>1, <3>2
  <2>3. T \ {x} \in G
    BY <1>3, <2>2
  <2>4. T \ {x} \in SUBSET S /\ x \in S \ (T \ {x}) /\ T = (T \ {x}) \cup {x}
    BY <2>1
  <2> QED
    BY <2>3, <2>4
<1> HIDE DEF H
<1>4. Nat \subseteq H
  BY <1>2, <1>3, NatSet
<1>5. Cardinality(S) \in H
  BY <1>1, <1>4
<1> QED
  BY <1>5 DEF H

-----------------------------------------------------------------------------
\* The recursive function that SumFunctionOnSet is defined by exists.
Counted(w, S) == \A x \in S : w[x] \in Nat
AnyOf(s) == CHOOSE x \in s : TRUE
Fold(w, h, s) == IF s = {} THEN 0 ELSE w[AnyOf(s)] + h[s \ {AnyOf(s)}]
Folding(w, S, h) == h = [s \in SUBSET S |-> Fold(w, h, s)]

LEMMA AnyOfIn == ASSUME NEW s, s # {} PROVE AnyOf(s) \in s
BY DEF AnyOf

LEMMA Unfold ==
    ASSUME NEW w, NEW S
    PROVE  SumFunctionOnSet(w, S) = (CHOOSE h : Folding(w, S, h))[S]
BY DEF SumFunctionOnSet, FoldFunctionOnSet, MapThenFoldSet, Folding, Fold, AnyOf

Small(S, n) == {s \in SUBSET S : Cardinality(s) <= n}
FoldsSmall(w, S, n, h) ==
    /\ h \in [Small(S, n) -> Nat]
    /\ \A s \in Small(S, n) : h[s] = Fold(w, h, s)

LEMMA RemoveAny ==
    ASSUME NEW S, IsFiniteSet(S), NEW s \in SUBSET S, s # {}, NEW x \in s
    PROVE  /\ IsFiniteSet(s) /\ Cardinality(s) \in Nat \ {0}
           /\ s \ {x} \in SUBSET S /\ Cardinality(s \ {x}) = Cardinality(s) - 1
<1>1. IsFiniteSet(s) /\ Cardinality(s) \in Nat
  BY FS_Subset, FS_CardinalityType
<1>2. Cardinality(s) # 0
  BY <1>1, FS_EmptySet
<1>3. Cardinality(s \ {x}) = Cardinality(s) - 1
  BY <1>1, FS_RemoveElement
<1> QED
  BY <1>1, <1>2, <1>3

LEMMA FoldExists ==
    ASSUME NEW S, IsFiniteSet(S), NEW w, Counted(w, S)
    PROVE  \A n \in Nat : \E h : FoldsSmall(w, S, n, h)
<1> DEFINE H == {n \in Nat : \E h : FoldsSmall(w, S, n, h)}
<1>1. 0 \in H
  <2> DEFINE h == [s \in Small(S, 0) |-> 0]
  <2>1. \A s \in Small(S, 0) : s = {}
    <3> TAKE s \in Small(S, 0)
    <3>1. s \in SUBSET S /\ Cardinality(s) <= 0 /\ IsFiniteSet(s)
      BY FS_Subset DEF Small
    <3>2. Cardinality(s) \in Nat
      BY <3>1, FS_CardinalityType
    <3> QED
      BY <3>1, <3>2, FS_EmptySet
  <2>2. FoldsSmall(w, S, 0, h)
    BY <2>1 DEF FoldsSmall, Fold
  <2> QED
    BY <2>2
<1>2. ASSUME NEW n \in Nat, n \in H PROVE n + 1 \in H
  <2>1. PICK h : FoldsSmall(w, S, n, h)
    BY <1>2
  <2> DEFINE g == [s \in Small(S, n + 1) |-> Fold(w, h, s)]
  <2>2. ASSUME NEW s \in Small(S, n + 1), s # {}
        PROVE  AnyOf(s) \in S /\ s \ {AnyOf(s)} \in Small(S, n)
    <3>1. s \in SUBSET S /\ Cardinality(s) <= n + 1 /\ AnyOf(s) \in s
      BY <2>2, AnyOfIn DEF Small
    <3>2. /\ Cardinality(s) \in Nat \ {0} /\ s \ {AnyOf(s)} \in SUBSET S
          /\ Cardinality(s \ {AnyOf(s)}) = Cardinality(s) - 1
      BY <2>2, <3>1, RemoveAny
    <3>3. Cardinality(s \ {AnyOf(s)}) <= n
      BY <3>1, <3>2
    <3> QED
      BY <3>1, <3>2, <3>3 DEF Small
  <2>3. Small(S, n) \subseteq Small(S, n + 1)
    <3> SUFFICES ASSUME NEW s \in Small(S, n) PROVE Cardinality(s) <= n + 1
      BY DEF Small
    <3>1. Cardinality(s) <= n /\ Cardinality(s) \in Nat
      BY FS_Subset, FS_CardinalityType DEF Small
    <3> QED
      BY <3>1
  <2>4. \A s \in Small(S, n) : g[s] = h[s]
    BY <2>1, <2>3 DEF FoldsSmall
  <2>5. ASSUME NEW s \in Small(S, n + 1) PROVE Fold(w, h, s) \in Nat /\ Fold(w, h, s) = Fold(w, g, s)
    <3>1. CASE s = {}
      BY <3>1 DEF Fold
    <3>2. CASE s # {}
      <4> DEFINE x == AnyOf(s)
                 r == s \ {AnyOf(s)}
      <4>1. x \in S /\ r \in Small(S, n)
        BY <2>2, <3>2
      <4>2. w[x] \in Nat /\ h[r] \in Nat /\ g[r] = h[r]
        BY <2>1, <2>4, <4>1 DEF FoldsSmall, Counted
      <4> HIDE DEF g
      <4> QED
        BY <3>2, <4>2 DEF Fold
    <3> QED
      BY <3>1, <3>2
  <2>6. FoldsSmall(w, S, n + 1, g)
    <3>1. g \in [Small(S, n + 1) -> Nat]
      BY <2>5
    <3>2. \A s \in Small(S, n + 1) : g[s] = Fold(w, g, s)
      <4> TAKE s \in Small(S, n + 1)
      <4>1. g[s] = Fold(w, h, s)
        OBVIOUS
      <4> HIDE DEF g
      <4> QED
        BY <2>5, <4>1
    <3> HIDE DEF g
    <3> QED
      BY <3>1, <3>2 DEF FoldsSmall
  <2> QED
    BY <2>6
<1> HIDE DEF H
<1>3. Nat \subseteq H
  BY <1>1, <1>2, NatSet
<1> QED
  BY <1>3 DEF H

\* So the sum is what the recursion says, of any set of which all elements count.
LEMMA FoldUnique ==
    ASSUME NEW S, IsFiniteSet(S), NEW w, Counted(w, S), NEW h, Folding(w, S, h), NEW n \in Nat, NEW g,
           FoldsSmall(w, S, n, g)
    PROVE  \A s \in Small(S, n) : h[s] = g[s]
<1> DEFINE H == {m \in Nat : \A s \in Small(S, n) : Cardinality(s) = m => h[s] = g[s]}
<1>1. \A s \in SUBSET S : h[s] = Fold(w, h, s)
  BY DEF Folding
<1>2. \A s \in Small(S, n) : s \in SUBSET S /\ g[s] = Fold(w, g, s)
  BY DEF FoldsSmall, Small
<1>3. 0 \in H
  <2> SUFFICES ASSUME NEW s \in Small(S, n), Cardinality(s) = 0 PROVE h[s] = g[s]
    OBVIOUS
  <2>1. s \in SUBSET S /\ IsFiniteSet(s)
    BY <1>2, FS_Subset
  <2>2. s = {}
    BY <2>1, FS_EmptySet
  <2>3. h[s] = 0 /\ g[s] = 0
    BY <1>1, <1>2, <2>1, <2>2 DEF Fold
  <2> QED
    BY <2>3
<1>4. ASSUME NEW m \in Nat, m \in H PROVE m + 1 \in H
  <2> SUFFICES ASSUME NEW s \in Small(S, n), Cardinality(s) = m + 1 PROVE h[s] = g[s]
    OBVIOUS
  <2>1. s \in SUBSET S /\ IsFiniteSet(s) /\ s # {}
    <3>1. s \in SUBSET S /\ m + 1 # 0
      BY <1>2
    <3> QED
      BY <3>1, FS_Subset, FS_EmptySet
  <2> DEFINE x == AnyOf(s)
             r == s \ {AnyOf(s)}
  <2>2. x \in s
    BY <2>1, AnyOfIn
  <2>3. r \in SUBSET S /\ Cardinality(r) = Cardinality(s) - 1
    BY <2>1, <2>2, RemoveAny
  <2>4. Cardinality(s) <= n
    BY DEF Small
  <2>5. Cardinality(r) = m /\ Cardinality(r) <= n
    BY <2>3, <2>4
  <2>6. r \in Small(S, n)
    BY <2>3, <2>5 DEF Small
  <2>7. h[r] = g[r]
    BY <1>4, <2>5, <2>6
  <2>8. h[s] = w[x] + h[r] /\ g[s] = w[x] + g[r]
    BY <1>1, <1>2, <2>1 DEF Fold
  <2> QED
    BY <2>7, <2>8
<1> HIDE DEF H
<1>5. Nat \subseteq H
  BY <1>3, <1>4, NatSet
<1> SUFFICES ASSUME NEW s \in Small(S, n) PROVE h[s] = g[s]
  OBVIOUS
<1>6. Cardinality(s) \in Nat
  BY <1>2, FS_Subset, FS_CardinalityType
<1>7. Cardinality(s) \in H
  BY <1>5, <1>6
<1> QED
  BY <1>7 DEF H

LEMMA FoldTyped ==
    ASSUME NEW S, IsFiniteSet(S), NEW w, Counted(w, S)
    PROVE  /\ \E h : Folding(w, S, h)
           /\ \A h : Folding(w, S, h) => \A s \in SUBSET S : h[s] \in Nat
<1> DEFINE n == Cardinality(S)
<1>1. n \in Nat
  BY FS_CardinalityType
<1>2. PICK g : FoldsSmall(w, S, n, g)
  BY <1>1, FoldExists
<1>3. Small(S, n) = SUBSET S
  <2> SUFFICES ASSUME NEW s \in SUBSET S PROVE Cardinality(s) <= n
    BY DEF Small
  <2> QED
    BY FS_Subset
<1>4. Folding(w, S, g)
  BY <1>2, <1>3 DEF FoldsSmall, Folding
<1>5. ASSUME NEW h, Folding(w, S, h) PROVE \A s \in SUBSET S : h[s] \in Nat
  <2>1. \A s \in Small(S, n) : h[s] = g[s]
    BY <1>1, <1>2, <1>5, FoldUnique
  <2>2. \A s \in Small(S, n) : g[s] \in Nat
    BY <1>2 DEF FoldsSmall
  <2> HIDE DEF n
  <2> QED
    BY <1>3, <2>1, <2>2
<1> QED
  BY <1>4, <1>5

\* The sum over a set by one of its subsets' functions.
LEMMA FoldOfSubset ==
    ASSUME NEW S, IsFiniteSet(S), NEW w, Counted(w, S), NEW h, Folding(w, S, h), NEW T \in SUBSET S
    PROVE  SumFunctionOnSet(w, T) = h[T]
<1> DEFINE g == CHOOSE k : Folding(w, T, k)
           n == Cardinality(T)
<1>1. IsFiniteSet(T) /\ Counted(w, T)
  BY FS_Subset DEF Counted
<1>2. Folding(w, T, g)
  <2>1. \E k : Folding(w, T, k)
    BY <1>1, FoldTyped
  <2> QED
    BY <2>1
<1>3. SumFunctionOnSet(w, T) = g[T]
  BY Unfold
<1> HIDE DEF g
<1>4. n \in Nat /\ T \in Small(T, n)
  <2>1. n \in Nat
    BY <1>1, FS_CardinalityType
  <2> QED
    BY <2>1 DEF Small
<1>5. PICK f : FoldsSmall(w, T, n, f)
  BY <1>1, <1>4, FoldExists
<1> DEFINE r == [s \in SUBSET T |-> h[s]]
<1>6. Folding(w, T, r)
  <2>1. \A s \in SUBSET T : s \in SUBSET S /\ (s # {} => s \ {AnyOf(s)} \in SUBSET T)
    OBVIOUS
  <2>2. \A s \in SUBSET T : h[s] = Fold(w, h, s)
    BY <2>1 DEF Folding
  <2>3. \A s \in SUBSET T : Fold(w, h, s) = Fold(w, r, s)
    BY <2>1 DEF Fold
  <2>4. r = [s \in SUBSET T |-> Fold(w, r, s)]
    <3>1. \A s \in SUBSET T : r[s] = h[s] /\ r[s] = Fold(w, r, s)
      BY <2>2, <2>3
    <3>2. DOMAIN r = SUBSET T /\ r = [s \in DOMAIN r |-> r[s]]
      OBVIOUS
    <3> HIDE DEF r
    <3> QED
      BY <3>1, <3>2
  <2> QED
    BY <2>4 DEF Folding
<1>7. r[T] = h[T]
  OBVIOUS
<1> HIDE DEF r
<1>8. g[T] = f[T] /\ r[T] = f[T]
  BY <1>1, <1>2, <1>4, <1>5, <1>6, FoldUnique
<1> QED
  BY <1>3, <1>7, <1>8

LEMMA SumTyped ==
    ASSUME NEW S, IsFiniteSet(S), NEW w, Counted(w, S)
    PROVE  SumFunctionOnSet(w, S) \in Nat
<1>1. PICK h : Folding(w, S, h)
  BY FoldTyped
<1>2. SumFunctionOnSet(w, S) = h[S] /\ h[S] \in Nat
  BY <1>1, FoldOfSubset, FoldTyped
<1> QED
  BY <1>2

LEMMA SumNone == ASSUME NEW w PROVE SumFunctionOnSet(w, {}) = 0
<1>1. IsFiniteSet({}) /\ Counted(w, {})
  BY FS_EmptySet DEF Counted
<1>2. PICK h : Folding(w, {}, h)
  BY <1>1, FoldTyped
<1>3. SumFunctionOnSet(w, {}) = h[{}]
  BY <1>1, <1>2, FoldOfSubset
<1>4. h[{}] = 0
  BY <1>2 DEF Folding, Fold
<1> QED
  BY <1>3, <1>4

\* One element, whichever, and the rest.
LEMMA SumAny ==
    ASSUME NEW S, IsFiniteSet(S), NEW w, Counted(w, S), S # {}
    PROVE  AnyOf(S) \in S /\ SumFunctionOnSet(w, S) = w[AnyOf(S)] + SumFunctionOnSet(w, S \ {AnyOf(S)})
<1>1. PICK h : Folding(w, S, h)
  BY FoldTyped
<1>2. AnyOf(S) \in S
  BY AnyOfIn
<1>3. S \ {AnyOf(S)} \in SUBSET S /\ S \in SUBSET S
  OBVIOUS
<1>4. SumFunctionOnSet(w, S) = h[S] /\ SumFunctionOnSet(w, S \ {AnyOf(S)}) = h[S \ {AnyOf(S)}]
  BY <1>1, <1>3, FoldOfSubset
<1>5. h[S] = w[AnyOf(S)] + h[S \ {AnyOf(S)}]
  BY <1>1, <1>3 DEF Folding, Fold
<1> QED
  BY <1>2, <1>4, <1>5

LEMMA SumRemove ==
    ASSUME NEW S, IsFiniteSet(S), NEW w, Counted(w, S), NEW x \in S
    PROVE  SumFunctionOnSet(w, S) = w[x] + SumFunctionOnSet(w, S \ {x})
<1> DEFINE Sum(T) == SumFunctionOnSet(w, T)
           G == {n \in Nat : \A T \in SUBSET S : Cardinality(T) = n =>
                                \A y \in T : Sum(T) = w[y] + Sum(T \ {y})}
<1>1. \A T \in SUBSET S : /\ IsFiniteSet(T) /\ Counted(w, T) /\ Sum(T) \in Nat /\ Cardinality(T) \in Nat
                          /\ \A y \in T : w[y] \in Nat
  BY FS_Subset, FS_CardinalityType, SumTyped DEF Counted
<1>2. 0 \in G
  BY <1>1, FS_EmptySet
<1>3. ASSUME NEW n \in Nat, n \in G PROVE n + 1 \in G
  <2> SUFFICES ASSUME NEW T \in SUBSET S, Cardinality(T) = n + 1, NEW y \in T
               PROVE  Sum(T) = w[y] + Sum(T \ {y})
    OBVIOUS
  <2> DEFINE c == AnyOf(T)
  <2>1. c \in T /\ Sum(T) = w[c] + Sum(T \ {c})
    BY <1>1, SumAny
  <2>2. CASE c = y
    BY <2>1, <2>2
  <2>3. CASE c # y
    <3> HIDE DEF c
    <3>1. T \ {c} \in SUBSET S /\ T \ {y} \in SUBSET S /\ T \ {c, y} \in SUBSET S
      OBVIOUS
    <3>2. Cardinality(T \ {c}) = n /\ Cardinality(T \ {y}) = n
      <4>1. Cardinality(T \ {c}) = Cardinality(T) - 1 /\ Cardinality(T \ {y}) = Cardinality(T) - 1
        BY <1>1, <2>1, RemoveAny
      <4> QED
        BY <4>1
    <3>3. Sum(T \ {c}) = w[y] + Sum((T \ {c}) \ {y}) /\ Sum(T \ {y}) = w[c] + Sum((T \ {y}) \ {c})
      BY <1>3, <2>1, <2>3, <3>1, <3>2
    <3>4. (T \ {c}) \ {y} = T \ {c, y} /\ (T \ {y}) \ {c} = T \ {c, y}
      OBVIOUS
    <3>5. Sum(T \ {c, y}) \in Nat /\ w[c] \in Nat /\ w[y] \in Nat
      BY <1>1, <2>1, <3>1
    <3>6. Sum(T \ {c}) = w[y] + Sum(T \ {c, y}) /\ Sum(T \ {y}) = w[c] + Sum(T \ {c, y})
      BY <3>3, <3>4, Zenon
    <3> DEFINE s == Sum(T \ {c, y})
               a == w[c]
               b == w[y]
    <3>7. Sum(T) = a + (b + s) /\ Sum(T \ {y}) = a + s
      BY <2>1, <3>6, Zenon
    <3>8. s \in Nat /\ a \in Nat /\ b \in Nat
      BY <3>5
    <3> HIDE DEF s, a, b
    <3>9. a + (b + s) = b + (a + s)
      BY <3>8
    <3>10. Sum(T) = b + Sum(T \ {y})
      BY <3>7, <3>9, Zenon
    <3> QED
      BY <3>10 DEF b
  <2> QED
    BY <2>2, <2>3
<1> HIDE DEF G
<1>4. Nat \subseteq G
  BY <1>2, <1>3, NatSet
<1>5. Cardinality(S) \in G
  BY <1>1, <1>4
<1> QED
  BY <1>5 DEF G

LEMMA SumAdd ==
    ASSUME NEW S, IsFiniteSet(S), NEW w, NEW x, x \notin S, Counted(w, S \cup {x})
    PROVE  SumFunctionOnSet(w, S \cup {x}) = SumFunctionOnSet(w, S) + w[x]
<1>1. IsFiniteSet(S \cup {x}) /\ (S \cup {x}) \ {x} = S /\ Counted(w, S) /\ w[x] \in Nat
  BY FS_AddElement DEF Counted
<1>2. SumFunctionOnSet(w, S) \in Nat
  BY <1>1, SumTyped
<1>3. SumFunctionOnSet(w, S \cup {x}) = w[x] + SumFunctionOnSet(w, S)
  BY <1>1, SumRemove
<1> QED
  BY <1>1, <1>2, <1>3

LEMMA SumNext ==
    ASSUME NEW S, IsFiniteSet(S), NEW x, x \notin S, NEW T, T = S \cup {x}, NEW w, Counted(w, T)
    PROVE  SumFunctionOnSet(w, T) = SumFunctionOnSet(w, S) + w[x]
BY SumAdd

\* Only what the elements count matters.
LEMMA SumSame ==
    ASSUME NEW S, IsFiniteSet(S), NEW w, Counted(w, S), NEW u, \A x \in S : u[x] = w[x]
    PROVE  SumFunctionOnSet(u, S) = SumFunctionOnSet(w, S)
<1> DEFINE G == {T \in SUBSET S : SumFunctionOnSet(u, T) = SumFunctionOnSet(w, T)}
<1>1. {} \in G
  BY SumNone
<1>2. ASSUME NEW T \in SUBSET S, NEW x \in S \ T, T \in G PROVE T \cup {x} \in G
  <2>1. /\ IsFiniteSet(T) /\ Counted(w, T \cup {x}) /\ Counted(u, T \cup {x}) /\ T \cup {x} \in SUBSET S
        /\ u[x] = w[x]
    BY FS_Subset DEF Counted
  <2>2. /\ SumFunctionOnSet(u, T \cup {x}) = SumFunctionOnSet(u, T) + u[x]
        /\ SumFunctionOnSet(w, T \cup {x}) = SumFunctionOnSet(w, T) + w[x]
    BY <2>1, SumAdd
  <2> QED
    BY <1>2, <2>1, <2>2
<1>3. S \in G
  <2> HIDE DEF G
  <2> QED
    BY <1>1, <1>2, SetSet
<1> QED
  BY <1>3

LEMMA SumUnion ==
    ASSUME NEW S, IsFiniteSet(S), NEW T, IsFiniteSet(T), S \cap T = {}, NEW w, Counted(w, S \cup T)
    PROVE  SumFunctionOnSet(w, S \cup T) = SumFunctionOnSet(w, S) + SumFunctionOnSet(w, T)
<1> DEFINE G == {R \in SUBSET T : SumFunctionOnSet(w, S \cup R) = SumFunctionOnSet(w, S) + SumFunctionOnSet(w, R)}
<1>0. SumFunctionOnSet(w, S) \in Nat
  BY SumTyped DEF Counted
<1>1. {} \in G
  <2>1. S \cup {} = S /\ SumFunctionOnSet(w, {}) = 0
    BY SumNone
  <2> QED
    BY <1>0, <2>1
<1>2. ASSUME NEW R \in SUBSET T, NEW x \in T \ R, R \in G PROVE R \cup {x} \in G
  <2>1. /\ IsFiniteSet(R) /\ IsFiniteSet(S \cup R) /\ (S \cup R) \cup {x} = S \cup (R \cup {x})
        /\ x \notin S \cup R /\ R \cup {x} \in SUBSET T
        /\ Counted(w, R \cup {x}) /\ Counted(w, (S \cup R) \cup {x}) /\ Counted(w, R) /\ w[x] \in Nat
    BY FS_Subset, FS_Union DEF Counted
  <2>2. SumFunctionOnSet(w, R) \in Nat
    BY <2>1, SumTyped
  <2>3. /\ SumFunctionOnSet(w, R \cup {x}) = SumFunctionOnSet(w, R) + w[x]
        /\ SumFunctionOnSet(w, (S \cup R) \cup {x}) = SumFunctionOnSet(w, S \cup R) + w[x]
    BY <2>1, SumAdd
  <2> DEFINE a == SumFunctionOnSet(w, S)
             b == SumFunctionOnSet(w, R)
             c == w[x]
  <2>4. a \in Nat /\ b \in Nat /\ c \in Nat
    BY <1>0, <2>1, <2>2
  <2>5. SumFunctionOnSet(w, S \cup R) = a + b
    BY <1>2
  <2>6. SumFunctionOnSet(w, S \cup (R \cup {x})) = (a + b) + c
    BY <2>1, <2>3, <2>5, Zenon
  <2>7. SumFunctionOnSet(w, R \cup {x}) = b + c
    BY <2>3
  <2> HIDE DEF a, b, c
  <2>8. (a + b) + c = a + (b + c)
    BY <2>4
  <2>9. SumFunctionOnSet(w, S \cup (R \cup {x})) = a + SumFunctionOnSet(w, R \cup {x})
    BY <2>6, <2>7, <2>8, Zenon
  <2> QED
    BY <2>1, <2>9 DEF a
<1>3. T \in G
  <2> HIDE DEF G
  <2> QED
    BY <1>1, <1>2, SetSet
<1> QED
  BY <1>3

\* Numbers in a row, and one more.
LEMMA SumRow ==
    ASSUME NEW a \in Int, NEW b \in Int, a <= b + 1, NEW w, Counted(w, a..(b + 1))
    PROVE  SumFunctionOnSet(w, a..(b + 1)) = SumFunctionOnSet(w, a..b) + w[b + 1]
<1>1. a..(b + 1) = (a..b) \cup {b + 1} /\ b + 1 \notin a..b
  OBVIOUS
<1>2. IsFiniteSet(a..b)
  BY FS_Interval
<1>3. \A S, x, T : IsFiniteSet(S) /\ x \notin S /\ T = S \cup {x} /\ Counted(w, T)
                     => SumFunctionOnSet(w, T) = SumFunctionOnSet(w, S) + w[x]
  BY SumNext
<1> QED
  BY <1>1, <1>2, <1>3, Zenon

\* Numbers in a row, counted from elsewhere.
LEMMA SumShift ==
    ASSUME NEW m \in Nat, NEW n \in Nat, NEW u, Counted(u, 1..n), NEW w,
           \A j \in 1..n : w[m + j] = u[j]
    PROVE  SumFunctionOnSet(w, (m + 1)..(m + n)) = SumFunctionOnSet(u, 1..n)
<1> DEFINE G == {k \in Nat : k <= n => SumFunctionOnSet(w, (m + 1)..(m + k)) = SumFunctionOnSet(u, 1..k)}
<1>1. 0 \in G
  <2>1. (m + 1)..(m + 0) = {} /\ 1..0 = {}
    OBVIOUS
  <2> QED
    BY <2>1, SumNone
<1>2. ASSUME NEW k \in Nat, k \in G PROVE k + 1 \in G
  <2> SUFFICES ASSUME k + 1 <= n
               PROVE  SumFunctionOnSet(w, (m + 1)..(m + (k + 1))) = SumFunctionOnSet(u, 1..(k + 1))
    OBVIOUS
  <2>1. k <= n /\ k + 1 \in 1..n /\ m + (k + 1) = (m + k) + 1
    OBVIOUS
  <2>2. Counted(u, 1..(k + 1))
    BY <2>1 DEF Counted
  <2>3. Counted(w, (m + 1)..((m + k) + 1))
    <3> SUFFICES ASSUME NEW j \in (m + 1)..((m + k) + 1) PROVE w[j] \in Nat
      BY DEF Counted
    <3>1. j - m \in 1..n /\ m + (j - m) = j
      BY <2>1
    <3>2. w[j] = u[j - m] /\ u[j - m] \in Nat
      BY <3>1 DEF Counted
    <3> QED
      BY <3>2
  <2>4. SumFunctionOnSet(u, 1..(k + 1)) = SumFunctionOnSet(u, 1..k) + u[k + 1]
    <3>1. 1 \in Int /\ k \in Int /\ 1 <= k + 1
      OBVIOUS
    <3> QED
      BY <2>2, <3>1, SumRow, Zenon
  <2>5. SumFunctionOnSet(w, (m + 1)..((m + k) + 1)) = SumFunctionOnSet(w, (m + 1)..(m + k)) + w[(m + k) + 1]
    <3>1. m + 1 \in Int /\ m + k \in Int /\ m + 1 <= (m + k) + 1
      OBVIOUS
    <3> QED
      BY <2>3, <3>1, SumRow, Zenon
  <2>6. SumFunctionOnSet(w, (m + 1)..(m + (k + 1))) = SumFunctionOnSet(w, (m + 1)..(m + k)) + w[m + (k + 1)]
    BY <2>1, <2>5, Zenon
  <2>7. w[m + (k + 1)] = u[k + 1] /\ SumFunctionOnSet(w, (m + 1)..(m + k)) = SumFunctionOnSet(u, 1..k)
    BY <1>2, <2>1
  <2> QED
    BY <2>4, <2>6, <2>7
<1> HIDE DEF G
<1>3. Nat \subseteq G
  BY <1>1, <1>2, NatSet
<1>4. n \in G /\ n <= n
  BY <1>3
<1> QED
  BY <1>4 DEF G

-----------------------------------------------------------------------------
(***************************************************************************)
(* Functions by recursion on a depth                                       *)
(***************************************************************************)
\* What holds of x if it holds of all that are less deep, holds of all.
LEMMA ByDepth ==
    ASSUME NEW D, NEW depth \in [D -> Nat], NEW G,
           \A x \in D : (\A y \in D : depth[y] < depth[x] => y \in G) => x \in G
    PROVE  D \subseteq G
<1> DEFINE H == {n \in Nat : \A x \in D : depth[x] < n => x \in G}
<1>1. 0 \in H
  OBVIOUS
<1>2. ASSUME NEW n \in Nat, n \in H PROVE n + 1 \in H
  <2>1. ASSUME NEW x \in D, depth[x] < n + 1 PROVE x \in G
    <3>1. \A y \in D : depth[y] < depth[x] => depth[y] < n
      BY <2>1
    <3> QED
      BY <1>2, <3>1
  <2> QED
    BY <2>1
<1>3. Nat \subseteq H
  BY <1>1, <1>2, NatSet
<1>4. ASSUME NEW x \in D PROVE x \in G
  <2>1. depth[x] + 1 \in H /\ depth[x] < depth[x] + 1
    BY <1>3
  <2> QED
    BY <2>1
<1> QED
  BY <1>4

\* A function on D that step, which looks only at what is less deep, makes of itself.
Agree(D, depth, x, f, g) == \A y \in D : depth[y] < depth[x] => f[y] = g[y]
Product(D, W) == {f \in [D -> UNION {W[x] : x \in D}] : \A x \in D : f[x] \in W[x]}
Local(D, W, depth, step) ==
    \A f, g \in Product(D, W) : \A x \in D : Agree(D, depth, x, f, g) => step[f][x] = step[g][x]
Upto(D, W, depth, step, f, n) == f \in Product(D, W) /\ \A x \in D : depth[x] < n => f[x] = step[f][x]

LEMMA UptoUnique ==
    ASSUME NEW D, NEW W, NEW depth \in [D -> Nat], NEW step, Local(D, W, depth, step),
           NEW f, NEW g, NEW n \in Nat, Upto(D, W, depth, step, f, n), Upto(D, W, depth, step, g, n),
           NEW x \in D, depth[x] < n
    PROVE  f[x] = g[x]
<1> DEFINE G == {y \in D : depth[y] < n => f[y] = g[y]}
<1>1. ASSUME NEW y \in D, \A z \in D : depth[z] < depth[y] => z \in G PROVE y \in G
  <2> SUFFICES ASSUME depth[y] < n PROVE f[y] = g[y]
    OBVIOUS
  <2>1. Agree(D, depth, y, f, g)
    BY <1>1 DEF Agree
  <2> QED
    BY <2>1 DEF Local, Upto
<1>2. D \subseteq G
  <2> HIDE DEF G
  <2> QED
    BY <1>1, ByDepth
<1> QED
  BY <1>2

LEMMA Recursion ==
    ASSUME NEW D, NEW W, NEW depth \in [D -> Nat], \A x \in D : W[x] # {},
           NEW step \in [Product(D, W) -> Product(D, W)], Local(D, W, depth, step)
    PROVE  \E F \in Product(D, W) : F = step[F]
<1> DEFINE U(f, n) == Upto(D, W, depth, step, f, n)
           G == {n \in Nat : \E f : U(f, n)}
<1>1. 0 \in G
  <2> DEFINE f == [x \in D |-> CHOOSE v \in W[x] : TRUE]
  <2>1. f \in Product(D, W)
    BY DEF Product
  <2> QED
    BY <2>1 DEF Upto
<1>2. ASSUME NEW n \in Nat, n \in G PROVE n + 1 \in G
  <2>1. PICK f : U(f, n)
    BY <1>2
  <2>2. f \in Product(D, W) /\ step[f] \in Product(D, W) /\ \A x \in D : depth[x] < n => step[f][x] = f[x]
    BY <2>1 DEF Upto
  <2>3. ASSUME NEW x \in D, depth[x] < n + 1 PROVE step[f][x] = step[step[f]][x]
    <3>1. Agree(D, depth, x, f, step[f])
      BY <2>2, <2>3 DEF Agree
    <3> QED
      BY <2>2, <3>1 DEF Local
  <2>4. U(step[f], n + 1)
    BY <2>2, <2>3 DEF Upto
  <2> QED
    BY <2>4
<1>3. Nat \subseteq G
  <2> HIDE DEF G
  <2> QED
    BY <1>1, <1>2, NatSet
<1> DEFINE h(n) == CHOOSE f : U(f, n)
           F == [x \in D |-> h(depth[x] + 1)[x]]
<1>4. ASSUME NEW n \in Nat PROVE U(h(n), n)
  BY <1>3
<1>5. ASSUME NEW x \in D PROVE U(h(depth[x] + 1), depth[x] + 1) /\ F[x] = h(depth[x] + 1)[x] /\ F[x] \in W[x]
  <2>1. depth[x] + 1 \in Nat
    OBVIOUS
  <2>2. U(h(depth[x] + 1), depth[x] + 1)
    BY <1>4, <2>1
  <2> HIDE DEF h
  <2> QED
    BY <2>2 DEF Upto, Product
<1>6. F \in Product(D, W)
  <2>1. DOMAIN F = D /\ F = [x \in D |-> F[x]]
    OBVIOUS
  <2> HIDE DEF F
  <2> QED
    BY <1>5, <2>1 DEF Product
<1>7. ASSUME NEW x \in D PROVE F[x] = step[F][x]
  <2> DEFINE k == h(depth[x] + 1)
  <2>1. U(k, depth[x] + 1) /\ F[x] = k[x]
    BY <1>5
  <2> HIDE DEF F
  <2>2. ASSUME NEW y \in D, depth[y] < depth[x] PROVE F[y] = k[y]
    <3> DEFINE l == h(depth[y] + 1)
    <3>1. U(l, depth[y] + 1) /\ F[y] = l[y]
      BY <1>5
    <3> HIDE DEF k, l, h
    <3>2. U(k, depth[y] + 1)
      BY <2>1, <2>2 DEF Upto
    <3>3. depth[y] + 1 \in Nat /\ depth[y] < depth[y] + 1
      OBVIOUS
    <3>4. k[y] = l[y]
      BY <3>1, <3>2, <3>3, UptoUnique
    <3> QED
      BY <3>1, <3>4
  <2>3. Agree(D, depth, x, F, k)
    BY <2>2 DEF Agree
  <2> HIDE DEF h, k
  <2>4. step[F][x] = step[k][x]
    BY <1>6, <2>1, <2>3 DEF Local, Upto
  <2> QED
    BY <2>1, <2>4 DEF Upto
<1>8. step[F] \in Product(D, W)
  BY <1>6
<1> HIDE DEF F
<1>9. F = step[F]
  <2>1. F = [x \in D |-> F[x]] /\ step[F] = [x \in D |-> step[F][x]]
    BY <1>6, <1>8 DEF Product
  <2> QED
    BY <1>7, <2>1
<1> QED
  BY <1>6, <1>9

\* A loop over 1..N, as a function of how far it is.
Turns(F, A, N, start, step) ==
    /\ F \in [0..N -> A]
    /\ F = [n \in 0..N |-> IF n = 0 THEN start ELSE step[<<F[n - 1], n>>]]

LEMMA Turning ==
    ASSUME NEW A, NEW N \in Nat, NEW start \in A, NEW step,
           \A a \in A, n \in 1..N : step[<<a, n>>] \in A
    PROVE  \E F : Turns(F, A, N, start, step)
<1> DEFINE D == 0..N
           W == [n \in D |-> A]
           depth == [n \in D |-> n]
           next == [f \in Product(D, W) |-> [n \in D |-> IF n = 0 THEN start ELSE step[<<f[n - 1], n>>]]]
<1>1. \A n \in D : W[n] # {}
  OBVIOUS
<1>2. depth \in [D -> Nat]
  OBVIOUS
<1>3. ASSUME NEW n \in D, n # 0 PROVE n \in 1..N /\ n - 1 \in D /\ depth[n - 1] < depth[n]
  BY <1>3
<1>4. next \in [Product(D, W) -> Product(D, W)]
  <2>1. ASSUME NEW f \in Product(D, W), NEW n \in D, n # 0 PROVE step[<<f[n - 1], n>>] \in A
    <3>1. n \in 1..N /\ n - 1 \in D
      BY <1>3, <2>1
    <3>2. f[n - 1] \in A
      BY <3>1 DEF Product
    <3> QED
      BY <3>1, <3>2
  <2> QED
    BY <2>1 DEF Product
<1>5. Local(D, W, depth, next)
  <2> SUFFICES ASSUME NEW f \in Product(D, W), NEW g \in Product(D, W), NEW n \in D, Agree(D, depth, n, f, g)
               PROVE  next[f][n] = next[g][n]
    BY DEF Local
  <2>1. n # 0 => f[n - 1] = g[n - 1]
    BY <1>3 DEF Agree
  <2> QED
    BY <2>1
<1>6. PICK F \in Product(D, W) : F = next[F]
  <2> HIDE DEF D, W, depth, next
  <2> QED
    BY <1>1, <1>2, <1>4, <1>5, Recursion
<1>7. F \in [0..N -> A]
  BY DEF Product
<1>8. next[F] = [n \in 0..N |-> IF n = 0 THEN start ELSE step[<<F[n - 1], n>>]]
  OBVIOUS
<1>9. F = [n \in 0..N |-> IF n = 0 THEN start ELSE step[<<F[n - 1], n>>]]
  <2> HIDE DEF next
  <2> QED
    BY <1>6, <1>8
<1>10. Turns(F, A, N, start, step)
  <2> HIDE DEF D, W, depth, next
  <2> QED
    BY <1>7, <1>9 DEF Turns
<1> QED
  BY <1>10
=============================================================================
