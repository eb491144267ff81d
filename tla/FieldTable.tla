------------------------------ MODULE FieldTable ------------------------------
(***************************************************************************)
(* Two tables indexed by field ids, which are 16-bit numbers:              *)
(* structDesc.fieldIdx, built by fromDefsFields and read by GetField       *)
(* (internal/reflect/desc.go), and the words of a bitset (bitset.go).      *)
(***************************************************************************)
EXTENDS Integers, FiniteSetsExt

CONSTANTS
    IdCount,    \* the number of uint16 values, 2^16
    WordSize,   \* the bits of a word, 64
    Ids         \* the ids in the tags of a struct's fields

ASSUME IdCountAssumption == IdCount \in Nat /\ IdCount > 1
ASSUME WordSizeAssumption == WordSize \in Nat \ {0}
ASSUME IdsAssumption == Ids \subseteq 0..(IdCount - 1) /\ IsFiniteSet(Ids)

Uint16 == 0..(IdCount - 1)
Word == 0..((IdCount - 1) \div WordSize)

VARIABLES
    pc,         \* "new", "built" or "panic"
    ids,        \* the ids of the struct's fields
    maxID, fieldIdx,
    fid, got,   \* the last GetField: its argument, and the index of the field or -1
    data,       \* the bits set in each word
    marked      \* the ids set and not unset since

vars == <<pc, ids, maxID, fieldIdx, fid, got, data, marked>>

Init ==
    /\ pc = "new"
    /\ ids = {}
    /\ maxID = 0
    /\ fieldIdx = <<>>
    /\ fid = -1
    /\ got = -1
    /\ data = [w \in Word |-> {}]
    /\ marked = {}
-----------------------------------------------------------------------------
\* Where a field comes among those of the struct, which are sorted by id.
Index(S, id) == Cardinality({j \in S : j < id})

\* maxFieldID+1, which is a uint16 too.
TableLen(max) == (max + 1) % IdCount

\* fromDefsFields: an index outside the table panics.
Build(S) ==
    LET max == IF S = {} THEN 0 ELSE Max(S)
        n == TableLen(max)
    IN  /\ pc = "new"
        /\ pc' = IF \A id \in S : id < n THEN "built" ELSE "panic"
        /\ ids' = S
        /\ maxID' = max
        /\ fieldIdx' = [x \in 0..(n - 1) |-> IF x \in S THEN Index(S, x) ELSE -1]
        /\ UNCHANGED <<fid, got, data, marked>>

\* Faulty variant: the bound is taken for the length of the table.
OutsideOrLast(x) == x >= maxID

\* fid > d.maxID.
Outside(x) == x > maxID

GetField(x) ==
    /\ pc = "built"
    /\ fid' = x
    /\ got' = IF Outside(x) THEN -1 ELSE fieldIdx[x]
    /\ UNCHANGED <<pc, ids, maxID, fieldIdx, data, marked>>

-----------------------------------------------------------------------------
\* Faulty variant: a word less is told apart.
BitOfShort(i) == i % (WordSize - 1)

\* bitset: i>>6 and i&63.
WordOf(i) == i \div WordSize
BitOf(i) == i % WordSize

Set(i) ==
    /\ data' = [data EXCEPT ![WordOf(i)] = @ \cup {BitOf(i)}]
    /\ marked' = marked \cup {i}
    /\ UNCHANGED <<pc, ids, maxID, fieldIdx, fid, got>>

Unset(i) ==
    /\ data' = [data EXCEPT ![WordOf(i)] = @ \ {BitOf(i)}]
    /\ marked' = marked \ {i}
    /\ UNCHANGED <<pc, ids, maxID, fieldIdx, fid, got>>

Test(i) == BitOf(i) \in data[WordOf(i)]

Next ==
    \/ \E S \in SUBSET Ids : Build(S)
    \/ \E x \in Uint16 : GetField(x)
    \/ \E i \in Ids : Set(i) \/ Unset(i)

Spec == Init /\ [][Next]_vars
-----------------------------------------------------------------------------
(***************************************************************************)
(* Properties                                                              *)
(***************************************************************************)
\* GetField finds the field that has the id, and none for every other id of a
\* message, small or large, whichever ids the struct leaves out (desc.go).
FoundById == got = IF fid \in ids THEN Index(ids, fid) ELSE -1

\* A bitset tells the ids that were set from all others: no two share a bit, and
\* every id has one (bitset.go).
BitsAreIds == \A i \in Uint16 : Test(i) <=> i \in marked

\* A descriptor can be built whatever ids the fields have: there is room for all
\* 65536 of them in a bitset, and in the table (bitset.go, desc.go).
EveryIdBuilds == pc # "panic"
=============================================================================
