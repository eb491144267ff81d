# A verification development for frugal

frugal encodes and decodes Go structs in the Thrift Binary Protocol by reflection,
without generated code. This directory holds TLA+ modules of its core
(`internal/reflect`, `internal/defs`), TLC configurations that check them on small instances, and
proofs checked by TLAPS.

    tlc -workers 2 -config MCSpan.cfg MCSpan.tla        # one run
    tlapm SpanProofs.tla                                # one module of proofs

## 1. The system

A call of `EncodedSize`, `EncodeObject` or `DecodeObject` (`frugal.go`) looks up the
descriptor of the value's struct type, creating it at the first use, and then walks
value or message along the descriptor. Calls run in any number of goroutines of the
user; frugal starts none of its own.

| component | source | state it keeps | operations |
|---|---|---|---|
| descriptor registry | `desc.go`, `descmap.go`, `ttype.go` | published table `sds` (slots of copied slices), mutex `sdsmu`, `prefetchStructDescCache`, the `Sd` field of each `tType` | lookup, create under the mutex (prefetch of all that is referred to), publish |
| decoder memory | `span.go`, `decoder.go:33-64`, `reflect.go:103-105` | `decoderPool`, one block per decoder | get and put a decoder, `Malloc` |
| decoder | `decoder.go`, `bitset.go`, `unknownfields.go`, `utils.go` | pools of bitsets, of unknown-field indexes, of temporary map keys and values | `Decode`, `decodeType` |
| encoder | `append*.go`, `frugal.go` | tables of append functions, filled at start | `Append`, `EncodeObject` |
| size measurement | `ttype.go:235-372`, `desc.go:262-273` | fixed sizes computed with the descriptor | `EncodedSize` |
| field tables | `desc.go:188-230`, `bitset.go` | `fieldIdx`, `maxID`; the words of a bitset | `fromDefsFields`, `GetField`, `set`, `unset`, `test` |
| copies of struct values | `reflect.go:39-45` | `rvPool` of each descriptor | get, set, put |
| resolver and type parser | `internal/defs/resolver.go`, `types.go` | none that is used | `DoResolveFields`, `ParseType`; calls the user's `InitDefault` |
| type cache | `ttype.go:150-220` | `ttypes` | `newTType` |
| runtime internals | `hack.go` | - | map iteration, `mallocgc`, type pointers |
| options, debug, iov | `options.go`, `internal/opts`, `debug`, `iov` | - | kept for former users, without effect |

How they interact: encoder and decoder read descriptors, without a lock, that the
registry may be linking with others at the same time. A decoder belongs to one call;
what it hands out outlives it and lies next to what the next call gets. Bitsets,
indexes and temporary variables are shared by all messages, all structs and all
goroutines, and hardly cleared. `EncodedSize` and `EncodeObject` read the object at
two different times. The resolver calls user code (`InitDefault`) with `sdsmu` held.

What is hard, and the property a component needs (the list with lines is `hazards` in
`PROJECT.json`):

* registry: races to create a descriptor, cycles of structs, publication before
  everything is linked, errors and panics half way. *A published descriptor is complete,
  unique, never replaced, and an answer depends on the type alone.*
* decoder memory: reuse of partly cut blocks, alignment, block ends, decoders lost by
  panics. *Objects never overlap and lie inside a block.*
* decoder: stale contents of pooled objects, nesting, errors and panics anywhere in a
  message, wrong lengths, depth. *The answer is the meaning of the message.*
* encoder: two passes that must agree, seventy-odd specialised functions that must agree
  with the decoder, an object that changes meanwhile. *The measured bytes are written,
  they are read back as what was encoded, and no half struct passes for a whole one.*
* field tables: ids at the ends of 16 bits. *The table and the bits tell ids apart.*
* resolver and type cache: two notations of a type (tag and Go type) that must agree, types that look
  alike in Go, entries that structs share and that a panic leaves half made. *A descriptor has the fields
  as declared, each with its own type, which reads memory as Go has laid it out.*
* user code under the mutex: `InitDefault` may use frugal while its own goroutine prefetches.
  *It meets nothing unfinished, and a type that was used before is safe for it to use, with one exception.*
* copies of struct values: an object of a pool that is shared by nested and concurrent calls.
  *A copy is not changed while it is encoded.*

## 2. Modules

| module | what it is |
|---|---|
| `DescRegistry` | the registry, one action per step between two accesses to shared state |
| `DescTable` | what the registry promises: a write-once table and answers from it |
| `InitDefault` | `DescRegistry` together with the user's `InitDefault`, which runs under the mutex and may call frugal |
| `DescRegistryProofs` | theorems about `DescRegistry`, the refinement of `DescTable` among them |
| `InitDefaultProofs` | theorems about `InitDefault`: where it hangs, and that it meets no nil descriptor |
| `Span` | decoders, their pool, `tDecoder.Malloc`, `span.Malloc`, `mallocgc` |
| `Allocator` | what `Span` promises: fresh, aligned, disjoint memory |
| `SpanProofs` | theorems about `Span`, the refinement of `Allocator` among them |
| `Wire` | types, Go values and wire tokens, shared by encoder and decoder |
| `Decoder` | `Decode` and `decodeType` as a machine with a stack of frames, and the pools |
| `DecoderProofs` | theorems about `Decoder` |
| `Meaning` | reference: what a message means, as a recursive function of the message alone |
| `DecodeReference` | `Decoder` against `Meaning` |
| `Encoder` | `EncodeObject` as a machine, a goroutine that changes the object, and the pool of copies with another user |
| `WireGrammar` | reference: the Thrift binary encoding as a grammar, closed families of languages instead of recursion |
| `EncoderProofs` | theorems about `Encoder`: its types, the copies, and that what it writes is derived by `WireGrammar` |
| `EncodedSize` | `EncodedSize`, as a recursive function on the values objects are made of (`Value`), and what it relies on |
| `MeasureProofs` | theorem about `Encoder` and `EncodedSize`: as many bytes are written as were measured |
| `EncodeReference` | what `Encoder` writes against `Meaning` |
| `FieldTable` | field tables and bitset words |
| `TypeParser` | `ParseType`: a tag, as a sequence of tokens, and a Go type to a `defs.Type` |
| `TypeGrammar` | the types that a Go type can stand for, and reference: which texts say them, as sets |
| `Resolver` | `DoResolveFields`: declarations to fields; what is promised of it, by `TypeGrammar` |
| `Descriptor` | resolver, type cache and tables composed: structs described one after the other |
| `DescriptorProofs` | theorems about `Descriptor`, its parser and resolver, its cache and its tables |
| `CommonLemmas` | what pushing, popping and changing the top of a stack do to it; sums over finite sets; functions by recursion on a depth, and loops |
| `MC*` | instances for TLC; `MCEncoderBase` collects the values that the objects of an instance are made of |

`map` in `PROJECT.json` gives the source lines of every definition. Definitions under a
comment "Faulty variant" are plausible bugs; they stand before the definition they are a
variant of and are not used by the specifications. Each property was seen to fail with
one of them in its place.

### DescRegistry

`slots` is `sds.slots`; `Get` reads it as `mapStructDesc.Get` does, in one step, since
the code loads one pointer. `sdsmu` holds its owner. `cache` is
`prefetchStructDescCache`; `Sd[t]` stands for the `Sd` field of the `tType`s that refer
to `t`: `newTType` keeps one per type. The recursion of `newStructDescAndPrefetch` is
`stack[g]`. A descriptor is its type and the number of the attempt, so that what a failed
attempt left behind is not mistaken for what a later one makes. `Outcome[s]` says what
`newStructDesc` does with struct `s`: succeed, return an error, or panic. After its
lookup a call `Follow`s links from descriptor to descriptor, in any direction and as long
as it likes, which is what values and messages can make encoder and decoder do; `fault`
is the nil `Sd` they would meet.

Actions follow the code in order: `LookupHit`/`LookupMiss` (`desc.go:33`), `Lock`,
`RecheckHit`/`RecheckMiss`, `EnterCached`/`EnterNew`/`EnterError`/`EnterPanic`
(`newStructDescAndPrefetch`), `FieldLinked`/`FieldDescend`/`Link`/`FieldsDone`
(`fetchStructDesc`), `Fail`/`RootFail` (unwinding), `SetCopy`/`SetStore`
(`mapStructDesc.Set`, once or twice), `Unlock`.

`Set`'s early return for a key already bound (`descmap.go:58`) has no action: its
only caller found the struct unbound under the mutex, and a pointer type is bound
only after its struct. A call that came to it would be stuck in the model, and
`CallEnds` would report it.

`InitDefault` puts the user's code where `DoResolveFields` calls it: before `newStructDesc` ends
(`Initialises`), with `sdsmu` held. `init`, `want` and `in` are the call it makes: a lock-free lookup, then a walk
(`InitFollow`) as any caller's, or, if the type is not published, `Lock` of a mutex its own goroutine
holds. `Goes` lets the registry go on when `InitDefault` is back. `InitCalls[s]` is what `InitDefault` of `s` may ask
for. The steps of user code leave the registry's variables alone, so that what holds of `DescRegistry!Spec` holds of `SpecI`.
`answered` is a history variable: the types with which calls have been given a descriptor. No action reads it.

A call with a struct value binds only the struct's key, and `RecheckHit` never binds the pointer's. So if the first call for
a struct was by value, all later ones by pointer are answered, but from under the mutex, and an `InitDefault` that makes such a
call hangs although the struct is in use already. `NoHangOnceUsed` says that this is the only way in which a type that was used before
makes `InitDefault` hang, and the instance of `registry` reaches it. Nothing in the repository says what `InitDefault` may use, so it is no finding.

### Span

Addresses are numbers, `brk` bounds what the runtime has handed out, `heap` is the list of
regions, `given` what `Malloc` returned. `Get`/`GetNew`/`Put` are `decoderPool`'s; `Panic` is a call that
panics between the two, which loses the decoder (`Put` is not deferred, `reflect.go:105`);
`Collect` is the garbage collector emptying the pool. `Malloc` is a request; `Direct`,
`Refill`, `Fits` and `Take` are the branches of `tDecoder.Malloc` and `span.Malloc`.

### Decoder

A message is a sequence of tokens, one for what one read handles: field header, stop,
number, string with its length, map and list header. `Width` gives bytes, so that the
length checks (`minWireSize`, `remain`) are done in bytes as in the code. A frame holds
what a recursion of `Decode` or `decodeType` has on the Go stack: the value so far, the
bitset, the index of unknown fields, elements to go. `job` is the argument of the next
recursion, `ret` what the last one returned, or left behind when it was given up.
`Enter` borrows and clears; `Return` stores a value where it belongs and marks the field;
`Fail` unwinds one frame for an error and `Panic` for an index out of range, with the
deferred and undeferred `Put`s each of them runs. `Collect` empties pools.
An object is written field by field: what an error or a panic leaves in it is composed on the way up (`GiveRemains`), a
list in its place before its elements are there, a pointer before its value, a map only when whole. A number behind a
new pointer that was never written is one of `Dirty`, since memory without pointers is not cleared.
A goroutine may decode into a new object or into the one of its last call, finished or left behind.
Pool objects of all map types are in one set `Tmp`, and a new one takes the type of its first user.

`Meaning` reads a message in the order of its tokens without pools, frames or buffers; it is
checked, not proved.

### Encoder

`Measure` is the whole of `EncodedSize` in one step. Then `EncodeObject` goes from field to
field (`NextField`), element to element and entry to entry; `Current` says which value is
next and by which function it is written: the lookup of `updateListAppendFunc` and
`updateMapAppendFunc` (`ListAppendFunc`, `MapAppendFunc`), or the inlined code of
`appendStruct`. Map iteration follows Go: an order nobody knows, no entry twice, an entry
that is there all the time is visited, one added meanwhile may be. `Change` is another
goroutine that replaces scalars and pointers and adds and removes entries of the maps of the object
at any time. An object passed by value is copied into one of `RvObject` (`TakeRv`), the `rvPool` of its descriptor, which
`OtherTakes` and `OtherPuts` use at the same time for another value of the type; it is
put back after `appendStruct` (`reflect.go:76`). `Return` gives `EncodeObject`'s answer, `len(ret) > len(buf)` first.

A struct's frame has the ids still to come; `NextId` is the least of them, as `sd.fields` are sorted. `Value[type]` are the
values of a Go type that objects are made of, in `EncodedSize` as well. `TypeAssumption` and `ValueAssumption` say what Go's type system does: a value is made of
values of the types its type is made of, only pointers, slices, maps and strings may be nil (`None`), and structs and maps are finite.
`ChangesAssumption`
says that changes give other values of the same types, and that a map being ranged over is changed in place: it is not set to nil.
TLC evaluates all of them on the instances, whose `Value` is what their objects are made of (`ByType`).

`ValueSize[type][v]` is the size of a value of a field, element, key or value of that type: `SizeBy` is `EncodedSizeFunc` with its
cases, and takes the sizes of the parts from `ValueSize`, as the code's recursion does. `Wild` is what is measured when the first word of
a struct held by value is followed (finding 4).

### FieldTable

The arithmetic the other modules leave out: `maxID + 1` in 16 bits, table lookup, word and
bit of an id. `IdCount` is 2^16 and `WordSize` 64 in the code.

### Resolver, TypeParser, Descriptor

A declaration (`Decl`) is a field's name, its `frugal` tag as the parser's tokens, and its Go type. `TypeParser` follows
`doParseType` branch by branch: pointers, slices, maps, the tag's words and brackets, names of structs and enums, and what a
field without a type in its tag is taken for. `Resolver` does what `DoResolveFields` does with each field - id, requiredness,
type, options, which pointers are allowed, duplicates, order - and stops at the first error. A step `Describe` of `Descriptor`
is `newStructDesc` under the mutex: it resolves, enters every type into `ttypes` (`newTType`, an entry before its parts, and left there by
a panic) and fills the descriptor (`fromDefsFields`); it may go on into the tables of `FieldTable` (`BuildTables`).
A step of `Descriptor` is a step of `FieldTable` or leaves its variables alone.

What recurses in the code - the parser, `String`, `newTType` - is a recursive function here, on the Go types of a program (`GoType`) or on
the types they can stand for (`Type`). `Depth` is how deep a Go type nests: a struct is not looked into, so that
all others end (`GoTypeAssumption`). The tokens of tags that are no punctuation (`Identifiers`), what `strconv.ParseUint` makes of texts
(`Numeral`), the declarations and the structs made of them are constants too. `ttypes` is a function on the keys that types can
have, with `Nil` for those that are not in the map.

`TypeGrammar` and `Promised` say the same as a grammar: `Readings` is the set of types a Go type may stand for, `Texts` are the texts that
say one of them. They know no cursor, no lookahead and no order of tests.

## 3. Runs

| run | question | instance | states |
|---|---|---|---|
| `registry` | two goroutines race over structs in a cycle, over invalid ones, one that panics, and one whose `InitDefault` uses frugal | 5 structs, 7 of their types asked for, 2 slots, 2 calls each | 206 k |
| `registry_cyclic_error` | *violation*: invalid struct on a cycle | 3 structs, 1 goroutine | |
| `registry_panic` | *violation*: panic under an outer struct | 3 structs, 1 goroutine | |
| `span` | two goroutines, two decoders | blocks of 8, 4 kinds of request, 3 requests | 978 k |
| `decoder_pools` | two goroutines, nested structs with shared pools | 3 bitsets, 3 indexes, 2 temporaries, 1 call each | 72 k |
| `decoder_history` | message after message, cut short, wrong, deep, over new, decoded and half decoded objects | 1 goroutine, 2 calls, depth 4 | 293 k |
| `decoder_by_value` | *violation*: map of structs held by value | 1 goroutine, 2 calls | |
| `encoder` | all pairs of map types, all ways to leave out a field, a changing object, structs by value | 2 changes, 2 objects in `rvPool` | 84 k |
| `encoder_by_value` | *violation*: list of structs held by value | 2 objects | |
| `descriptor` | every form of type and tag, alone, in pairs and in structs one after the other, and their tables | ids of 0..11, words of 4 bits | 62 k |
| `descriptor_pointer` | *violation*: an optional pointer to a slice | 1 struct | |
| `field_table_last` | *violation*: the largest id | the same with id 11 | |

Why the bounds are enough. *Registry*: two goroutines are enough for each race, since the
mutex admits one at a time and only one more can be looking; two calls make one that comes
after a failure. `Good` and `Plain` are a cycle, by pointer and by value; `Outer` fails after it has linked both, which are
used on their own, so what it leaves in the cache is met by later calls; all types but one share a slot. *Span*: three requests are a cut, another one from the same block, and one that needs a
refill, and gaps of odd size make every alignment matter. *Decoder*: the depth limit is 4
where it is in question (1023 in the code), reached through pointer, list and map; every
message of `decoder_history` follows every other, over a new object, the one decoded, and the one left behind, and the first one
is cut after every token; errors come in the first and in later elements, behind pointers, in structs by value and by pointer. With two
goroutines, pools of three are enough for the deepest nesting of one beside the other; a
goroutine waits when a pool is empty (the code would make a new object), and no property
depends on it. Integers wrap at `Half32 = 8` instead of 2^31. *Encoder*: each pair of key and value
type has its own struct; two changes are enough to lose an entry and to gain one; two copies in `rvPool` let the other user have one beside ours, or
the one ours was. *Descriptor*: 37 declarations that are accepted, four pointers that panic or are not read as laid out, and others for
every branch of the parser, most of them in error; the first two kinds alone and every two accepted ones in one struct, with either id first; the others
beside a field with another id, which must not hide the error; (`MaxDecls`) up to two
declarations in the structs described after the first, since an entry of the cache is met by the next struct or never; ids of 12
with words of 4 put ids at both sides of a word's border and at the end of the table. No name in a tag of the instance is part of
a keyword (see 6).
`MaxCalls`, `MaxMallocs` and `MaxChanges` bound only how long a behaviour is. Deadlock is not
checked: the bounded system stops when calls, requests or changes are used up.

What the properties say:

* `PublishedComplete`, `NoFault`, `NoLinkRace`: from a published descriptor every path is
  linked, no call meets nil, no link is written that an unlocked reader may be reading.
* `OneDescriptor`, `BindOnce`, `ImplementsTable`: one descriptor per struct, for good; the
  registry is the write-once table `DescTable`.
* `AnswerByType`: whether a call is refused depends on the type, not on earlier calls.
* `CallEndsUnlessStuck`: every registry call ends, unless an `InitDefault` is stuck, and then only those that need the mutex wait.
* `NoHangOnceUsed`: an `InitDefault` that uses a type with which any call was given a descriptor is not stuck, but for a pointer type
  that came second to its struct.
* `InitNoFault`: it never meets an unlinked descriptor, though its goroutine is linking some.
* `CallEnds`: every message is read to an end.
* `Exclusive`, `Disjoint`, `InBlock`, `ImplementsAllocator`: see `Span`.
* `OneUser`: a pooled object is in its pool or in one frame, on all paths of errors and panics.
* `BitsTell`: the bits of required fields say what this struct had, whatever the bitset held before.
* `DepthBounded`: the stack of frames is bounded by the depth that is left.
* `AnswerIsMeaning`: the answer is `Meaning` of message and object.
* `ErrorSparesTheRest`: after an error or a panic, however deep, the fields before the one it happened in are as in the message,
  that one alone may be half decoded, and all else is what it was.
* `WholeOrError`: an answer without error is one whole struct, whatever changed.
* `MeasuredIsWritten`, `RoundTrip`: an object left alone fills the measured bytes exactly and is
  read back, nil and empty, defaults and left-out fields taken into account.
* `CopyIsKept`: the copy an object passed by value is encoded from is this object's until its last byte, whoever else uses the pool.
* `FieldsAsDeclared`: a struct is accepted exactly when the grammar says so, and has the declared fields in order of ids.
* `FieldFound`: `GetField` answers with the field of the descriptor that has the id, however the fields were declared, and with none for all other ids.
* `CacheKeepsTypesApart`: a type from the cache, with all its elements, is the field's own, whatever was cached before.
* `HalfMadeIsPointerToMap`: of what panics leave half made in the cache, later structs meet pointers to maps only, as types of fields.
* `ReadAsLaidOut`: what encoder and decoder take a field for lies in memory so (optional pointers to containers excepted, finding 6).
* `CountedUnseenIsWritten`: a field whose size `EncodedSize` adds without looking at it is one that is always written.
* `FoundById`, `BitsAreIds`, `EveryIdBuilds`: tables and bits tell all ids apart, and any struct has one.

### Fairness

`InitDefault!FairSpecI`: weak fairness of each goroutine's steps inside a call, which is Go's scheduler;
strong fairness of `Lock`, because `sync.Mutex` hands the lock to a waiter after 1 ms (starvation
mode); weak fairness of `Return`, because values and messages are finite;
weak fairness of `InitDefault`'s steps and of its return, because it is taken to end unless it hangs in frugal. `Decoder!FairSpec`: weak fairness of
each goroutine's steps. There is no fairness of calls, of the collector, or of changes to
an object. Safety runs have none.

## 4. Where the code falls short

Six runs show what the code does against what it says of itself (`findings`):

1. **`desc.go:87`** A failed prefetch deletes the cache entries of the structs it unwinds, but does not undo the links
   made on the way (`desc.go:124`). `Peer -> Node`, `Node -> Peer`, `Node -> Bad`, all by pointer, two calls for `Peer`: in the first
   one, the `Peer` below `Node` links `*Node` to the descriptor of `Node` that is in progress; then `Bad` fails, `Node` and `Peer` leave the cache,
   and the call is refused. The second builds a new `Peer`, passes over `*Node` since it is linked (`desc.go:117`), and publishes `Peer`:
   from it the given-up `Node` is reached, whose `*Bad` is nil. After a refused call for `Node` instead, `*Node` is not linked,
   and a call for `Peer` is refused as it should be.
2. **`internal/defs/types.go:299`** A multilevel pointer is to be an error but panics (`ret.V` is nil), and `desc.go:85` has cached
   the outer structs by then. A caller who recovers gets an incomplete descriptor the next time.
3. **`decoder.go:337`** A map value that is a struct held by value is decoded into a temporary that still
   holds the last entry's fields, or another message's.
4. **`ttype.go:240`** `EncodedSize` follows the first word of a struct held by value.
5. **`desc.go:207`** A field with id 65535 makes a table of length 0 and a panic.
6. **`ttype.go:166`** An optional pointer to a slice is accepted, but its type has the slice where the element is meant:
   memory is read one address short. A pointer to `[]byte` is read as a string; one to a map panics in `newTType`, which leaves
   a half made type in the cache.

The passing runs do without these inputs: invalid structs off cycles, panics at the entry point, maps and lists
of structs by pointer, ids below the last, and `ReadAsLaidOut` without optional pointers to containers and to `[]byte`. The decoder's and encoder's passing runs have a struct held
by value where it is handled right (a field, when decoding).

## 5. Proofs

All theorems are about the specifications as TLC runs them, for all values of the constants that meet the
named assumptions (`GoroutineAssumption`, `RefsAssumption`, `RequestAssumption`, ...): any number of
goroutines, structs, calls, any graph of references, any hash, any sizes and alignments, any width of an id.

**`DescRegistryProofs`** `TypeCorrect`, `SharedDescriptor`, `WriteOnce`. The inductive invariant `Inv` adds to
`TypeOK`: who is in the critical section holds `sdsmu` (`Mutex`); the frames of a prefetch form a path, each waiting for
the next (`StackOK`); the local variables are what the code has read (`LocalsOK`), notably that the copy
of a slot being extended by `Set` is still the slot; and that a pointer type is bound only with its
struct (`Paired`). There is a lemma for each action; `OneMoves` carries the goroutines that do not move.
`BindOnce` follows since only `SetStore` changes a slot, and it changes one key (`StoreBinds`).

In the same module: `CompleteWhenTame`, `FaultFree`, `RaceFree`, for every *tame* program (`Tame`): there may be
invalid structs, but none on a cycle of references, and no field mentions a struct on which `newStructDesc` panics. Without the
first part completeness and what is said of answers are false (the instance of `registry_cyclic_error`), without the second too (that of
`registry_panic`); `MCRegistry` has TLC evaluate that
the instance of `registry`, with its two kinds of bad structs, is tame. The invariant `CInv` has a *settled* set of types:
cached and valid, closed under references, all of it linked, no reference of it waiting to be linked, and holding all that is
published and all that walks have reached. While a prefetch runs the set is the old one; when the outermost frame
is done, nothing waits, every cached type is linked (`CacheOK`), and the set of all cached types
becomes the settled one just before it is published. For errors `CInv` adds that every frame is reached from those below it
(`Chain`): an invalid struct makes every frame on the stack invalid (`RefusalSteps`), what `EnterCached` finds still at work is on a
cycle and so valid, only valid structs are linked, and so the structs that `Fail` takes out of the cache are linked and walked by
nobody (`FailSettled`).

`AnswersByType`, `IsTable`, under the same hypothesis (the second also that `NoOne` is no type):
`AnswerByType` and the refinement `ImplementsTable`. `LookupHit` and `Unlock` with a descriptor are the table's `Answer`, `Unlock`
without one its `Refuse`, `SetStore` its `Bind`, `Call` and `Return` its `Ask` and `Finish`; all else is `Unseen`.

**`InitDefaultProofs`** `HangsOnlyForUnused`, `FaultFreeInside`. Each step with user code is a step of
`DescRegistry` (`Goes`) or leaves its variables alone, so that the theorems above can be used of `SpecI` (the lemma `KeepsRegistry`).
`HInv` says that a goroutine inside `InitDefault` is at `newStructDesc`, so it holds the mutex, and nothing
is published or linked meanwhile (`Frozen`): a type it waits for stays unpublished. For `HangsOnlyForUnused`, `AInv` adds that a type that was
answered has a published struct, and is published itself unless calls with its struct were answered as well. That is not inductive:
between the store of the struct's key and the next, a pointer type has a published struct and neither of the two. The invariant therefore says
of every type with a published struct that it is known in one of these ways, or that the goroutine behind the mutex is about to make it so
(`Binding`); since there is one such goroutine only (`OneBinds`), a call that ends behind the mutex knows which. For `FaultFreeInside`, which needs
`Tame`, `NInv` adds that a walk in `InitDefault` is where every closed set with the published descriptors is (`Walkable`);
`PublishedComplete` gives one in which no link is nil.

**`SpanProofs`** `TypeCorrect`, `OneUser`, `NoOverlap`, `InBounds`, `Implements`. `IInv` says that blocks of
different decoders are apart, that what was handed out is apart from what is still to be cut of every block
(`Behind`), and that after the test of `span.Malloc` there is room for size and alignment (`Room`). `Rounding` is the arithmetic.
`Implements` is a refinement: `Direct` and `Take` answer the request, all else stutters.

**`DecoderProofs`** `TypeCorrect`, `PooledOnce`, `BitsTrusted`, `DepthLimited`, for any structs, types, messages (sequences, with
field ids that are numbers), pools, goroutines and limit of the depth; of `Skip` it is assumed that it reads no more than there is.
`Inv` says what a frame is (`FrameOK`), that a stack and the depth its top has left stay within the limit (`StackOK`,
`LocalOK`), that pools and frames share out all pooled objects (`Apart`), and that a bitset tells what its frame has got (`Tell`).
`BitsTell` is not inductive without `Apart`: that a bit is set for this struct only holds as no other frame has the bitset. Three lemmas say what a frame more, a frame
less and a changed top frame do to the shares (`PushShares`, `PopShares`, `TopShares`), for whatever reason; then there is a lemma
for each action, errors and panics included.

**`EncoderProofs`** `CopyKept`, `TypeCorrect`, `OutputIsWhole`, `WholeWritten`, `CountsAreBacked`.

* `CopyKept`: an object of `rvPool` is free, this call's, or another call's; and only an object passed by
  pointer changes, of which there is no copy.
* `TypeCorrect`: the invariant `Typed` adds to `TypeOK` that every frame is at a place of a value of its type: the field, element, key or
  value that is next (`Current`) has the type the function it is given to was made for. Changes keep it, as they keep types
  and change maps in place.
* `OutputIsWhole`: what is answered without error is a struct of `WireGrammar`, each header counting what follows it, whatever is
  changed meanwhile, entries added to and removed from maps included: it is `CheckMapN` (`checkMapN`) that makes it so. `WireGrammar`
  has no recursion: a token sequence is whole if it is in every family of languages that is closed under the rules (`Grammar`). For one such family,
  the invariant `Whole` cuts the output where the frames begin (`Split`): what a frame has written is part of what it is to
  be (`IsPart`), and that of a frame below the top lacks just one value of a wire type that the frame above it is to be (`Awaits`, `Yields`).
  The lemmas `CutMore`, `CutPush`, `CutPop` and `CutSame` say what writing, a frame more and a frame less do to the cut; then there is
  one for each action. The hypothesis `UnknownFieldsWhole`: the unknown fields a struct keeps, which are copied to the output as
  they are, are fields. The decoder puts them there as it has skipped over them; a caller could put in anything.
* `WholeWritten` is `WholeOrError` as the run `encoder` checks it, with `thrift.Binary.Skip` as reader. The hypothesis `SkipTakesStructs` says that `Skip` takes
  the whole of every struct of the grammar. The library's `Skip` refuses what is nested too deep, so it meets the
  hypothesis for structs up to that depth only; that is why `OutputIsWhole` is stated without it.
* `CountsAreBacked`: what is answered without error ends in `Stop`, and each header in it, at whatever depth, has as many tokens behind it as
  it calls for, one for each element and two for each entry (`Backed`). The languages of such token sequences are closed under the rules (`Counting`),
  so that `OutputIsWhole` gives it for the output. Unlike `WholeWritten` it needs no hypothesis on `Skip`.

**`MeasureProofs`** `MeasuredWritten`: `MeasuredIsWritten`, for all structs, objects and orders of map iteration. The invariant `Exact` says
that while the object is left alone the bytes written and those the frames on the stack still owe (`Owe`) are together the size measured, the header
of the field that is being written aside: a struct owes its fields still to come, unknown fields and `Stop`, a list its elements to come, a map
the entries not seen, and the key or value it is at. That a map's count comes out needs that the count and the entries still to visit agree (`Steady`). The property
itself is not inductive: it speaks of the end only. What `Measure` adds up by fields of fixed and of variable length and the encoder goes through
in order of ids are sums over the same finite set (`SumFunctionOnSet`; `SumRemove`, `SumUnion` and others in `CommonLemmas`). Three hypotheses,
in `EncodedSize`, which TLC evaluates on the objects of the run `encoder` (an `ASSUME` of `MCEncoder`):

* `SizesDefined`: values are well-founded, so that the recursion `ValueSize` ends and yields a number for each. Go values with
  cycles make `EncodedSize` recurse for ever. That a recursive function exists is not provable here;
* `PointersAsResolved`: structs are behind pointers, without which the property is false (finding 4, the run
  `encoder_by_value`); pointers to scalars and strings are in optional fields only, as the resolver has it (`resolver.go:233`,
  `types.go:480`);
* `UnknownFieldsMeasured`: the unknown fields a struct keeps are a sequence of tokens of known width.

**`DescriptorProofs`**, for any declarations, Go types, structs one after the other, and any width of an id and of a word.

* `CacheStaysGood`: the inductive invariant `DInv`. Each cached type has the entry that its own declaration makes (`Describing`), and comes
  with the types it refers to (`Closed`), after a panic in the middle of them too; the descriptor is the one `fromDefsFields` makes of the fields
  resolved, which are sorted, have types their Go types can stand for, and are all cached (`Described`). None of the properties is
  inductive: what a descriptor says of a field rests on the entries that earlier structs have put into the cache.
  `Describing` needs that two types with the same text and the same Go type are one (`KeyDistinct`): the texts are taken apart
  from the left, the Go types being the same tell a pointer, list and map apart, and no text of a type is the beginning of
  another's of that Go type (`StringDistinct`). `newTType` is followed call by call (`NewKeeps`): it keeps all entries, whatever types are
  half made around it, and panics for a pointer to a map only.
* `KeepsTypesApart`: hence a type from the cache unfolds to the field's own (`UnfoldedIs`).
* `CountsWhatIsWritten`: a field with a size is not optional and no pointer, and only optional fields are left out.
* `ReadsAsLaidOut`: by what a type is, its memory is read as its Go type lays it out if that of its parts is (`ValueAsLaidOut`). An element
  that is a pointer points to a struct (`PartPointsToStruct`), as the parser has it: for these the appenders follow the address.
* `FindsById`, `TellsIds`: the table has an entry for each id up to `maxID` if it was built at all; two ids with the same word and bit are
  equal. `FindsField` puts them on the descriptor: a field is where its id comes among those of all fields (`IndexIs`), as these are sorted.
* `ResolvesAsDeclared`: `FieldsAsDeclared`, the parser and the resolver against the grammar, for any declarations and texts of tags.
  `Right` says of a parser that from every position it returns a type and where its text ends exactly when the grammar has that type with
  that text there. It is shown of each form of type if it holds of the parsers of key and element (`PointerRight`, `WordRight`,
  `SliceRight`, `MapRight`), so of `doParseType` (`doParseTypeRight`). The grammar concatenates texts and the parser has a cursor:
  `SaidList` and `SaidMap` say where a text that is a concatenation divides. A parser returns one result, so that a tag denotes one
  type at most (`DenotedOne`), which nothing in the grammar says by itself. The turns of the resolver's loop take the fields of the
  declarations so far, or one of these is none or has the id of another (`TakesAll`); to have as many ids as fields is to have no two the same
  (`PromisedIs`).

What the prover has no induction for is had from the recursion itself: `ByDepth` is induction on a depth, by sets of numbers;
`Recursion` says that a step which looks only at what is less deep has a function that it makes of itself, and `Turning` that a loop has its
turns. For each recursive function there is a lemma that it is what its definition says (`ParseUnfold`, `StringUnfold`,
`NewUnfold`, `LayoutUnfold`, `ValueUnfold`, `TextsUnfold`, `NeedsUnfold`).

Only model-checked:

* liveness (`CallEnds`, `CallEndsUnlessStuck`), which needs fairness and `ENABLED`;
* what compares with the recursive operators of `Meaning`: `AnswerIsMeaning`, `ErrorSparesTheRest` and `RoundTrip`;
* `HalfMadeIsPointerToMap`, of which there is no proof yet.

## 6. What is left out

* Bytes inside numbers and strings, text of errors, and wrong lengths that make the reader take the inside of one value for
  another: lengths are right, too large or negative.
* Memory in `Decoder` (it is `Span`'s subject).
* Text inside tags is tokens. Not modelled: that the parser finds keywords inside longer names (`types.go:367`), so that a type
  named `list_item` in a tag may be misread, and that `_unknownFields` is looked up by name and its offset taken from an embedded struct
  (`desc.go:176`), as offsets are not modelled. Both are hazards without a property.
* `InitDefault` makes one call at most, which walks or hangs, and does not create a descriptor: it could not. It is not
  called again while it runs. One that sets nothing, for which `desc.go:302-305` keeps zero values as defaults, is modelled as one that sets a field to its
  zero value.
* In `Encoder` only the object itself changes, not the objects it points to; `EncodedSize` is one step; what `Append`
  writes behind `len(buf)` before the error is not modelled, and no property covers that hazard. On a concurrent map access the Go runtime may stop the program
  instead. Enum values are in the range of 32 bits for `RoundTrip`; keys that are pointers to structs have distinct contents.
  `appendMapAnyAny` is never reached, as every pair of types has a function of its own.
* Finalisers, memory limits, and `hack.go`, whose assumptions about the runtime are tested when the package is loaded.
* `defaults.go` and `sizes.go` of `internal/defs`, and `ResolveFields` with its cache, which no code of the repository but
  tests calls; constructors of errors.
* Options, debug and iov packages, which do nothing; the fuzzers and tests.

## 7. Plan

Done in this order, most important first: registry and its proofs, decoder memory and its proofs, decoder, encoder, field
tables and their proofs; user code under the mutex; resolver, type parser and type cache; copies of struct values; objects left behind by
errors; proofs of the decoder, the copies and the refinement of the table; the registry's proofs for programs with invalid
structs; the encoder's types and the grammar of what it writes, proved; that the bytes
measured are the bytes written, proved; descriptors, the type cache and its recursion, the parser against its grammar, proved. Next: a decoder whose memory is `Span`'s,
for the values behind pointers and the pre-allocated elements.
