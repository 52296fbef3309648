# swiss_ht: TLA+ models, model checking and proofs

swiss_ht is a C library with two hash tables in the style of Abseil's Swiss
tables: a *flat* one, which stores keys and entries, and a *node* one, which
stores references to them. This directory holds TLA+ modules that model the
tables, their iterators and the functions on bytes and bits under them, TLC
configurations that check them on small instances, and proofs, which TLAPS
checks for all instances: of every invariant that those runs check, and of the
refinement of a dictionary by both tables.
Paths such as `src/README.md` are those of the repository.

## The system

| Component | State | Operations | Modelled |
|---|---|---|---|
| flat table (`flat_sparse_hashtable.c`) | `bitmap` of control bytes, `table` of pairs, `hashtable_sz`, `group_num`, `entries` | create, search, insert, emplace, delete, free; internal resize | `FlatHashtable` |
| flat iterator (same file) | `iterator` in the structure: state, group, mask of the group | start, next, prev, end | `FlatIterator` |
| node table (`node_sparse_hashtable.c`) | as the flat table, with references; hash seed; three callbacks | create, search, insert, delete, free; internal resize | `NodeHashtable` |
| node iterator (same file) | as the flat iterator | start, next, prev, end | `NodeIterator` |
| common definitions (`sparse_hashtable_common.h`) | none | group masks, thresholds, powers of two, first set bit | `SwissCommon`, `Words`, `BitTricks` |
| hash functions (`hash_function.h`) | none | pure functions on bytes | `HashFunctions`, `HashMixing`; partly |
| tests, Makefile | - | clients of the library | no |

**How a table works.** A slot has a control byte: seven bits of the hash of its
key (the tag H2), or EMPTY, or DELETED (a tombstone). Slots come in groups of
16, compared at once. The rest of the hash (H1) selects a first group; the
probe goes on to other groups until it finds the key, or a group with an EMPTY
byte. An insertion searches for the key and then takes the first slot on the
way that is not in use. A deletion writes EMPTY if the group has another EMPTY
byte, a tombstone otherwise. When the load leaves its limits the call that
changed it copies all pairs to a table of twice or half the size before it
returns, and reports in its error code when memory for that is lacking.

**How the parts interact.** Both tables include the common definitions, and
duplicate the code of the probe loops. The iterator lives in the table's
structure; a resize makes it invalid, an insertion or deletion does not. The
node table calls back: a comparator while it probes, the length of a key
before it hashes, and the client's destructor for every object it gives up.
Nothing is shared between threads and nothing is persistent: all
nondeterminism is the order of the calls, the outcome of allocations, and what
uninitialised memory or the first bit of an empty mask happens to be.

**What is hard.** Long sequences of legal calls: whether a key is found depends
on the history of every group on its way, since tombstones, reused slots and
resizes move the point at which a probe stops. One step of several failing: a
resize that cannot allocate leaves a table that is fuller than its limit, and
later calls start there. Values read before a resize and used after it.
Ownership of node objects across failures, deletions and `ht_node_free`. The
hazards, each with its line, are in `PROJECT.json`. In the hash functions it is
the boundaries: eleven ranges of lengths, each with words that overlap or reach
back from the end of a key.

**What makes it correct.**
- flat table: a stored key is found; no key is stored twice; the counter is
  exact; sizes stay powers of two; resizes lose nothing, end, and leave room;
  a call answers as a dictionary does; what it returns is live; probes stop.
- iterators: every pair once, then NULL; never outside the current table.
- node table: the same dictionary; the table owns what it can reach and
  nothing else; every object is destroyed once, when it is no longer found.
- iterators, when the client changes the table on its way: what stays is given
  once, what was destroyed is not given, NULL is the end.
- bit-level helpers: they compute what the tables take them for.
- hash functions: they read every byte of the key and no other, and the steps
  they are made of do not forget what they have read.

## Modules

| Module | What it is |
|---|---|
| `Words` | powers of two and the bitwise operators of C |
| `SwissCommon` | constants, control bytes, masks as sets of positions, limits, sizes |
| `HashMap` | abstract specification: a dictionary and what a call answers |
| `FlatHashtable` | the flat table, its properties and its inductive invariant |
| `FlatIterator` | the flat table and its iterator together |
| `NodeHashtable` | the node table and its client's objects |
| `NodeIterator` | the node table and its iterator together |
| `Inputs` | the number that the modules on pure functions look at, one after the other |
| `BitTricks` | the bit-level code against the definitions of `SwissCommon` |
| `HashFunctions` | which bytes of a key the hash functions and the comparator read |
| `HashMixing` | what the steps of the hash functions compute, on words of any width |
| `Words_proofs` | lemmas: powers of two, remainders, that both kinds of probe visit every group, the bitwise operators |
| `FlatHashtable_proofs` | the inductive invariant of the flat table and what follows from it |
| `FlatLimits_proofs` | its load, the room a resize leaves, which tables hang, and what a call tells after failures |
| `FlatDictionary_proofs` | it implements `HashMap` |
| `FlatIterator_proofs` | walks over an unchanged table, both ways |
| `NodeHashtable_proofs` | the node table: ownership of the objects, and that it implements `HashMap` |
| `NodeIterator_proofs` | walks while the client inserts and deletes |
| `Pure_proofs` | the bytes read, for keys of every length below 2 GB; mixing steps, sizes and bit tricks |
| `MCFlat`, `MCFlatIterator`, `MCNode`, `MCNodeIterator`, `MCPure` | instances for TLC: keys, hashes, symmetry; the three modules on pure functions in one run |

**SwissCommon.** A 16-bit mask is the set of its set bits. `Hash` is a constant
function; H1 and H2 are its quotient and remainder by 128, as in the code. The
seed of a node table changes the hash from table to table, but a table never
outlives its seed and every property is about one table, so that one arbitrary
function stands for all.

**FlatHashtable.** `pc` says what the library is doing: `null` (no table),
`ready` (a client may call), `grow` or `shrink` (the call has changed the table
and is about to resize), `rehash` (pairs are being copied) and `hung` (a probe
goes round for ever). A call is one step up to its resize. Its probe loop is
one step since it writes nothing: `ProbeGroup(k, j, n)` is the group of turn j,
and `FindsAt`, `Misses`, `Spins` and `FreeAt` say how the loop ends. After
`group_num` turns every group has been visited (`HungTableIsFull`, by
`LinearDistinct` and `TriangularDistinct`), so that a loop that has not stopped
by then never does. A resize is a step that allocates, one step for every pair
copied, and a step that frees the old table. `ret` is what the call returns; a pointer is the
slot it points to, or `FREED` once the memory is gone. The slots of a new
table hold `JUNK`. Error codes are those of `hash_err_t`.

**FlatIterator.** The iterator calls are actions that interleave with the
table's. `_ht_iter_valid_group` becomes `IsNextValidGroup` and `NoValidGroup`.
Where `ht_flat_prev_it` takes the first bit of an empty mask, which is
undefined, `YieldGarbage` yields any mask and as tuple any slot of the table or
a pointer outside it, `JUNK`: counted from the wrapped index, a position of 32,
which is what `tzcnt` gives for no bit, is slot 16. `walk` is a history
variable: the slots a client was given since it began to iterate or last turned
round.

**NodeHashtable.** The probe operators are those of `FlatHashtable`, by
INSTANCE: the loops of the two files are the same, but that this one never
increments `probe_step`, so that its probe is linear with either macro
(`SPARSE_LIN_PROBE <- TRUE`). An object is a key with its entry; `owner` says who has
to free it. The destructor is called in the step that writes the tombstone,
and the deletion goes on in the next, so that properties see the table as the
destructor does. `ht_node_free` calls it once per step.

**NodeIterator.** As `FlatIterator`, whose operators for the next group it uses
by INSTANCE, on the state of `NodeHashtable`; a tuple is the object it refers
to. `walk` is a history variable again: the objects a walk still owes (`due`),
those it has returned and that are still there (`given`), whether one came
twice, whether one came after NULL, the objects deleted before the walk had
returned them (`lost`), and whether `ht_node_prev_it` has made up a tuple where
it should have returned NULL (`fell`). That tuple is read from an undefined
place of the table: any object, destroyed or not, NULL or `JUNK`. A lost object
that is inserted again may be returned twice: by the bit of its old slot, which
the copied mask still has and another object of that slot answers, and at its
new slot. `StayingSeenOnce` excepts these objects and, besides the tuple made
up, no others. `IterNext` lets every operation of the table happen between two
calls of the iterator.

**Words.** `&`, `|` and `^^` are recursive functions on natural numbers: the last
bit of the result comes from the last bits of the operands, the others from
their halves. They have no width; where the code's words do, a definition
reduces its result.

**Pure functions.** `Inputs` has one variable, `x`, that runs through the
numbers up to `LAST`; the properties say what holds of the functions at `x`.
`HashFunctions` gives for every function the set of offsets it fetches as a
function of the length; loops over chunks become unions. `HashMixing` has the
arithmetic of the functions for integers, and of one turn of the loops, the
tails and the ends of the others, on words of `WORD` bits. With `WORD` 32 or 64
they are what the code has for words of that width; for another width shifts
are scaled and constants reduced to their low bits. How well a hash spreads is
not claimed. In `BitTricks` a size_t has 2^`SHIFTS` bits and is folded `SHIFTS`
times; masks have 16 bits as in the code.

**HashMap and the refinements.** `Dictionary` in both tables maps the pairs in
the table and those a resize has yet to copy to one function from keys to
entries; a resize is then invisible. Error codes are not part of the promise.

## Runs

All instances have groups of two slots and at most four groups, UPPER_DIV 4
(a quarter of the slots stays free) unless noted, and keys that share one tag
and have two first groups: a table of two groups has room for all collisions
that matter (a full group on the way of a key, a tombstone in it, a key
beyond it), and a size of four groups lets a table both grow and shrink. The
theorems hold for any `GROUP_SIZE`, `UPPER_DIV` and hashes. `MAX_GROUPS` bounds
the tables: larger allocations fail, which the code handles as any failure.
`IndexIsBounded` keeps the index of an iterator, which calls on an empty table
may move, within one step of the largest table.

| Run | Shows |
|---|---|
| `flat_core` | type and inductive invariant, `StoredKeyIsFound`, `KeysStoredOnce`, `EntriesCounted`, `MaskingIsModulo`, `RehashLeavesRoom`, with five keys and failing allocations; which pointers a call returns after failures (`PointerIsOfKeyOrFreed`), and what its code says of the load (`CodeTellsLoad`) |
| `flat_dictionary` | `ImplementsHashMap`, with two entries, so that emplacement is visible; `ResizeReturns`. Three keys, half of the slots free |
| `flat_reliable` | without failures and with quadratic probing: `LoadWithinLimit`, `ReturnedEntryIsLive`; triangular steps reach every group, so that a probe that hangs has seen no EMPTY byte anywhere (`HungTableHasNoEmptySlot`), and this takes as many tombstones as the limit leaves slots free (`OnlyTombstonesHang`) |
| `iter_core` | exact forward iteration, also within the table when it changes; exact backward iteration down to an occupied group 0; a client that turns round in the middle or at the NULL before group 0 is given pairs of the table, none twice since the turn |
| `node_core` | `OwnedIsHeld`, `DestroyedOnce`, `DyingIsUnreachable`, `ReturnedIsOwned`, `PointerTellsOwner`, `ImplementsHashMap`, `CallsReturn`; two of the objects share a key |
| `node_iter` | `StayingSeenOnce`, `GivenIsLive`, `NullEndsWalk`, with two keys of one first group and one of another, half of the slots free, any mixture of iterator calls, insertions and deletions in both directions, and resizes in the middle of a walk |
| `pure` | `_get_next_power_of_two` and the block of a table for every 16-bit size, `_get_first_set_bit_pos` (the fallback) and `_reverse_bits16` for all 16-bit masks; `EveryByteIsRead` and `OnlyTheKeyIsRead` for keys of up to 400 bytes; `IntegersNeverCollide` and `OneByteDecides` for words of 8 and bytes of 4 bits: steps over words for every word, steps over bytes for every byte |

The bounds of `pure`: 400 bytes are more than three turns of the longest loop
(128 bytes) and thus every range of lengths with every remainder. `K0` stands
for a 64-bit constant that takes a pointer far from the key. Words of 8 bits are
short enough to run through all pairs of a hash and a word that is read. A
size_t has 16 bits (`SHIFTS` 4). The theorems hold for any width.

`pure` switches the deadlock check off: x simply runs out. All other runs check
for deadlock, and have none: a probe that hangs spins, everything else goes on.
Symmetry is used for safety only, never where a run checks liveness.

**Fairness.** Only `flat_dictionary` and `node_core` assume any, for
`ResizeReturns` and `CallsReturn`: weak fairness of what a call does once it
has begun (`ResizeStep`, `GoOn`). The library is sequential code
and runs on; nothing obliges a client to make calls. In `GoOn` this includes
that the client's destructor returns.

### Where the code and its documentation disagree

Each of these runs checks one statement of the documentation or of a test, and
finds it violated.

| Run | Statement | What the code does |
|---|---|---|
| `flat_hang` | a lookup that fails returns NULL (`src/flat_sparse_hashtable.h:129`) | with no EMPTY byte left it loops for ever; tombstones never trigger a resize |
| `flat_freed_entry` | an insertion of a key that exists returns the entry (`src/README.md:39`) | after a failed growth, the call that grows the table returns a pointer into the old one |
| `iter_backward` | a backward walk visits all entries (`src/test_int.c:545`) | when group 0 is empty it ends with a pointer to an undefined slot |
| `node_backward` | NULL ends a backward walk before the start of the table (`src/node_sparse_hashtable.h:122`) | `ht_node_prev_it` does not look whether there is a group: it returns the tuple of an undefined slot, which may refer to an object given before or destroyed |
| `node_insert_error` | NULL with a code other than 0 is no success (`src/README.md:39`) | the object is stored and will be destroyed by the table |

Seen while modelling, without a run of their own:
- `src/README.md:19` says that tables resize below 25% and above 75% of their
  capacity; the limits are about 40% and 87.5%
  (`src/sparse_hashtable_common.h:104`).
- On an empty table `ht_flat_end_it` returns NULL and a valid iterator
  (`src/flat_sparse_hashtable.c:681`), where NULL should end an iteration
  (`src/flat_sparse_hashtable.h:201`). `ht_node_end_it` does not: this is what
  `NullEndsWalk` checks, and its mutant is the order of the flat table.
- The code of a deletion of an absent key is HASH_ENTRY_NOT_EXISTS
  (`src/flat_sparse_hashtable.h:29`), unless the deletion shrinks the table: the
  code of the resize replaces it (`src/flat_sparse_hashtable.c:570`;
  `DeleteMissing`).
- `hash_CityHash128`, which nothing calls, takes "the key to be hashed" and its
  length (`src/hash_function.h:1275`), but fetches half of its seed from
  `(s + 8) + k0` instead of adding `k0` to what is fetched from `s + 8`
  (`src/hash_function.h:1290`): it reads far outside the key and never reads the
  bytes 8 to 15. `EveryByteIsRead` and `OnlyTheKeyIsRead` state this exactly.
- The comment on `hash_djb2` says hash * 33 (`src/hash_function.h:752`); the
  code multiplies by 31. Both are odd, which is what `OneByteDecides` needs.

## Proofs

Every invariant and every action property that a passing run checks, and both
refinements, are theorems: TLC shows them on a small instance, TLAPS for all
values of the constants that satisfy the assumptions.

| Module | Theorems |
|---|---|
| `FlatHashtable_proofs` | `Soundness` (`Spec => []IndInv`), `TypeCorrect`, `NoFalseMiss`, `NoDuplicates`, `CounterExact`, `MaskIsModulo` |
| `FlatLimits_proofs` | `ResizeSettles`, `HungTableIsFull`, `LoadIsLimited`, `ReturnedIsLive`, `TombstonesHang`, `PointerIsSound`, `CodeIsTrue` |
| `FlatDictionary_proofs` | `FlatIsDictionary` |
| `FlatIterator_proofs` | `ForwardIsExact`, `ForwardIsInTable`, `BackwardIsExact` |
| `NodeHashtable_proofs` | `NodeTypeCorrect`, `NoLeaks`, `NoDoubleFree`, `DyingIsGone`, `ReturnedStays`, `InsertionTellsOwner`, `NodeIsDictionary`; `NodeSoundness` (`Spec => []NodeInv`), which the others rest on |
| `NodeIterator_proofs` | `WalkReturnsStaying`, `WalkGivesLive`, `WalkEndsAtNull`; `WalkSoundness` (`IterSpec => []IterInv`), which they rest on |
| `Pure_proofs` | `NoByteIsIgnored`, `NoByteIsForeign`, `IntegersDoNotCollide`, `OneByteAlwaysDecides`, `FoldingIsRight`, `BlockIsBigEnough`, `DecodingIsRight`, `ReversalIsRight` |

### Assumptions

- `CommonAssumption`: hashes are natural numbers, GROUP_SIZE is a power of two
  (16 in the code), UPPER_DIV is at least 1.
- `FlatAssumption`, `NodeAssumption`: the special pointers are no slots and no
  pairs, NULL is no entry and no object, every object has one key. Hints are any
  natural numbers: that a hint gives a power of two of groups is the lemma
  `InitialGroupsArePower`.
- `IteratorAssumption` of the flat iterator: what memory holds before it is
  written is recognised, no index and no mask. It only tells the values apart;
  nothing keeps an iterator from returning one.
- `HashAssumption`: keys are shorter than 2 GB, and `K0` is beyond their end.
- `BitAssumption`: a size_t has 2^`SHIFTS` bits for a positive `SHIFTS`; pairs
  take at least a byte.
- `MixingAssumption`: words have at least two bits, bytes at least one and no
  more than words.

Some theorems about limits have hypotheses of their own.
- `ResizeSettles`, `LoadIsLimited`, `ReturnedIsLive`, `TombstonesHang` and
  `CodeIsTrue` take `UPPER_DIV >= 5`; it is 8 in the code. A table shrinks below 40% of its slots, which are then up
  to 80% of half as many: more than the 75% that UPPER_DIV 4 allows. The runs,
  with UPPER_DIV 4 or 2, pass because their tables are small.
- `LoadIsLimited`, `ReturnedIsLive` and `TombstonesHang` are about behaviours
  that satisfy `AllocationsSucceed`, as the properties say: `flat_freed_entry`
  shows what happens otherwise.

### Arguments

*Lookup* (`IndInv`). `StoredKeyIsFound` is not inductive: a deletion could open
a hole before the slot of another key. What is kept is `Reachable(k, g)`: before
the turn in which the probe of k reaches group g it meets only other groups
that have no EMPTY byte. No step takes this away from a stored key. An
insertion writes no EMPTY byte (`PutChangesOneSlot`), a deletion writes one
only in a group that has one already (`DeleteChangesOneSlot`), and so
`ReachableStays`. An insertion establishes it for its own key: if the key was
missed, the probe for a free slot passed only groups in use entirely
(`PutKeepsSound`); a rehash starts from an empty table and uses the same
store. With unique keys, a slot that is sound is the one the search finds
(`StoredIsFound`), and a search that misses proves the key absent
(`MissedIsAbsent`), which keeps keys unique. Uniqueness covers the pairs a
resize has not yet copied, so that it may insert without searching. `TableInv`
is the part of `IndInv` that leaves out the iterator and what a call returns;
the proofs about the iterator and the node table build on it.

*Probes* (`HungTableIsFull`). The number of groups is a power of two
(`DoublePower`, `HalfPower`; a shrink is never begun with two groups). Two turns
of a linear probe that meet in one group are a multiple of that number apart;
two turns i < j of a triangular one have (j - i)(i + j + 1) divisible by twice
that number, where one factor is odd (`OddFactorCancels`). So group_num turns
visit as many different groups: all of them, since an injection of a finite set
into itself is onto. Counting arguments are made that way throughout, in place
of induction over data, which the provers cannot do.

*Limits* (`RehashHasRoom`, `ReliableInv`). While a resize runs, the pairs
copied and those left to copy fit within the limit of the new table: twice the
size has room for all the old one could hold (`GrowthLeavesRoom`), half the size
for what was fewer than LOWER_LIMIT (`ShrinkLeavesRoom`). If allocations
succeed, every call ends within the limit, and a call that resizes has no
pointer to return, so that none is stale. A probe that hangs has found no EMPTY
slot (`HungTableIsFull`): the slots are in use, and then counted in the load, or
tombstones, of which there are thus as many as the limit leaves slots free
(`FullOfTombstones`).

*After failures* (`PointerInv`, `CodeInv`). Without that hypothesis an insertion
of a key that exists may find the table above its limit and grow it. This is
the only call that resizes with a pointer to return, and what `PointerInv` keeps
while it does: the pointer is still that of the key if the allocation fails, and
dead if it succeeds. So `PointerIsSound` gives the exact condition of the
divergence that `flat_freed_entry` shows. `CodeInv` keeps why a resize was begun;
when it succeeds the load is within the limit again (`RehashHasRoom`), when it
fails the reason still stands, whatever failed before.

*Dictionaries* (`FlatIsDictionary`, `NodeIsDictionary`). The abstract map is a
function of the memory: under the invariant, the pairs in the table and those
not yet copied form a function from keys to entries. Each action is shown to be
a step of `HashMap` or to leave its variables alone, the steps of a resize
among the latter, since they move pairs within that set.

*Flat iterator* (`IterInv`). A walk that is not over has been given exactly what
it has `Passed`: the pairs of the groups behind it, and of its own group those
that the mask no longer has. A client that turns round leaves the iterator where
it is (`ForwardGoesOn`, `BackwardGoesOn`): since its turn it has been given a part
of what the new direction calls passed, and what comes next is not. With a pair
in group 0 a backward walk always finds a group, so that the tuple of an empty
mask never enters: `BackwardIsExact` needs its hypothesis there, and
`iter_backward` shows why.

*Node table* (`NodeInv`). Its memory is that of a flat table whose entries are
objects: `F`, an instance of `FlatHashtable_proofs` in which the destructor
call in the middle of a deletion has already been counted and that of
`ht_node_free` does not exist. An action of the node table is a step of F's
table or leaves it alone, so that all of the above carries over; the loop that
never increments `probe_step` is F's linear probe. On top, `RefsInv` says that a
slot refers to an object with the key of the slot, and `OwnerInv` that an object
is owned by the table just when a slot, or what a resize or `ht_node_free` has
left, refers to it. With unique keys, no object is in two slots: an object that
loses its slot is out of reach for good, which is why it can be destroyed and
is destroyed once. `InsertInv` keeps, through the resize that follows an
insertion, that the object inserted is the table's just when the pointer is
NULL.

*Node iterator* (`IterInv`). The client changes the table under the walk, so
that nothing can be said of what is behind it. What is kept is about what lies
`Ahead`: the slots in use of the groups to come, and those of the mask. All
that is due is ahead; nothing that was returned and not lost is ahead
(`Settled`). A deletion keeps this, as it removes an object from where it lies.
An insertion keeps it, as the object it stores was the client's: neither due nor
among those returned and still there. The mask is a copy and goes stale, but a
bit of it that leads nowhere led to an object which is then lost. When
`ht_node_prev_it` finds no group nothing is ahead, and thus nothing due; of the
tuple it makes up nothing can be said, and the walk has ended: the iterator is
invalid from then on.

This proof corrected the property. An earlier `StayingSeenOnce` let no object
be returned twice, and held in the instance then checked; it is false of an object that is deleted before it is returned and
inserted again while the mask still has the bit of its old slot. The property
now excepts such objects only, and the instance of `node_iter` is one in which
they occur.

*Bytes read.* Every function is shown to read the set `Bytes(0, len)` as a
whole, by cases on the ranges of lengths; the chunks of a loop are put together
by division with remainder, so that lengths are not bounded by the turns of a
loop. `hash_CityHash128` is the exception, exactly as its properties state.

*Bitwise operators* (`Words_proofs`). The provers know neither these operators
nor recursive functions, and the library's theorem that a recursive function
exists takes an operator as a parameter. `SetInduction` and `StrongSetInduction`
are induction for a set in place of a predicate, and `Recursion` the existence
of a recursive function whose step is a function. They give `And`, `Or` and `Xor`
their defining equations (`AndIsDefined`, `OrIsDefined`, `XorIsDefined`); that xor
cancels and associates, or sets low bits, and is what it is bit by bit
(`BitOfAnd`, `BitOfOr`) follow by induction on the halves.

*Mixing* (`IntegersDoNotCollide`, `OneByteAlwaysDecides`). A step over words is
one-to-one in the word it reads and in the hash before it, a step over bytes in
the byte and the hash; the ends, `Murmur3End` with the length and
`MurmurHash64ATailEnd` after the last byte of a tail among them, are one-to-one
in the hash. Of `Hash128to64` this holds of the low half only: the high half
enters twice. A function is one of a chain of steps, each of which can be
undone: a word xor its own shift (`XorShiftCancels`: its highest bits are
unchanged, and give the next ones), a word plus its own shift or times a
constant (an odd factor cancels modulo a power of two), a rotation (one-to-one,
quotient and remainder changing places), and the steps of `hash_jenkins_integer`
that add or xor a shift of the word before a constant is added
(`XorWithSumKeeps`: the low bits that two words share are those that their
shifts share, and one more). A chain of permutations is one.

*Sizes* (`FoldingIsRight`, `BlockIsBigEnough`). Let P be the power of two with
P <= size < 2P. A fold by n, when the n highest bits are set, sets the 2n
highest (`FoldingSetsBits`); what is missing, 2P - 1 minus the size, was less
than 2P / 2^n and is then less than 2P / 4^n. After `SHIFTS` folds nothing is missing (`FoldedIsAllOnes`).
The test for a power of two is right since no bit is in both size and size - 1
just then (`PowersShareNoBit`, `BetweenPowers`).

*Masks* (`DecodingIsRight`, `ReversalIsRight`). A mask and its negative share the
lowest set bit and no other (`NegativeSharesLowestBit`); for each of the 16 values
of that bit the product with the magic number is looked up. A swap moves every
bit to its partner's place (`SwapMoves`), and the four swaps one after the other
turn p into 15 - p.

### What is only model-checked

Liveness, `ResizeReturns` and `CallsReturn`: temporal reasoning with fairness
needs ENABLED, which the prover does not know. Everything else that a passing
run checks is proved.

The runs that expect a violation have no theorems, of course.

## Not modelled

- The values of the hash functions as a whole: seeds, the order of the bytes in
  a word, how CityHash combines its words, the rounds of `siphash24`. The
  tables use a hash as a fixed function of a key, and no property of theirs
  depends on which. TLC checks short words only; the theorems cover words of 32
  and of 64 bits with every constant as it is.
- Keys of 2 GB and more, for which offsets and numbers of blocks kept in an int
  overflow (`hash_murmur3_32` among them): `HashAssumption` ends below them.
- Getters, which read one field, and the printing routines.
- Sizes in bytes within the tables: a table counts slots. `BlockHoldsTable` says
  up to which hints the product `hashtable_sz * bucket_sz` does not wrap.
- A NULL `error_code` or table, through which the check of the arguments
  writes; the other wrong arguments are `WrongArgument`.
- The branches for machines without SSE2: as written they do not compile
  (`mask` is not declared, `src/sparse_hashtable_common.h:215`).
- `_reverse_bits32` and `hash_err_t`'s HASH_INVALID_SIZE, which nothing uses.

## Plan

1. Done: `Words`, `SwissCommon`, `HashMap`, `FlatHashtable`, `FlatIterator`,
   `NodeHashtable`, `NodeIterator`, `BitTricks`, `HashFunctions`, `HashMixing`.
2. Done: the proofs about both tables, their iterators and the pure functions.
3. Done: when the pointer of a failed growth is stale
   (`PointerIsOfKeyOrFreed`), and how many tombstones a table that hangs has.
   Left: which sequences of calls lead there, so that a client can avoid them.
4. Left: action properties of what a step of a resize may change, and of when a
   tombstone may become EMPTY again.
