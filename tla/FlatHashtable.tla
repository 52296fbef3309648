--------------------------- MODULE FlatHashtable ---------------------------
(***************************************************************************)
(* The flat Swiss table of flat_sparse_hashtable.c, one call at a time.    *)
(*                                                                         *)
(* A call is made in pc = "ready".  The probe loops of a call are one      *)
(* step: they change nothing until they stop, and Spins says when they     *)
(* never do.  A resize takes one step to allocate, one step for every pair *)
(* it moves and one step to return.                                        *)
(*                                                                         *)
(* bitmap[g][p] and table[g][p] are the control byte and the <key, entry>  *)
(* pair of slot p of group g.  hashtable_sz is Capacity.                   *)
(***************************************************************************)
EXTENDS SwissCommon

CONSTANTS
  Entries,           \* the values a client stores with its keys
  Hints,             \* the sizes a client passes to ht_flat_create
  SPARSE_LIN_PROBE,  \* whether the macro of this name is defined
  MAX_GROUPS,        \* malloc fails for every table of more groups
  MallocMayFail,     \* whether malloc may fail for smaller ones, too
  NULL,              \* the null pointer
  FREED,             \* a pointer into memory that was freed
  JUNK               \* what malloc returns, before it is written

ASSUME FlatAssumption ==
  /\ Hints \subseteq Nat
  /\ SPARSE_LIN_PROBE \in BOOLEAN
  /\ MAX_GROUPS \in Nat
  /\ MallocMayFail \in BOOLEAN
  /\ \A x \in {NULL, FREED, JUNK} : x \notin (Nat \X Nat) \cup [key : Keys, entry : Entries]
  /\ NULL # FREED /\ NULL \notin Entries

VARIABLES
  pc,         \* what the library is doing
  group_num,  \* number of groups, 0 without a table
  bitmap,     \* control bytes, by group and position
  table,      \* <key, entry> pairs, by group and position
  entries,    \* the counter of stored pairs
  old_table,  \* the table that a resize copies from
  left,       \* the slots of old_table that the resize has yet to move
  iterator,   \* the iterator inside the structure
  ret         \* what the current call returns, or the last one returned

memory == <<group_num, bitmap, table, entries, old_table, left>>
vars   == <<pc, memory, iterator, ret>>

-----------------------------------------------------------------------------
HASH_OK               == 0
HASH_WRONG_ARGUMENT   == 2
HASH_CREATE_MEM_ALLOC == 3
HASH_REHASH_MEM_ALLOC == 4
HASH_ENTRY_NOT_EXISTS == 5

Pairs    == [key : Keys, entry : Entries]
Groups   == 0 .. (group_num - 1)
Capacity == group_num * GROUP_SIZE

EmptyBitmap(n) == [g \in 0 .. (n - 1) |-> [p \in Positions |-> ENTRY_EMPTY]]
JunkTable(n)   == [g \in 0 .. (n - 1) |-> [p \in Positions |-> JUNK]]

(* The slots whose control byte has its high bit clear. *)
UsedSlots == {s \in Groups \X Positions : s[2] \in ValidMask(bitmap[s[1]])}

(* The slots that a deletion has left to be probed over. *)
Tombstones == {s \in Groups \X Positions : bitmap[s[1]][s[2]] = ENTRY_DELETED}

(***************************************************************************)
(* Result of a call.  code is the error code; pointer is the entry that it *)
(* returns, as the slot of the entry.  key is the key of a lookup or of an *)
(* insertion and hit says whether the probe found it, local facts that the *)
(* code may have lost when it returns.                                     *)
(***************************************************************************)
Result(op, key, hit, code, pointer) ==
  [op |-> op, key |-> key, hit |-> hit, code |-> code, pointer |-> pointer]

(***************************************************************************)
(* malloc and aligned_alloc of a table of n groups: both succeed, or the   *)
(* code frees the one that did and reports the failure.                    *)
(***************************************************************************)
CanAllocate(n) == n <= MAX_GROUPS
CanFail(n)     == MallocMayFail \/ n > MAX_GROUPS

-----------------------------------------------------------------------------
(***************************************************************************)
(* The probe loops.  Iteration j looks at group ProbeGroup(k, j); after    *)
(* group_num iterations every group has been looked at.                    *)
(***************************************************************************)
(* Fault: quadratic probing by squares, which leave groups out. *)
ProbeGroupBySquares(k, j, n) ==
  IF SPARSE_LIN_PROBE THEN (H1(k) + j) % n ELSE (H1(k) + j * j) % n

ProbeGroup(k, j, n) ==
  IF SPARSE_LIN_PROBE
  THEN (H1(k) + j) % n
  ELSE (H1(k) + (j * (j + 1)) \div 2) % n

(* Fault: a tag that agrees is taken for the key. *)
MatchesByTag(k, g) == EqMask(bitmap[g], H2(k))

(* COMP_KEY_CB is called for the positions of the group with the tag of k. *)
Matches(k, g) == {p \in EqMask(bitmap[g], H2(k)) : table[g][p].key = k}

PassesBy(k, g) == Matches(k, g) = {} /\ ~HasEmpty(bitmap[g])

(* The search stops at slot <<g, p>>, which holds k. *)
FindsAt(k, g, p) ==
  \E j \in Groups :
    /\ ProbeGroup(k, j, group_num) = g
    /\ \A i \in 0 .. (j - 1) : PassesBy(k, ProbeGroup(k, i, group_num))
    /\ IsFirstSetBit(p, Matches(k, g))

(* Fault: the search also stops at a tombstone. *)
MissesAtTombstone(k) ==
  \E j \in Groups :
    /\ \A i \in 0 .. (j - 1) : AndMask(bitmap[ProbeGroup(k, i, group_num)]) = {}
    /\ \A i \in 0 .. j : Matches(k, ProbeGroup(k, i, group_num)) = {}
    /\ AndMask(bitmap[ProbeGroup(k, j, group_num)]) # {}

(* The search stops at a group without k that has an empty slot. *)
Misses(k) ==
  \E j \in Groups :
    /\ \A i \in 0 .. (j - 1) : PassesBy(k, ProbeGroup(k, i, group_num))
    /\ Matches(k, ProbeGroup(k, j, group_num)) = {}
    /\ HasEmpty(bitmap[ProbeGroup(k, j, group_num)])

(* The search goes round the table for ever. *)
Spins(k) == \A j \in Groups : PassesBy(k, ProbeGroup(k, j, group_num))

(* The insertion loop of _ht_flat_insert stops at slot <<g, p>>. *)
FreeAt(k, g, p) ==
  \E j \in Groups :
    /\ ProbeGroup(k, j, group_num) = g
    /\ \A i \in 0 .. (j - 1) : AndMask(bitmap[ProbeGroup(k, i, group_num)]) = {}
    /\ IsFirstSetBit(p, AndMask(bitmap[g]))

(* Fault: a tombstone that is used again is taken for a pair that is counted. *)
PutUncounted(pair, g, p) ==
  /\ table'   = [table EXCEPT ![g][p] = pair]
  /\ bitmap'  = [bitmap EXCEPT ![g][p] = H2(pair.key)]
  /\ entries' = entries + (IF bitmap[g][p] = ENTRY_EMPTY THEN 1 ELSE 0)

(* The store of _ht_flat_insert. *)
Put(pair, g, p) ==
  /\ table'   = [table EXCEPT ![g][p] = pair]
  /\ bitmap'  = [bitmap EXCEPT ![g][p] = H2(pair.key)]
  /\ entries' = entries + 1

(* Fault: no tombstones. *)
TombstoneAlwaysEmpty(g) == ENTRY_EMPTY

(* The byte that a deletion writes: a tombstone only in a group without EMPTY. *)
Tombstone(g) == IF HasEmpty(bitmap[g]) THEN ENTRY_EMPTY ELSE ENTRY_DELETED

-----------------------------------------------------------------------------
(* Where a call goes when it has changed the table: on to a resize, or home. *)
(* Fault: the load is looked at before the insertion. *)
CheckUpperTooEarly ==
  pc' = IF entries > UPPER_LIMIT(Capacity) THEN "grow" ELSE "ready"

CheckUpper ==
  pc' = IF entries' > UPPER_LIMIT(Capacity) THEN "grow" ELSE "ready"

CheckLower ==
  pc' = IF entries' < LOWER_LIMIT(Capacity) /\ group_num # 2 THEN "shrink" ELSE "ready"

-----------------------------------------------------------------------------
Init ==
  /\ pc = "null"
  /\ group_num = 0
  /\ bitmap = EmptyBitmap(0)
  /\ table = JunkTable(0)
  /\ entries = 0
  /\ old_table = JunkTable(0)
  /\ left = {}
  /\ iterator = [iter_state |-> FALSE, cur_group |-> JUNK, cur_group_mask |-> JUNK]
  /\ ret = Result("none", NULL, FALSE, HASH_OK, NULL)

(* ht_flat_create.  The position of the iterator is left as malloc gave it. *)
Create(hint) ==
  LET n == InitialGroups(hint) IN
  /\ pc = "null"
  /\ hint > 0
  /\ CanAllocate(n)
  /\ pc' = "ready"
  /\ group_num' = n
  /\ bitmap' = EmptyBitmap(n)
  /\ table' = JunkTable(n)
  /\ entries' = 0
  /\ iterator' = [iter_state |-> FALSE, cur_group |-> JUNK, cur_group_mask |-> JUNK]
  /\ ret' = Result("create", NULL, FALSE, HASH_OK, NULL)
  /\ UNCHANGED <<old_table, left>>

CreateFails(hint) ==
  /\ pc = "null"
  /\ \/ /\ hint = 0
        /\ ret' = Result("create", NULL, FALSE, HASH_WRONG_ARGUMENT, NULL)
     \/ /\ hint > 0
        /\ CanFail(InitialGroups(hint))
        /\ ret' = Result("create", NULL, FALSE, HASH_CREATE_MEM_ALLOC, NULL)
  /\ UNCHANGED <<pc, memory, iterator>>

(* ht_flat_free *)
Free ==
  /\ pc = "ready"
  /\ pc' = "null"
  /\ group_num' = 0
  /\ bitmap' = EmptyBitmap(0)
  /\ table' = JunkTable(0)
  /\ entries' = 0
  /\ iterator' = [iter_state |-> FALSE, cur_group |-> JUNK, cur_group_mask |-> JUNK]
  /\ ret' = Result("free", NULL, FALSE, HASH_OK, NULL)
  /\ UNCHANGED <<old_table, left>>

(* ht_flat_insert, ht_flat_emplace or ht_flat_delete with a NULL argument. *)
WrongArgument ==
  /\ pc = "ready"
  /\ ret' = Result("wrong", NULL, FALSE, HASH_WRONG_ARGUMENT, NULL)
  /\ UNCHANGED <<pc, memory, iterator>>

-----------------------------------------------------------------------------
(* ht_flat_search *)
Search(k) ==
  /\ pc = "ready"
  /\ \/ \E g \in Groups, p \in Positions :
          FindsAt(k, g, p) /\ ret' = Result("search", k, TRUE, HASH_OK, <<g, p>>)
     \/ Misses(k) /\ ret' = Result("search", k, FALSE, HASH_OK, NULL)
  /\ UNCHANGED <<pc, memory, iterator>>

(* ht_flat_insert of a key that is there: the entry stays as it is. *)
InsertExisting(k, e) ==
  /\ pc = "ready"
  /\ \E g \in Groups, p \in Positions :
       FindsAt(k, g, p) /\ ret' = Result("insert", k, TRUE, HASH_OK, <<g, p>>)
  /\ UNCHANGED <<memory, iterator>>
  /\ CheckUpper

(* ht_flat_emplace of a key that is there: memcpy to the entry. *)
EmplaceExisting(k, e) ==
  /\ pc = "ready"
  /\ \E g \in Groups, p \in Positions :
       FindsAt(k, g, p) /\ table' = [table EXCEPT ![g][p].entry = e]
  /\ ret' = Result("emplace", NULL, TRUE, HASH_OK, NULL)
  /\ UNCHANGED <<group_num, bitmap, entries, old_table, left, iterator>>
  /\ CheckUpper

(* ht_flat_insert or ht_flat_emplace of a key that is not there. *)
InsertNew(op, k, e) ==
  /\ pc = "ready"
  /\ Misses(k)
  /\ \E g \in Groups, p \in Positions :
       FreeAt(k, g, p) /\ Put([key |-> k, entry |-> e], g, p)
  /\ ret' = Result(op, IF op = "insert" THEN k ELSE NULL, FALSE, HASH_OK, NULL)
  /\ UNCHANGED <<group_num, old_table, left, iterator>>
  /\ CheckUpper

(* ht_flat_delete of a key that is there: the pair stays in its slot. *)
DeleteExisting(k) ==
  /\ pc = "ready"
  /\ \E g \in Groups, p \in Positions :
       FindsAt(k, g, p) /\ bitmap' = [bitmap EXCEPT ![g][p] = Tombstone(g)]
  /\ entries' = entries - 1
  /\ ret' = Result("delete", NULL, TRUE, HASH_OK, NULL)
  /\ UNCHANGED <<group_num, table, old_table, left, iterator>>
  /\ CheckLower

(* ht_flat_delete of a key that is not there: the size is checked all the same. *)
DeleteMissing(k) ==
  /\ pc = "ready"
  /\ Misses(k)
  /\ ret' = Result("delete", NULL, FALSE, HASH_ENTRY_NOT_EXISTS, NULL)
  /\ UNCHANGED <<memory, iterator>>
  /\ CheckLower

(* A search, insertion or deletion whose probe never stops. *)
Hang(k) ==
  /\ pc = "ready"
  /\ Spins(k)
  /\ pc' = "hung"
  /\ UNCHANGED <<memory, iterator, ret>>

(* The loop goes on. *)
Spin == pc = "hung" /\ UNCHANGED vars

-----------------------------------------------------------------------------
(***************************************************************************)
(* _ht_flat_resize.  Its error code becomes the code of the call, whatever *)
(* the call had found before.                                              *)
(***************************************************************************)
(* Fault: growth by a half. *)
NewGroupsByHalf == IF pc = "grow" THEN group_num + group_num \div 2 ELSE group_num \div 2

NewGroups == IF pc = "grow" THEN 2 * group_num ELSE group_num \div 2

ResizeFails ==
  /\ pc \in {"grow", "shrink"}
  /\ CanFail(NewGroups)
  /\ pc' = "ready"
  /\ ret' = [ret EXCEPT !.code = HASH_REHASH_MEM_ALLOC]
  /\ UNCHANGED <<memory, iterator>>

StartRehash ==
  /\ pc \in {"grow", "shrink"}
  /\ CanAllocate(NewGroups)
  /\ pc' = "rehash"
  /\ group_num' = NewGroups
  /\ bitmap' = EmptyBitmap(NewGroups)
  /\ table' = JunkTable(NewGroups)
  /\ entries' = 0
  /\ old_table' = table
  /\ left' = UsedSlots
  /\ UNCHANGED <<iterator, ret>>

(* Groups in order, positions of a group in order. *)
IsNextToMove(s) ==
  /\ s \in left
  /\ \A t \in left : s[1] < t[1] \/ (s[1] = t[1] /\ s[2] <= t[2])

(* Fault: the pair is not taken off the mask (valid_entries_mask ^= 1 << pos). *)
MovePairAgain ==
  /\ pc = "rehash"
  /\ \E s \in left :
       LET pair == old_table[s[1]][s[2]] IN
       /\ IsNextToMove(s)
       /\ \E g \in Groups, p \in Positions :
            FreeAt(pair.key, g, p) /\ Put(pair, g, p)
  /\ UNCHANGED <<pc, group_num, old_table, left, iterator, ret>>

MovePair ==
  /\ pc = "rehash"
  /\ \E s \in left :
       LET pair == old_table[s[1]][s[2]] IN
       /\ IsNextToMove(s)
       /\ left' = left \ {s}
       /\ \E g \in Groups, p \in Positions :
            FreeAt(pair.key, g, p) /\ Put(pair, g, p)
  /\ UNCHANGED <<pc, group_num, old_table, iterator, ret>>

(* Fault: the iterator survives the table it was made for. *)
EndRehashKeepsIterator ==
  /\ pc = "rehash"
  /\ left = {}
  /\ pc' = "ready"
  /\ old_table' = JunkTable(0)
  /\ ret' = [ret EXCEPT !.code = HASH_OK,
                        !.pointer = IF @ = NULL THEN NULL ELSE FREED]
  /\ UNCHANGED <<group_num, bitmap, table, entries, left, iterator>>

(* The old table is freed, and with it the entry that an insertion returns. *)
EndRehash ==
  /\ pc = "rehash"
  /\ left = {}
  /\ pc' = "ready"
  /\ old_table' = JunkTable(0)
  /\ iterator' = [iterator EXCEPT !.iter_state = FALSE]
  /\ ret' = [ret EXCEPT !.code = HASH_OK,
                        !.pointer = IF @ = NULL THEN NULL ELSE FREED]
  /\ UNCHANGED <<group_num, bitmap, table, entries, left>>

-----------------------------------------------------------------------------
Lifetime == (\E hint \in Hints : Create(hint) \/ CreateFails(hint)) \/ Free

Call ==
  \/ WrongArgument
  \/ \E k \in Keys : Search(k) \/ DeleteExisting(k) \/ DeleteMissing(k) \/ Hang(k)
  \/ \E k \in Keys, e \in Entries :
       \/ InsertExisting(k, e)
       \/ EmplaceExisting(k, e)
       \/ \E op \in {"insert", "emplace"} : InsertNew(op, k, e)

ResizeStep == ResizeFails \/ StartRehash \/ MovePair \/ EndRehash

Next == Lifetime \/ Call \/ ResizeStep \/ Spin

Spec == Init /\ [][Next]_vars

-----------------------------------------------------------------------------
IterType ==
  [iter_state     : BOOLEAN,
   cur_group      : {JUNK} \cup Int,
   cur_group_mask : {JUNK} \cup SUBSET Positions]

Operations == {"none", "create", "free", "wrong", "search", "insert", "emplace", "delete"}

RetType ==
  [op      : Operations,
   key     : Keys \cup {NULL},
   hit     : BOOLEAN,
   code    : 0 .. 5,
   pointer : {NULL, FREED} \cup (Nat \X Positions)]

(* Types of the table. *)
MemoryOK ==
  /\ pc \in {"null", "ready", "grow", "shrink", "rehash", "hung"}
  /\ group_num \in Nat
  /\ bitmap \in [Groups -> [Positions -> Ctrl]]
  /\ table \in [Groups -> [Positions -> Pairs \cup {JUNK}]]
  /\ entries \in Int
  /\ old_table \in [DOMAIN old_table -> [Positions -> Pairs \cup {JUNK}]]
  /\ left \in SUBSET ((DOMAIN old_table) \X Positions)

(* Types of all variables. *)
TypeOK == MemoryOK /\ iterator \in IterType /\ ret \in RetType

(***************************************************************************)
(* The code takes an index & (group_num - 1), which is % group_num only    *)
(* for a power of two.                                                     *)
(***************************************************************************)
MaskingIsModulo == group_num # 0 => IsPowerOfTwo(group_num)

(***************************************************************************)
(* A key that is stored is found: the probe of the key reaches its slot    *)
(* and no empty slot, tombstone handling or resize has cut it off.         *)
(***************************************************************************)
StoredKeyIsFound ==
  \A s \in UsedSlots : FindsAt(table[s[1]][s[2]].key, s[1], s[2])

(***************************************************************************)
(* No key is stored twice, neither in the table nor in what a resize has   *)
(* yet to copy, so that a resize may insert without a search.              *)
(***************************************************************************)
KeysStoredOnce ==
  LET KeyAt(s)    == table[s[1]][s[2]].key
      OldKeyAt(s) == old_table[s[1]][s[2]].key
  IN /\ \A s, t \in UsedSlots : KeyAt(s) = KeyAt(t) => s = t
     /\ \A s, t \in left : OldKeyAt(s) = OldKeyAt(t) => s = t
     /\ \A s \in UsedSlots, t \in left : KeyAt(s) # OldKeyAt(t)

(* The counter that decides about resizes counts the pairs of the table. *)
EntriesCounted == entries = Cardinality(UsedSlots)

(***************************************************************************)
(* The dictionary that a table stands for, and its promise.                *)
(***************************************************************************)
Contents ==
  {table[s[1]][s[2]] : s \in UsedSlots} \cup {old_table[s[1]][s[2]] : s \in left}

EntryOf(k) ==
  IF \E pair \in Contents : pair.key = k
  THEN (CHOOSE pair \in Contents : pair.key = k).entry
  ELSE NULL

Answer ==
  CASE ret.op = "search" /\ ret.pointer = NULL -> <<ret.key, NULL>>
    [] ret.op = "search" /\ ret.pointer # NULL ->
         <<ret.key, table[ret.pointer[1]][ret.pointer[2]].entry>>
    [] ret.op = "insert"                       -> <<ret.key, ret.hit>>
    [] OTHER                                   -> NULL

Dictionary == INSTANCE HashMap
  WITH map <- [k \in Keys |-> EntryOf(k)], res <- Answer, NoEntry <- NULL

ImplementsHashMap == Dictionary!Spec

(* A rehash ends with a table whose load is within the upper limit. *)
RehashLeavesRoom ==
  [][pc = "rehash" /\ pc' = "ready" => entries' <= UPPER_LIMIT(Capacity')]_vars

(* The executions in which every resize gets its memory. *)
AllocationsSucceed == [][~ResizeFails]_vars

(***************************************************************************)
(* As long as malloc does not fail, the load is within the upper limit     *)
(* between calls (ht_flat_insert, ht_flat_emplace and ht_flat_delete).     *)
(***************************************************************************)
LoadWithinLimit == pc = "ready" => entries <= UPPER_LIMIT(Capacity)

(***************************************************************************)
(* README.md:39: insertion of a key that exists "returns the existing      *)
(* entry"; lookups do, too.  What a call returns is a pair of the table as *)
(* the call leaves it.  It fails when an earlier call could not resize:    *)
(* then the insertion itself resizes and returns a pointer into memory     *)
(* that the resize has freed.                                              *)
(***************************************************************************)
ReturnedEntryIsLive == pc = "ready" /\ ret.pointer # NULL => ret.pointer \in UsedSlots

(***************************************************************************)
(* What holds of the pointer whatever fails: it is the slot of the key     *)
(* asked for, in the table as the call leaves it, or it is that of an      *)
(* insertion which found its key and grew.  A lookup, and an insertion     *)
(* whose growth fails, return a pointer that can be used.                  *)
(***************************************************************************)
PointerIsOfKeyOrFreed ==
  pc = "ready" /\ ret.pointer # NULL =>
    \/ ret.pointer \in UsedSlots /\ table[ret.pointer[1]][ret.pointer[2]].key = ret.key
    \/ ret.pointer = FREED /\ ret.op = "insert" /\ ret.hit

(***************************************************************************)
(* What the code of a call says about the load, however many resizes have  *)
(* failed before: an insertion or emplacement is OK just when it leaves    *)
(* the table within its limit, and a deletion reports lack of memory only  *)
(* for a table that is still to be made smaller.                           *)
(***************************************************************************)
CodeTellsLoad ==
  pc = "ready" =>
    /\ ret.op \in {"insert", "emplace"} => (ret.code = HASH_OK <=> entries <= UPPER_LIMIT(Capacity))
    /\ ret.op = "delete" /\ ret.code = HASH_REHASH_MEM_ALLOC =>
         entries < LOWER_LIMIT(Capacity) /\ group_num # 2

(***************************************************************************)
(* flat_sparse_hashtable.h:129: a lookup "in failure ... returns NULL".    *)
(* It fails on a table whose slots are all in use or tombstones: the probe *)
(* stops only at an empty slot and tombstones are not part of the load.    *)
(***************************************************************************)
NeverHangs == pc # "hung"

(* A probe that does not stop has looked at every group: none has an empty slot. *)
HungTableHasNoEmptySlot == pc = "hung" => \A g \in Groups : ~HasEmpty(bitmap[g])

(***************************************************************************)
(* As long as malloc does not fail, only tombstones make probes hang, and  *)
(* it takes as many of them as a table at its limit has slots left: an     *)
(* eighth of all.  A client that never deletes is always answered.         *)
(***************************************************************************)
OnlyTombstonesHang == pc = "hung" => Cardinality(Tombstones) >= Capacity - UPPER_LIMIT(Capacity)

(***************************************************************************)
(* The inductive invariant of the proofs.  In an iteration before the one  *)
(* that reaches the slot of a key, the probe of that key meets other        *)
(* groups without an empty slot; that is what no operation undoes, since a *)
(* deletion makes an empty slot only in a group that has one.              *)
(***************************************************************************)
Reachable(k, g) ==
  \E j \in Groups :
    /\ ProbeGroup(k, j, group_num) = g
    /\ \A i \in 0 .. (j - 1) :
         /\ ProbeGroup(k, i, group_num) # g
         /\ ~HasEmpty(bitmap[ProbeGroup(k, i, group_num)])

SlotIsSound(g, p) ==
  /\ table[g][p] \in Pairs
  /\ bitmap[g][p] = H2(table[g][p].key)
  /\ Reachable(table[g][p].key, g)

SlotsAreSound == \A s \in UsedSlots : SlotIsSound(s[1], s[2])

(* A table has two groups at least, and is not made smaller. *)
SizeInv ==
  /\ pc = "null" <=> group_num = 0
  /\ pc # "null" => group_num > 1 /\ IsPowerOfTwo(group_num)
  /\ pc = "shrink" => group_num # 2

OldTableInv ==
  /\ pc # "rehash" => left = {}
  /\ \A s \in left : old_table[s[1]][s[2]] \in Pairs

TableInv ==
  MemoryOK /\ SizeInv /\ SlotsAreSound /\ OldTableInv /\ KeysStoredOnce /\ EntriesCounted

IndInv == TypeOK /\ TableInv

(***************************************************************************)
(* The program runs on: a resize that was begun is taken further.          *)
(***************************************************************************)
FairSpec == Spec /\ WF_vars(ResizeStep)

(* Every resize returns, so that its call does. *)
ResizeReturns == pc \in {"grow", "shrink", "rehash"} ~> pc = "ready"

=============================================================================
