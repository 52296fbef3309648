--------------------------- MODULE NodeHashtable ---------------------------
(***************************************************************************)
(* The node table of node_sparse_hashtable.c, one call at a time.          *)
(*                                                                         *)
(* It probes as the flat table does, whose operators are taken from        *)
(* FlatHashtable, but it stores references: an object is a key together    *)
(* with its entry, allocated by the client, owned by the table from a      *)
(* successful insertion to the call of the client's destructor.  The       *)
(* destructor runs in a step of its own, so that what it can see of the    *)
(* table is a state.                                                       *)
(***************************************************************************)
EXTENDS SwissCommon

CONSTANTS
  Objects,           \* <key, entry> references of the client
  KeyOf,             \* the key of every object, as the comparator sees it
  Hints,             \* the sizes a client passes to ht_node_create
  MAX_GROUPS,        \* malloc fails for every table of more groups
  MallocMayFail,     \* whether malloc may fail for smaller ones, too
  NULL,              \* the null pointer
  FREED,             \* for FlatHashtable, not used here
  JUNK               \* what malloc returns, before it is written

ASSUME NodeAssumption ==
  /\ KeyOf \in [Objects -> Keys]
  /\ Hints \subseteq Nat
  /\ MAX_GROUPS \in Nat
  /\ MallocMayFail \in BOOLEAN
  /\ \A x \in {NULL, FREED} : x \notin (Nat \X Nat) \cup [key : Keys, entry : Objects]
  /\ NULL # FREED /\ NULL \notin Objects

VARIABLES
  pc,         \* what the library is doing
  group_num,  \* number of groups, 0 without a table
  bitmap,     \* control bytes, by group and position
  table,      \* references to key and entry, by group and position
  entries,    \* the counter of stored objects
  old_table,  \* the table that a resize copies from
  left,       \* the slots that a resize or ht_node_free has yet to take
  iterator,   \* the iterator inside the structure
  ret,        \* what the current call returns, or the last one returned
  owner       \* who has to free an object: the client or the table

memory == <<group_num, bitmap, table, entries, old_table, left>>
vars   == <<pc, memory, iterator, ret, owner>>

(***************************************************************************)
(* The probe loops.  SPARSE_LIN_PROBE is TRUE: without the macro this file *)
(* never increments probe_step, which makes its other probe linear, too.   *)
(***************************************************************************)
T == INSTANCE FlatHashtable WITH Entries <- Objects, SPARSE_LIN_PROBE <- TRUE

Pair(o)      == [key |-> KeyOf[o], entry |-> o]
NullTable(n) == [g \in 0 .. (n - 1) |-> [p \in Positions |-> NULL]]

(* arg is the key of a lookup, the object of an insertion or the one that a deletion destroys. *)
Result(op, arg, code, pointer) ==
  [op |-> op, arg |-> arg, code |-> code, pointer |-> pointer]

NoIterator == [iter_state |-> FALSE, cur_group |-> JUNK, cur_group_mask |-> JUNK]

(* _ht_node_search stops at slot s. *)
FindsAt(k, s) == T!FindsAt(k, s[1], s[2])

EntryAt(s) == table[s[1]][s[2]].entry

(* _ht_node_insert without a search. *)
Store(o) == \E g \in T!Groups, p \in Positions : T!FreeAt(KeyOf[o], g, p) /\ T!Put(Pair(o), g, p)

(***************************************************************************)
(* The client's destructor.  What it has destroyed is the client's to      *)
(* allocate again; an object that is not the table's to destroy is broken. *)
(***************************************************************************)
Destruct(o) == owner' = [owner EXCEPT ![o] = IF @ = "table" THEN "client" ELSE "broken"]

-----------------------------------------------------------------------------
Init ==
  /\ pc = "null"
  /\ group_num = 0
  /\ bitmap = T!EmptyBitmap(0)
  /\ table = NullTable(0)
  /\ entries = 0
  /\ old_table = NullTable(0)
  /\ left = {}
  /\ iterator = NoIterator
  /\ ret = Result("none", NULL, T!HASH_OK, NULL)
  /\ owner = [o \in Objects |-> "client"]

(* ht_node_create *)
Create(hint) ==
  LET n == InitialGroups(hint) IN
  /\ pc = "null"
  /\ hint > 0
  /\ T!CanAllocate(n)
  /\ pc' = "ready"
  /\ group_num' = n
  /\ bitmap' = T!EmptyBitmap(n)
  /\ table' = NullTable(n)
  /\ entries' = 0
  /\ iterator' = NoIterator
  /\ ret' = Result("create", NULL, T!HASH_OK, NULL)
  /\ UNCHANGED <<old_table, left, owner>>

CreateFails(hint) ==
  /\ pc = "null"
  /\ \/ /\ hint = 0
        /\ ret' = Result("create", NULL, T!HASH_WRONG_ARGUMENT, NULL)
     \/ /\ hint > 0
        /\ T!CanFail(InitialGroups(hint))
        /\ ret' = Result("create", NULL, T!HASH_CREATE_MEM_ALLOC, NULL)
  /\ UNCHANGED <<pc, memory, iterator, owner>>

(* ht_node_insert or ht_node_delete with a NULL argument. *)
WrongArgument ==
  /\ pc = "ready"
  /\ ret' = Result("wrong", NULL, T!HASH_WRONG_ARGUMENT, NULL)
  /\ UNCHANGED <<pc, memory, iterator, owner>>

(* ht_node_search *)
Search(k) ==
  /\ pc = "ready"
  /\ \/ \E s \in T!UsedSlots : FindsAt(k, s) /\ ret' = Result("search", k, T!HASH_OK, EntryAt(s))
     \/ T!Misses(k) /\ ret' = Result("search", k, T!HASH_OK, NULL)
  /\ UNCHANGED <<pc, memory, iterator, owner>>

-----------------------------------------------------------------------------
(* Fault: the object that is there is replaced and destroyed, and returned. *)
InsertExistingReplaces(o) ==
  /\ pc = "ready"
  /\ owner[o] = "client"
  /\ \E s \in T!UsedSlots :
       /\ FindsAt(KeyOf[o], s)
       /\ table' = [table EXCEPT ![s[1]][s[2]] = Pair(o)]
       /\ owner' = [owner EXCEPT ![o] = "table", ![EntryAt(s)] = "client"]
       /\ ret' = Result("insert", o, T!HASH_OK, EntryAt(s))
  /\ UNCHANGED <<group_num, bitmap, entries, old_table, left, iterator>>
  /\ T!CheckUpper

(* ht_node_insert of an object whose key is there: the client keeps its object. *)
InsertExisting(o) ==
  /\ pc = "ready"
  /\ owner[o] = "client"
  /\ \E s \in T!UsedSlots :
       FindsAt(KeyOf[o], s) /\ ret' = Result("insert", o, T!HASH_OK, EntryAt(s))
  /\ UNCHANGED <<memory, iterator, owner>>
  /\ T!CheckUpper

(* ht_node_insert of an object whose key is not there. *)
InsertNew(o) ==
  /\ pc = "ready"
  /\ owner[o] = "client"
  /\ T!Misses(KeyOf[o])
  /\ Store(o)
  /\ owner' = [owner EXCEPT ![o] = "table"]
  /\ ret' = Result("insert", o, T!HASH_OK, NULL)
  /\ UNCHANGED <<group_num, old_table, left, iterator>>
  /\ T!CheckUpper

(* Fault: the destructor is called for a slot that is still in use. *)
DeleteExistingDestructsFirst(k) ==
  /\ pc = "ready"
  /\ \E s \in T!UsedSlots :
       /\ FindsAt(k, s)
       /\ Destruct(EntryAt(s))
       /\ ret' = Result("delete", EntryAt(s), T!HASH_OK, NULL)
  /\ pc' = "destruct"
  /\ UNCHANGED <<memory, iterator>>

(* _ht_node_delete of a key that is there, up to the call of the destructor. *)
DeleteExisting(k) ==
  /\ pc = "ready"
  /\ \E s \in T!UsedSlots :
       /\ FindsAt(k, s)
       /\ bitmap' = [bitmap EXCEPT ![s[1]][s[2]] = T!Tombstone(s[1])]
       /\ Destruct(EntryAt(s))
       /\ ret' = Result("delete", EntryAt(s), T!HASH_OK, NULL)
  /\ pc' = "destruct"
  /\ UNCHANGED <<group_num, table, entries, old_table, left, iterator>>

(* The destructor returns, and the counter is adjusted. *)
DestructReturns ==
  /\ pc = "destruct"
  /\ entries' = entries - 1
  /\ UNCHANGED <<group_num, bitmap, table, old_table, left, iterator, ret, owner>>
  /\ T!CheckLower

DeleteMissing(k) ==
  /\ pc = "ready"
  /\ T!Misses(k)
  /\ ret' = Result("delete", NULL, T!HASH_ENTRY_NOT_EXISTS, NULL)
  /\ UNCHANGED <<memory, iterator, owner>>
  /\ T!CheckLower

(* A search, insertion or deletion whose probe never stops. *)
Hang(k) ==
  /\ pc = "ready"
  /\ T!Spins(k)
  /\ pc' = "hung"
  /\ UNCHANGED <<memory, iterator, ret, owner>>

Spin == pc = "hung" /\ UNCHANGED vars

-----------------------------------------------------------------------------
(* _ht_node_resize *)
ResizeFails ==
  /\ pc \in {"grow", "shrink"}
  /\ T!CanFail(T!NewGroups)
  /\ pc' = "ready"
  /\ ret' = [ret EXCEPT !.code = T!HASH_REHASH_MEM_ALLOC]
  /\ UNCHANGED <<memory, iterator, owner>>

(* The iterator is made invalid before the first object is moved. *)
StartRehash ==
  /\ pc \in {"grow", "shrink"}
  /\ T!CanAllocate(T!NewGroups)
  /\ pc' = "rehash"
  /\ group_num' = T!NewGroups
  /\ bitmap' = T!EmptyBitmap(T!NewGroups)
  /\ table' = NullTable(T!NewGroups)
  /\ entries' = 0
  /\ old_table' = table
  /\ left' = T!UsedSlots
  /\ iterator' = [iterator EXCEPT !.iter_state = FALSE]
  /\ UNCHANGED <<ret, owner>>

(* Fault: the loop goes on to the next group after one object. *)
MovePairOnePerGroup ==
  /\ pc = "rehash"
  /\ \E s \in left :
       /\ T!IsNextToMove(s)
       /\ left' = {t \in left : t[1] # s[1]}
       /\ Store(old_table[s[1]][s[2]].entry)
  /\ UNCHANGED <<pc, group_num, old_table, iterator, ret, owner>>

MovePair ==
  /\ pc = "rehash"
  /\ \E s \in left :
       /\ T!IsNextToMove(s)
       /\ left' = left \ {s}
       /\ Store(old_table[s[1]][s[2]].entry)
  /\ UNCHANGED <<pc, group_num, old_table, iterator, ret, owner>>

EndRehash ==
  /\ pc = "rehash"
  /\ left = {}
  /\ pc' = "ready"
  /\ old_table' = NullTable(0)
  /\ ret' = [ret EXCEPT !.code = T!HASH_OK]
  /\ UNCHANGED <<group_num, bitmap, table, entries, left, iterator, owner>>

-----------------------------------------------------------------------------
(* ht_node_free: the destructor is called for every slot in use, in order. *)
BeginFree ==
  /\ pc = "ready"
  /\ pc' = "free"
  /\ left' = T!UsedSlots
  /\ ret' = Result("free", NULL, T!HASH_OK, NULL)
  /\ UNCHANGED <<group_num, bitmap, table, entries, old_table, iterator, owner>>

(* Fault: the slot is not taken off the mask before the next turn of the loop. *)
FreePairAgain ==
  /\ pc = "free"
  /\ \E s \in left : T!IsNextToMove(s) /\ Destruct(EntryAt(s))
  /\ UNCHANGED <<pc, memory, iterator, ret>>

FreePair ==
  /\ pc = "free"
  /\ \E s \in left :
       /\ T!IsNextToMove(s)
       /\ left' = left \ {s}
       /\ Destruct(EntryAt(s))
  /\ UNCHANGED <<pc, group_num, bitmap, table, entries, old_table, iterator, ret>>

EndFree ==
  /\ pc = "free"
  /\ left = {}
  /\ pc' = "null"
  /\ group_num' = 0
  /\ bitmap' = T!EmptyBitmap(0)
  /\ table' = NullTable(0)
  /\ entries' = 0
  /\ iterator' = NoIterator
  /\ UNCHANGED <<old_table, left, ret, owner>>

-----------------------------------------------------------------------------
Call ==
  \/ \E hint \in Hints : Create(hint) \/ CreateFails(hint)
  \/ BeginFree
  \/ WrongArgument
  \/ \E k \in Keys : Search(k) \/ DeleteExisting(k) \/ DeleteMissing(k) \/ Hang(k)
  \/ \E o \in Objects : InsertExisting(o) \/ InsertNew(o)

(* What a call that has begun does until it returns. *)
GoOn ==
  \/ DestructReturns
  \/ ResizeFails \/ StartRehash \/ MovePair \/ EndRehash
  \/ FreePair \/ EndFree

Next == Call \/ GoOn \/ Spin

Spec == Init /\ [][Next]_vars

(***************************************************************************)
(* The program runs on and the client's destructor returns.                *)
(***************************************************************************)
FairSpec == Spec /\ WF_vars(GoOn)

-----------------------------------------------------------------------------
RetType ==
  [op      : {"none", "create", "free", "wrong", "search", "insert", "delete"},
   arg     : Keys \cup Objects \cup {NULL},
   code    : 0 .. 5,
   pointer : Objects \cup {NULL}]

(* Types of the variables. *)
TypeOK ==
  /\ pc \in {"null", "ready", "destruct", "grow", "shrink", "rehash", "free", "hung"}
  /\ group_num \in Nat
  /\ bitmap \in [T!Groups -> [Positions -> Ctrl]]
  /\ table \in [T!Groups -> [Positions -> T!Pairs \cup {NULL}]]
  /\ entries \in Nat
  /\ old_table \in [DOMAIN old_table -> [Positions -> T!Pairs \cup {NULL}]]
  /\ ret \in RetType
  /\ owner \in [Objects -> {"client", "table", "broken"}]

(* The objects the table can reach: slots in use, and those a resize or free has left. *)
Held ==
  CASE pc = "free"   -> {EntryAt(s) : s \in left}
    [] pc = "rehash" -> {EntryAt(s) : s \in T!UsedSlots}
                          \cup {old_table[s[1]][s[2]].entry : s \in left}
    [] OTHER         -> {EntryAt(s) : s \in T!UsedSlots}

(***************************************************************************)
(* The table refers to the objects it owns and to no other: an object is   *)
(* neither leaked by a resize, a deletion or ht_node_free, nor destroyed   *)
(* while it is stored.                                                     *)
(***************************************************************************)
OwnedIsHeld == \A o \in Objects : owner[o] = "table" <=> o \in Held

(* The destructor is called for what the table owns only, and so once at most. *)
DestroyedOnce == \A o \in Objects : owner[o] # "broken"

(***************************************************************************)
(* When the destructor of a deletion runs, a probe no longer reaches the   *)
(* object that dies, though entries still counts it.                       *)
(***************************************************************************)
DyingIsUnreachable ==
  pc = "destruct" =>
    /\ \A g \in T!Groups, p \in Positions : ~T!FindsAt(KeyOf[ret.arg], g, p)
    /\ entries = Cardinality(T!UsedSlots) + 1

(***************************************************************************)
(* The pointer that a lookup or an insertion returns refers to an object   *)
(* of the table, also when the call has resized the table.                 *)
(***************************************************************************)
ReturnedIsOwned == pc = "ready" /\ ret.pointer # NULL => owner[ret.pointer] = "table"

(***************************************************************************)
(* How a client can tell who has to free the object that it has inserted:  *)
(* by the pointer, whatever the code says and whatever resizes came after. *)
(* With a pointer to the object of the same key that was there, its own is *)
(* still its own.                                                          *)
(***************************************************************************)
PointerTellsOwner ==
  pc = "ready" /\ ret.op = "insert" =>
    /\ owner[ret.arg] = "table" <=> ret.pointer = NULL
    /\ ret.pointer # NULL => KeyOf[ret.pointer] = KeyOf[ret.arg]

(***************************************************************************)
(* README.md:39: "If the return is NULL, then the error code denotes the   *)
(* status of the operation with 0 being success".  It fails when the table *)
(* cannot grow: the object is stored, and owned by the table, but the code *)
(* is HASH_REHASH_MEM_ALLOC.                                               *)
(***************************************************************************)
ErrorMeansNotStored ==
  pc = "ready" /\ ret.op = "insert" /\ ret.pointer = NULL /\ ret.code # T!HASH_OK =>
    owner[ret.arg] = "client"

(***************************************************************************)
(* The dictionary a node table stands for, emptied by the call of          *)
(* ht_node_free.                                                           *)
(***************************************************************************)
ObjectOf(k) ==
  IF pc # "free" /\ \E o \in Held : KeyOf[o] = k THEN CHOOSE o \in Held : KeyOf[o] = k ELSE NULL

Answer ==
  CASE ret.op = "search" -> <<ret.arg, ret.pointer>>
    [] ret.op = "insert" -> <<KeyOf[ret.arg], ret.pointer # NULL>>
    [] OTHER             -> NULL

Dictionary == INSTANCE HashMap
  WITH Entries <- Objects, map <- [k \in Keys |-> ObjectOf(k)], res <- Answer, NoEntry <- NULL

ImplementsHashMap == Dictionary!Spec

(* Every call comes to its end, unless its probe never stops. *)
CallsReturn ==
  pc \in {"destruct", "grow", "shrink", "rehash", "free"} ~> pc \in {"ready", "null"}

=============================================================================
