----------------------- MODULE NodeHashtable_proofs -----------------------
(***************************************************************************)
(* Theorems about the node table, for all keys, objects, hashes and sizes. *)
(*                                                                         *)
(* Its memory is that of a flat table whose entries are objects.  F is the *)
(* flat table that it amounts to: while the destructor of a deletion runs, *)
(* the counter of F is already adjusted, and F does not know about the     *)
(* destructor calls of ht_node_free.  What a call returns and the iterator *)
(* are left out of F.                                                      *)
(***************************************************************************)
EXTENDS NodeHashtable, FiniteSetTheorems, TLAPS

FlatPc      == IF pc \in {"destruct", "free"} THEN "ready" ELSE pc
FlatEntries == IF pc = "destruct" THEN entries - 1 ELSE entries
FlatLeft    == IF pc = "free" THEN {} ELSE left
NoFlatWalk  == [iter_state |-> FALSE, cur_group |-> NULL, cur_group_mask |-> NULL]
NoResult    == [op |-> "none", key |-> NULL, hit |-> FALSE, code |-> 0, pointer |-> NULL]

F == INSTANCE FlatHashtable_proofs
  WITH Entries <- Objects, SPARSE_LIN_PROBE <- TRUE, JUNK <- NULL,
       pc <- FlatPc, entries <- FlatEntries, left <- FlatLeft,
       iterator <- NoFlatWalk, ret <- NoResult

(* What FlatHashtable_proofs assumes of its constants holds of those of F. *)
LEMMA FlatAssumptionHolds ==
  /\ Hash \in [Keys -> Nat]
  /\ GROUP_SIZE \in Nat \ {0} /\ F!IsPowerOfTwo(GROUP_SIZE)
  /\ UPPER_DIV \in Nat \ {0}
  /\ Hints \subseteq Nat
  /\ TRUE \in BOOLEAN
  /\ MAX_GROUPS \in Nat
  /\ MallocMayFail \in BOOLEAN
  /\ \A x \in {NULL, FREED, NULL} : x \notin (Nat \X Nat) \cup [key : Keys, entry : Objects]
  /\ NULL # FREED /\ NULL \notin Objects
BY CommonAssumption, NodeAssumption DEF IsPowerOfTwo, F!IsPowerOfTwo

(***************************************************************************)
(* The operators of FlatHashtable that NodeHashtable uses are those of F.  *)
(***************************************************************************)
LEMMA SameSlots ==
  /\ F!Positions = Positions /\ F!Ctrl = Ctrl
  /\ T!Groups = F!Groups /\ T!UsedSlots = F!UsedSlots /\ T!Pairs = F!Pairs
  /\ T!Capacity = F!Capacity
BY DEF T!Groups, F!Groups, T!UsedSlots, F!UsedSlots, T!Pairs, F!Pairs, T!Capacity, F!Capacity,
       T!ValidMask, F!ValidMask, T!AndMask, F!AndMask, T!HIGH_BIT_MASK, F!HIGH_BIT_MASK,
       Positions, T!Positions, F!Positions,
       Ctrl, F!Ctrl, Tags, F!Tags, ENTRY_EMPTY, F!ENTRY_EMPTY, ENTRY_DELETED, F!ENTRY_DELETED

LEMMA SameCount ==
  \A S : (F!IsFiniteSet(S) <=> IsFiniteSet(S)) /\ F!Cardinality(S) = Cardinality(S)
BY DEF F!Cardinality, Cardinality, F!IsFiniteSet, IsFiniteSet

LEMMA SameProbes ==
  ASSUME NEW k, NEW g, NEW p
  PROVE  /\ T!FindsAt(k, g, p) <=> F!FindsAt(k, g, p)
         /\ T!FreeAt(k, g, p) <=> F!FreeAt(k, g, p)
         /\ T!Misses(k) <=> F!Misses(k)
         /\ T!Tombstone(g) = F!Tombstone(g)
BY DEF T!FindsAt, F!FindsAt, T!FreeAt, F!FreeAt, T!Misses, F!Misses, T!ProbeGroup, F!ProbeGroup,
       T!H1, F!H1, T!H2, F!H2, T!Groups, F!Groups, T!PassesBy, F!PassesBy, T!Matches, F!Matches,
       T!HasEmpty, F!HasEmpty, T!EqMask, F!EqMask, T!AndMask, F!AndMask,
       T!IsFirstSetBit, F!IsFirstSetBit, T!Positions, F!Positions,
       T!ENTRY_EMPTY, F!ENTRY_EMPTY, T!ENTRY_DELETED, F!ENTRY_DELETED,
       T!HIGH_BIT_MASK, F!HIGH_BIT_MASK, T!Tombstone, F!Tombstone


-----------------------------------------------------------------------------
(***************************************************************************)
(* The inductive invariant: F is sound; a slot refers to an object with    *)
(* the key of the slot; the objects that can be reached are those that the *)
(* table owns; and what is known in the middle of a call.                  *)
(***************************************************************************)
RefersTo(pair) == pair.entry \in Objects /\ pair = Pair(pair.entry)

RefsInv ==
  /\ \A s \in T!UsedSlots : RefersTo(table[s[1]][s[2]])
  /\ pc = "rehash" => \A s \in left : RefersTo(old_table[s[1]][s[2]])

CallInv ==
  /\ pc \in {"null", "ready", "destruct", "grow", "shrink", "rehash", "free", "hung"}
  /\ entries \in Int
  /\ pc \notin {"rehash", "free"} => left = {}
  /\ pc = "free" => left \subseteq T!UsedSlots
  /\ pc = "destruct" =>
       /\ ret.arg \in Objects
       /\ \A s \in T!UsedSlots : table[s[1]][s[2]].key # KeyOf[ret.arg]

OwnerInv ==
  /\ owner \in [Objects -> {"client", "table"}]
  /\ OwnedIsHeld

NodeInv == F!TableInv /\ RefsInv /\ CallInv /\ OwnerInv

(* What a call returns: the iterator, whose results these are not, does not disturb NodeInv. *)
ResultInv ==
  /\ ret \in RetType
  /\ pc \in {"ready", "grow", "shrink", "rehash"} /\ ret.pointer # NULL =>
       owner[ret.pointer] = "table"
  /\ pc = "destruct" => ret.pointer = NULL

Stored == {EntryAt(s) : s \in T!UsedSlots}

LEMMA PairParts ==
  ASSUME NEW pair, RefersTo(pair)
  PROVE  pair.entry \in Objects /\ pair.key = KeyOf[pair.entry]
BY DEF RefersTo, Pair

LEMMA HeldIsStored ==
  ASSUME pc \notin {"free", "rehash"}
  PROVE  Held = Stored
BY DEF Held, Stored

(* Different slots refer to different objects, since they have different keys. *)
LEMMA EntriesDistinct ==
  ASSUME NodeInv, NEW s \in T!UsedSlots, NEW t \in T!UsedSlots, EntryAt(s) = EntryAt(t)
  PROVE  s = t
<1>1. table[s[1]][s[2]].key = table[t[1]][t[2]].key
  BY DEF NodeInv, RefsInv, RefersTo, EntryAt, Pair
<1>2. QED
  BY <1>1, SameSlots DEF NodeInv, F!TableInv, F!KeysStoredOnce

(* A search that stops, stops at an object of the table with the key. *)
LEMMA FoundIsOwned ==
  ASSUME NodeInv, pc = "ready", NEW k \in Keys, NEW s \in T!UsedSlots, FindsAt(k, s)
  PROVE  /\ EntryAt(s) \in Objects /\ EntryAt(s) # NULL /\ owner[EntryAt(s)] = "table"
         /\ KeyOf[EntryAt(s)] = k
         /\ s[1] \in T!Groups /\ s[2] \in Positions /\ s = <<s[1], s[2]>>
<1>1. s[1] \in T!Groups /\ s[2] \in Positions /\ s = <<s[1], s[2]>>
  BY SameSlots DEF F!UsedSlots
<1>2. table[s[1]][s[2]].key = k
  BY <1>1, SameSlots, SameProbes, FlatAssumptionHolds, F!FoundIsUsed DEF FindsAt, NodeInv, F!TableInv
<1>3. RefersTo(table[s[1]][s[2]])
  BY DEF NodeInv, RefsInv
<1>4. EntryAt(s) \in Objects /\ KeyOf[EntryAt(s)] = k
  BY <1>2, <1>3 DEF RefersTo, Pair, EntryAt
<1>5. EntryAt(s) \in Held
  BY HeldIsStored DEF Stored
<1>6. QED
  BY <1>1, <1>4, <1>5, NodeAssumption DEF NodeInv, OwnerInv, OwnedIsHeld

(* A step that leaves the table alone. *)
LEMMA QuietNode ==
  ASSUME NodeInv, UNCHANGED <<memory, owner>>, pc \notin {"rehash", "free", "destruct"},
         pc' \in {"null", "ready", "grow", "shrink", "hung"},
         pc' = "null" <=> pc = "null", pc' = "shrink" => group_num # 2
  PROVE  NodeInv'
<1>1. UNCHANGED <<group_num, bitmap, table, entries, old_table, left, owner>>
  BY DEF memory
<1>2. T!UsedSlots' = T!UsedSlots
  BY <1>1 DEF T!UsedSlots, T!Groups
<1>3. F!TableInv'
  <2>1. UNCHANGED F!memory
    BY <1>1 DEF F!memory, FlatEntries, FlatLeft
  <2>2. /\ FlatPc' \in {"null", "ready", "grow", "shrink", "hung"}
        /\ FlatPc # "rehash" /\ (FlatPc' = "null" <=> FlatPc = "null")
        /\ FlatPc' = "shrink" => group_num # 2
    BY DEF FlatPc, NodeInv, CallInv
  <2>3. QED
    BY <2>1, <2>2, FlatAssumptionHolds, F!QuietStep DEF NodeInv
<1>4. RefsInv' /\ CallInv'
  BY <1>1, <1>2 DEF NodeInv, RefsInv, CallInv
<1>5. OwnerInv'
  <2>1. Held' = Held
    BY <1>1, <1>2 DEF Held, EntryAt
  <2>2. QED
    BY <1>1, <2>1 DEF NodeInv, OwnerInv, OwnedIsHeld
<1>6. QED
  BY <1>3, <1>4, <1>5 DEF NodeInv

LEMMA InitIsSound ==
  ASSUME Init
  PROVE  NodeInv
<1>1. T!UsedSlots = {}
  BY DEF Init, T!UsedSlots, T!Groups
<1>2. F!TableInv
  <2>1. F!Init
    BY DEF Init, F!Init, T!EmptyBitmap, F!EmptyBitmap, NullTable, F!JunkTable, NoFlatWalk, NoResult,
           F!Result, F!HASH_OK, FlatPc, FlatEntries, FlatLeft, T!Positions, F!Positions, Positions,
           T!ENTRY_EMPTY, F!ENTRY_EMPTY
  <2>2. QED
    BY <2>1, FlatAssumptionHolds, F!InitIsSound
<1>3. RefsInv /\ CallInv
  BY <1>1 DEF Init, RefsInv, CallInv
<1>4. OwnerInv
  BY <1>1 DEF Init, OwnerInv, OwnedIsHeld, Held
<1>5. QED
  BY <1>2, <1>3, <1>4 DEF NodeInv

(* An empty table, at the creation and when ht_node_free is done. *)
LEMMA NewTable ==
  ASSUME NodeInv, Held = {}, pc' \in {"null", "ready"},
         group_num' \in Nat, pc' = "null" <=> group_num' = 0,
         pc' = "ready" => group_num' > 1 /\ IsPowerOfTwo(group_num'),
         bitmap' = T!EmptyBitmap(group_num'), table' = NullTable(group_num'),
         entries' = 0, left' = {}, UNCHANGED <<old_table, owner>>
  PROVE  NodeInv'
<1>1. /\ bitmap' \in [F!Groups' -> [F!Positions -> F!Ctrl]]
      /\ table' \in [F!Groups' -> [F!Positions -> F!Pairs \cup {NULL}]]
      /\ F!SlotsAreSound' /\ F!KeysStoredOnce' /\ F!EntriesCounted'
      /\ F!UsedSlots' = {}
  <2>1. bitmap' = F!EmptyBitmap(group_num') /\ table' = F!JunkTable(group_num')
    BY DEF T!EmptyBitmap, F!EmptyBitmap, NullTable, F!JunkTable,
           T!Positions, F!Positions, Positions, T!ENTRY_EMPTY, F!ENTRY_EMPTY
  <2>2. FlatEntries' = 0 /\ FlatLeft' = {}
    BY DEF FlatEntries, FlatLeft
  <2>3. QED
    BY <2>1, <2>2, FlatAssumptionHolds, F!FreshTable, F!EmptyTable
<1>2. T!UsedSlots' = {}
  BY <1>1
     DEF T!UsedSlots, F!UsedSlots, T!Groups, F!Groups, T!ValidMask, F!ValidMask,
         T!AndMask, F!AndMask, T!HIGH_BIT_MASK, F!HIGH_BIT_MASK, T!Positions, F!Positions
<1>3. F!TableInv'
  <2>1. F!MemoryOK'
    <3>1. FlatPc' \in {"null", "ready"} /\ FlatEntries' = 0 /\ FlatLeft' = {}
      BY DEF FlatPc, FlatEntries, FlatLeft
    <3>2. old_table' \in [DOMAIN old_table' -> [F!Positions -> F!Pairs \cup {NULL}]]
      BY DEF NodeInv, F!TableInv, F!MemoryOK, F!Pairs
    <3>3. QED
      BY <1>1, <3>1, <3>2 DEF F!MemoryOK, F!Pairs
  <2>2. F!SizeInv' /\ F!OldTableInv'
    BY DEF F!SizeInv, F!OldTableInv, FlatPc, FlatLeft, IsPowerOfTwo, F!IsPowerOfTwo
  <2>3. QED
    BY <1>1, <2>1, <2>2 DEF F!TableInv
<1>4. RefsInv' /\ CallInv'
  BY <1>2 DEF RefsInv, CallInv
<1>5. OwnerInv'
  <2>1. Held' = {}
    BY <1>2 DEF Held
  <2>2. QED
    BY <2>1 DEF NodeInv, OwnerInv, OwnedIsHeld
<1>6. QED
  BY <1>3, <1>4, <1>5 DEF NodeInv

LEMMA CreateStep ==
  ASSUME NodeInv, NEW hint \in Hints, Create(hint) \/ CreateFails(hint)
  PROVE  NodeInv'
<1>1. pc = "null" /\ group_num = 0 /\ left = {}
  BY DEF Create, CreateFails, NodeInv, CallInv, F!TableInv, F!SizeInv, FlatPc
<1>2. CASE Create(hint)
  <2>1. T!UsedSlots = {} /\ Held = {}
    BY <1>1 DEF T!UsedSlots, T!Groups, Held
  <2>2. InitialGroups(hint) \in Nat \ {0, 1} /\ IsPowerOfTwo(InitialGroups(hint))
    <3>1. /\ F!InitialGroups(hint) \in Nat \ {0, 1}
          /\ F!IsPowerOfTwo(F!InitialGroups(hint))
      BY FlatAssumptionHolds, F!InitialGroupsArePower
    <3>2. F!InitialGroups(hint) = InitialGroups(hint)
      BY DEF F!InitialGroups, InitialGroups, F!NextPowerOfTwo, NextPowerOfTwo,
             F!IsPowerOfTwo, IsPowerOfTwo
    <3>3. QED
      BY <3>1, <3>2 DEF F!IsPowerOfTwo, IsPowerOfTwo
  <2>3. QED
    BY <1>1, <1>2, <2>1, <2>2, NewTable DEF Create
<1>3. CASE CreateFails(hint)
  BY <1>1, <1>3, QuietNode DEF CreateFails
<1>4. QED
  BY <1>2, <1>3

-----------------------------------------------------------------------------
LEMMA StoreFillsOneSlot ==
  ASSUME NodeInv, pc # "destruct", pc' # "destruct", group_num' = group_num, NEW o \in Objects,
         NEW g \in F!Groups, NEW p \in F!Positions,
         F!FreeAt(Pair(o).key, g, p), T!Put(Pair(o), g, p)
  PROVE  /\ <<g, p>> \notin T!UsedSlots
         /\ T!UsedSlots' = T!UsedSlots \cup {<<g, p>>}
         /\ table'[g][p] = Pair(o)
         /\ \A h \in T!Groups, q \in Positions :
              <<h, q>> # <<g, p>> => table'[h][q] = table[h][q]
<1>1. F!Put(Pair(o), g, p) /\ table' = [table EXCEPT ![g][p] = Pair(o)]
  <2>1. F!Put(Pair(o), g, p)
    BY DEF T!Put, F!Put, FlatEntries, T!H2, F!H2
  <2>2. table' = [table EXCEPT ![g][p] = Pair(o)]
    BY DEF T!Put
  <2>3. QED
    BY <2>1, <2>2
<1>2. Pair(o) \in F!Pairs
  BY NodeAssumption DEF Pair, F!Pairs
<1>3. F!MemoryOK /\ p \in F!AndMask(bitmap[g])
  BY DEF NodeInv, F!TableInv, F!FreeAt, F!IsFirstSetBit
<1>4. /\ <<g, p>> \notin F!UsedSlots
      /\ F!UsedSlots' = F!UsedSlots \cup {<<g, p>>}
      /\ table'[g][p] = Pair(o)
  <2>1. /\ bitmap' \in [F!Groups -> [F!Positions -> F!Ctrl]]
        /\ table' \in [F!Groups -> [F!Positions -> F!Pairs \cup {NULL}]]
        /\ <<g, p>> \notin F!UsedSlots
        /\ F!UsedSlots' = F!UsedSlots \cup {<<g, p>>}
        /\ table'[g][p] = Pair(o) /\ bitmap'[g][p] = F!H2(Pair(o).key)
        /\ \A s \in F!UsedSlots : /\ table'[s[1]][s[2]] = table[s[1]][s[2]]
                                  /\ bitmap'[s[1]][s[2]] = bitmap[s[1]][s[2]]
        /\ \A h \in F!Groups : F!HasEmpty(bitmap'[h]) => F!HasEmpty(bitmap[h])
    BY <1>1, <1>2, <1>3, FlatAssumptionHolds, F!PutChangesOneSlot
  <2>2. QED
    BY <2>1
<1>5. T!UsedSlots' = F!UsedSlots'
  BY DEF T!UsedSlots, F!UsedSlots, T!Groups, F!Groups, T!ValidMask, F!ValidMask,
         T!AndMask, F!AndMask, T!HIGH_BIT_MASK, F!HIGH_BIT_MASK, T!Positions, F!Positions
<1>6. ASSUME NEW h \in T!Groups, NEW q \in Positions, <<h, q>> # <<g, p>>
      PROVE  table'[h][q] = table[h][q]
  <2>1. table \in [F!Groups -> [F!Positions -> F!Pairs \cup {NULL}]]
    BY <1>3 DEF F!MemoryOK
  <2>2. table' = [table EXCEPT ![g] = [table[g] EXCEPT ![p] = Pair(o)]]
    BY <1>1
  <2>3. QED
    BY <1>6, <2>1, <2>2, SameSlots
<1>7. QED
  BY <1>4, <1>5, <1>6, SameSlots

(***************************************************************************)
(* An object whose key is stored nowhere is put into the table, by an      *)
(* insertion or by a resize.                                               *)
(***************************************************************************)
LEMMA StoreKeepsSound ==
  ASSUME NodeInv, NEW o \in Objects, Store(o),
         \/ pc = "ready" /\ pc' \in {"ready", "grow"}
         \/ pc = "rehash" /\ pc' = "rehash",
         UNCHANGED <<group_num, old_table>>, left' \subseteq left,
         \A s \in T!UsedSlots : table[s[1]][s[2]].key # KeyOf[o],
         \A s \in left' : old_table[s[1]][s[2]].key # KeyOf[o]
  PROVE  /\ F!TableInv'
         /\ \A s \in T!UsedSlots' : RefersTo(table[s[1]][s[2]])'
         /\ Stored' = Stored \cup {o} /\ entries' \in Int
<1>1. PICK g \in F!Groups, p \in F!Positions :
        F!FreeAt(Pair(o).key, g, p) /\ T!Put(Pair(o), g, p)
  BY SameSlots, SameProbes DEF Store, Pair
<1>2. F!Put(Pair(o), g, p)
  BY <1>1 DEF T!Put, F!Put, FlatEntries, T!H2, F!H2
<1>3. Pair(o) \in F!Pairs
  BY NodeAssumption DEF Pair, F!Pairs
<1>4. FlatLeft = left /\ FlatLeft' = left' /\ F!MemoryOK /\ F!TableInv
  BY DEF FlatLeft, NodeInv, F!TableInv
<1>5. group_num > 0 /\ group_num' = group_num
  BY <1>4 DEF F!MemoryOK, F!TableInv, F!SizeInv, FlatPc
<1>6. /\ bitmap' \in [F!Groups' -> [F!Positions -> F!Ctrl]]
      /\ table' \in [F!Groups' -> [F!Positions -> F!Pairs \cup {NULL}]]
      /\ FlatEntries' \in Int
      /\ F!SlotsAreSound' /\ F!KeysStoredOnce' /\ F!EntriesCounted'
  <2>1. /\ \A s \in F!UsedSlots : table[s[1]][s[2]].key # Pair(o).key
        /\ \A s \in FlatLeft' : old_table[s[1]][s[2]].key # Pair(o).key
    BY <1>4, SameSlots DEF Pair
  <2>2. QED
    BY <1>1, <1>2, <1>3, <1>4, <1>5, <2>1, FlatAssumptionHolds, F!PutKeepsSound
<1>7. F!TableInv'
  <2>1. /\ FlatPc' \in {"ready", "grow", "rehash"} /\ FlatPc \in {"ready", "rehash"}
        /\ FlatPc' = "rehash" <=> FlatPc = "rehash"
    BY DEF FlatPc
  <2>2. F!MemoryOK'
    <3>1. FlatLeft' \in SUBSET ((DOMAIN old_table') \X F!Positions)
      BY <1>4 DEF F!MemoryOK
    <3>2. /\ old_table' \in [DOMAIN old_table' -> [F!Positions -> F!Pairs \cup {NULL}]]
          /\ group_num' \in Nat
      BY <1>4 DEF F!MemoryOK, F!Pairs
    <3>3. QED
      BY <1>6, <2>1, <3>1, <3>2 DEF F!MemoryOK, F!Pairs
  <2>3. F!SizeInv' /\ F!OldTableInv'
    BY <1>4, <1>5, <2>1 DEF F!TableInv, F!SizeInv, F!OldTableInv, F!Pairs
  <2>4. QED
    BY <1>6, <2>2, <2>3 DEF F!TableInv
<1>8. /\ T!UsedSlots' = T!UsedSlots \cup {<<g, p>>}
      /\ table'[g][p] = Pair(o)
      /\ \A s \in T!UsedSlots : table'[s[1]][s[2]] = table[s[1]][s[2]]
  <2>1. /\ <<g, p>> \notin T!UsedSlots
        /\ T!UsedSlots' = T!UsedSlots \cup {<<g, p>>}
        /\ table'[g][p] = Pair(o)
        /\ \A h \in T!Groups, q \in Positions :
             <<h, q>> # <<g, p>> => table'[h][q] = table[h][q]
    BY <1>1, <1>5, StoreFillsOneSlot
  <2>2. \A s \in T!UsedSlots : s[1] \in T!Groups /\ s[2] \in Positions /\ s = <<s[1], s[2]>>
    BY SameSlots DEF F!UsedSlots
  <2>3. QED
    BY <2>1, <2>2
<1>9. \A s \in T!UsedSlots' : RefersTo(table[s[1]][s[2]])'
  <2>1. RefersTo(Pair(o))
    BY DEF RefersTo, Pair
  <2>2. \A s \in T!UsedSlots : RefersTo(table[s[1]][s[2]])
    BY DEF NodeInv, RefsInv
  <2>3. QED
    BY <1>8, <2>1, <2>2 DEF RefersTo
<1>10. Stored' = Stored \cup {o}
  <2>1. EntryAt(<<g, p>>)' = o
    BY <1>8 DEF EntryAt, Pair
  <2>2. \A s \in T!UsedSlots : EntryAt(s)' = EntryAt(s)
    BY <1>8 DEF EntryAt
  <2> DEFINE E(s) == EntryAt(s)
  <2>3. Stored' = {E(s)' : s \in T!UsedSlots'} /\ Stored = {E(s) : s \in T!UsedSlots}
    BY DEF Stored
  <2>4. E(<<g, p>>)' = o /\ \A s \in T!UsedSlots : E(s)' = E(s)
    BY <2>1, <2>2
  <2> HIDE DEF E
  <2>5. QED
    BY <1>8, <2>3, <2>4
<1>11. entries' \in Int
  BY <1>6 DEF FlatEntries
<1>12. QED
  BY <1>7, <1>9, <1>10, <1>11

LEMMA InsertNewStep ==
  ASSUME NodeInv, NEW o \in Objects, InsertNew(o)
  PROVE  NodeInv'
<1>1. /\ pc = "ready" /\ pc' \in {"ready", "grow"}
      /\ owner[o] = "client" /\ owner' = [owner EXCEPT ![o] = "table"]
      /\ UNCHANGED <<group_num, old_table, left, iterator>>
      /\ ret' = Result("insert", o, 0, NULL)
  BY DEF InsertNew, T!CheckUpper, T!HASH_OK
<1>2. left = {} /\ left' = {}
  BY <1>1 DEF NodeInv, CallInv
<1>3. \A s \in T!UsedSlots : table[s[1]][s[2]].key # KeyOf[o]
  <2>1. F!Misses(KeyOf[o]) /\ KeyOf[o] \in Keys /\ F!TableInv
    BY SameProbes, NodeAssumption DEF InsertNew, NodeInv
  <2>2. QED
    BY <2>1, SameSlots, FlatAssumptionHolds, F!MissedIsAbsent
<1>4. /\ F!TableInv'
      /\ \A s \in T!UsedSlots' : RefersTo(table[s[1]][s[2]])'
      /\ Stored' = Stored \cup {o} /\ entries' \in Int
  BY <1>1, <1>2, <1>3, StoreKeepsSound DEF InsertNew
<1>5. RefsInv' /\ CallInv'
  BY <1>1, <1>2, <1>4 DEF RefsInv, CallInv
<1>6. OwnerInv'
  <2>1. owner' \in [Objects -> {"client", "table"}]
    BY <1>1 DEF NodeInv, OwnerInv
  <2>2. \A x \in Objects : owner'[x] = "table" <=> owner[x] = "table" \/ x = o
    BY <1>1 DEF NodeInv, OwnerInv
  <2>3. Held = Stored /\ Held' = Stored'
    BY <1>1 DEF Held, Stored
  <2>4. QED
    BY <1>4, <2>1, <2>2, <2>3 DEF NodeInv, OwnerInv, OwnedIsHeld
<1>7. QED
  BY <1>4, <1>5, <1>6 DEF NodeInv

LEMMA DeletionEmptiesOneSlot ==
  ASSUME NodeInv, pc = "ready", group_num' = group_num,
         NEW k \in Keys, NEW s \in T!UsedSlots, FindsAt(k, s),
         bitmap' = [bitmap EXCEPT ![s[1]][s[2]] = T!Tombstone(s[1])]
  PROVE  T!UsedSlots' = T!UsedSlots \ {s}
<1>1. s[1] \in T!Groups /\ s[2] \in Positions /\ s = <<s[1], s[2]>>
  BY FoundIsOwned
<1>2. F!MemoryOK /\ F!TableInv
  BY DEF NodeInv, F!TableInv
<1>3. /\ s[1] \in F!Groups /\ s[2] \in F!Positions /\ <<s[1], s[2]>> \in F!UsedSlots
      /\ bitmap' = [bitmap EXCEPT ![s[1]][s[2]] = F!Tombstone(s[1])]
  BY <1>1, SameSlots, SameProbes
<1>4. /\ bitmap' \in [F!Groups -> [F!Positions -> F!Ctrl]]
      /\ F!UsedSlots' = F!UsedSlots \ {<<s[1], s[2]>>}
      /\ \A t \in F!UsedSlots' : bitmap'[t[1]][t[2]] = bitmap[t[1]][t[2]]
      /\ \A h \in F!Groups : F!HasEmpty(bitmap'[h]) => F!HasEmpty(bitmap[h])
  BY <1>2, <1>3, FlatAssumptionHolds, F!DeleteChangesOneSlot
<1>5. T!UsedSlots' = F!UsedSlots'
  BY DEF T!UsedSlots, F!UsedSlots, T!Groups, F!Groups, T!ValidMask, F!ValidMask,
         T!AndMask, F!AndMask, T!HIGH_BIT_MASK, F!HIGH_BIT_MASK, T!Positions, F!Positions
<1>6. QED
  BY <1>1, <1>4, <1>5, SameSlots

LEMMA DeleteExistingStep ==
  ASSUME NodeInv, NEW k \in Keys, DeleteExisting(k)
  PROVE  NodeInv'
<1>1. PICK s \in T!UsedSlots :
        /\ FindsAt(k, s)
        /\ bitmap' = [bitmap EXCEPT ![s[1]][s[2]] = T!Tombstone(s[1])]
        /\ Destruct(EntryAt(s))
        /\ ret' = Result("delete", EntryAt(s), 0, NULL)
  BY DEF DeleteExisting, T!HASH_OK
<1> DEFINE o == EntryAt(s)
<1>2. /\ pc = "ready" /\ pc' = "destruct"
      /\ UNCHANGED <<group_num, table, entries, old_table, left, iterator>>
  BY DEF DeleteExisting
<1>3. /\ o \in Objects /\ owner[o] = "table" /\ KeyOf[o] = k
      /\ s[1] \in T!Groups /\ s[2] \in Positions /\ s = <<s[1], s[2]>>
  BY <1>1, <1>2, FoundIsOwned
<1>4. owner' = [owner EXCEPT ![o] = "client"]
  BY <1>1, <1>3 DEF Destruct
<1>5. left = {} /\ left' = {} /\ FlatLeft = {} /\ FlatLeft' = {}
  BY <1>2 DEF NodeInv, CallInv, FlatLeft
<1>6. FlatPc = "ready" /\ FlatPc' = "ready" /\ FlatEntries' = FlatEntries - 1
  BY <1>2 DEF FlatPc, FlatEntries
<1>7. /\ F!MemoryOK /\ F!TableInv /\ group_num > 0 /\ group_num' = group_num
      /\ s[1] \in F!Groups /\ s[2] \in F!Positions /\ <<s[1], s[2]>> \in F!UsedSlots
      /\ bitmap' = [bitmap EXCEPT ![s[1]][s[2]] = F!Tombstone(s[1])]
  <2>1. F!MemoryOK /\ F!TableInv /\ group_num > 0 /\ group_num' = group_num
    BY <1>2, <1>6 DEF NodeInv, F!TableInv, F!SizeInv, F!MemoryOK
  <2>2. s[1] \in F!Groups /\ s[2] \in F!Positions /\ <<s[1], s[2]>> \in F!UsedSlots
    BY <1>3, SameSlots
  <2>3. T!Tombstone(s[1]) = F!Tombstone(s[1])
    BY SameProbes
  <2>4. QED
    BY <1>1, <2>1, <2>2, <2>3
<1>8. /\ bitmap' \in [F!Groups' -> [F!Positions -> F!Ctrl]]
      /\ FlatEntries' \in Int
      /\ F!SlotsAreSound' /\ F!KeysStoredOnce' /\ F!EntriesCounted'
  <2>1. table' = table /\ old_table' = old_table /\ FlatLeft' = FlatLeft
    BY <1>2, <1>5
  <2>2. QED
    BY <1>6, <1>7, <2>1, FlatAssumptionHolds, F!DeleteKeepsSound
<1>9. T!UsedSlots' = T!UsedSlots \ {s}
  BY <1>1, <1>2, DeletionEmptiesOneSlot
<1>10. F!TableInv'
  <2>1. F!MemoryOK'
    <3>1. FlatLeft' \in SUBSET ((DOMAIN old_table') \X F!Positions)
      BY <1>5
    <3>2. /\ old_table' \in [DOMAIN old_table' -> [F!Positions -> F!Pairs \cup {NULL}]]
          /\ table' \in [F!Groups' -> [F!Positions -> F!Pairs \cup {NULL}]]
          /\ group_num' \in Nat
      BY <1>2, <1>7 DEF F!MemoryOK, F!Pairs, F!Groups
    <3>3. QED
      BY <1>6, <1>8, <3>1, <3>2 DEF F!MemoryOK, F!Pairs
  <2>2. F!SizeInv' /\ F!OldTableInv'
    BY <1>5, <1>6, <1>7 DEF F!TableInv, F!SizeInv, F!OldTableInv, F!Pairs
  <2>3. QED
    BY <1>8, <2>1, <2>2 DEF F!TableInv
<1>11. RefsInv'
  BY <1>2, <1>9 DEF NodeInv, RefsInv, RefersTo
<1>12. CallInv'
  <2>1. \A t \in T!UsedSlots' : table[t[1]][t[2]].key # k
    <3>1. table[s[1]][s[2]].key = k
      <4>1. RefersTo(table[s[1]][s[2]])
        BY DEF NodeInv, RefsInv
      <4>2. QED
        BY <1>3, <4>1 DEF RefersTo, Pair, EntryAt
    <3>2. \A t \in T!UsedSlots : table[t[1]][t[2]].key = k => t = s
      BY <3>1, SameSlots DEF NodeInv, F!TableInv, F!KeysStoredOnce
    <3>3. QED
      BY <1>9, <3>2
  <2>2. ret'.arg = o
    BY <1>1 DEF Result
  <2>3. QED
    BY <1>2, <1>3, <1>5, <2>1, <2>2 DEF NodeInv, CallInv
<1>13. OwnerInv'
  <2>1. Stored' = Stored \ {o}
    <3>1. \A t \in T!UsedSlots : EntryAt(t) = o => t = s
      BY EntriesDistinct
    <3>2. \A t \in T!UsedSlots' : EntryAt(t)' = EntryAt(t)
      BY <1>2 DEF EntryAt
    <3> DEFINE E(t) == EntryAt(t)
    <3>3. Stored' = {E(t)' : t \in T!UsedSlots'} /\ Stored = {E(t) : t \in T!UsedSlots}
      BY DEF Stored
    <3>4. E(s) = o /\ \A t \in T!UsedSlots : E(t) = o => t = s
      BY <3>1
    <3>5. \A t \in T!UsedSlots' : E(t)' = E(t)
      BY <3>2
    <3> HIDE DEF E, o
    <3>6. QED
      BY <1>9, <3>3, <3>4, <3>5
  <2>2. Held = Stored /\ Held' = Stored'
    BY <1>2 DEF Held, Stored
  <2>3. owner' \in [Objects -> {"client", "table"}]
    BY <1>4 DEF NodeInv, OwnerInv
  <2>4. \A x \in Objects : owner'[x] = "table" <=> owner[x] = "table" /\ x # o
    BY <1>3, <1>4 DEF NodeInv, OwnerInv
  <2>5. QED
    BY <2>1, <2>2, <2>3, <2>4 DEF NodeInv, OwnerInv, OwnedIsHeld
<1>14. QED
  BY <1>10, <1>11, <1>12, <1>13 DEF NodeInv

(* The calls that leave the table alone, and the resize that gets no memory. *)
LEMMA QuietCalls ==
  ASSUME NodeInv,
         \/ WrongArgument \/ ResizeFails
         \/ \E k \in Keys : Search(k) \/ DeleteMissing(k) \/ Hang(k)
         \/ \E o \in Objects : InsertExisting(o)
  PROVE  NodeInv'
<1>1. group_num \in Nat /\ (pc \in {"ready", "grow", "shrink"} => pc # "null" /\ group_num > 1)
  BY DEF NodeInv, F!TableInv, F!MemoryOK, F!SizeInv, FlatPc
<1>2. CASE WrongArgument \/ ResizeFails
  BY <1>1, <1>2, QuietNode DEF WrongArgument, ResizeFails
<1>3. ASSUME NEW k \in Keys, Search(k) \/ DeleteMissing(k) \/ Hang(k)
      PROVE  NodeInv'
  BY <1>1, <1>3, QuietNode DEF Search, DeleteMissing, Hang, T!CheckLower
<1>4. ASSUME NEW o \in Objects, InsertExisting(o)
      PROVE  NodeInv'
  BY <1>1, <1>4, QuietNode DEF InsertExisting, T!CheckUpper
<1>5. QED
  BY <1>2, <1>3, <1>4

(* A step that F does not see as one of its own but for the program counter. *)
LEMMA FlatQuiet ==
  ASSUME NodeInv, UNCHANGED <<group_num, bitmap, table, old_table>>,
         FlatEntries' = FlatEntries, FlatLeft' = FlatLeft,
         FlatPc = "ready", FlatPc' \in {"ready", "shrink"}, FlatPc' = "shrink" => group_num # 2
  PROVE  F!TableInv' /\ T!UsedSlots' = T!UsedSlots
<1>1. UNCHANGED F!memory
  BY DEF F!memory
<1>2. F!TableInv'
  BY <1>1, FlatAssumptionHolds, F!QuietStep DEF NodeInv
<1>3. T!UsedSlots' = T!UsedSlots
  BY DEF T!UsedSlots, T!Groups
<1>4. QED
  BY <1>2, <1>3

LEMMA DestructReturnsStep ==
  ASSUME NodeInv, DestructReturns
  PROVE  NodeInv'
<1>1. /\ pc = "destruct" /\ entries' = entries - 1
      /\ pc' \in {"ready", "shrink"} /\ (pc' = "shrink" => group_num # 2)
      /\ UNCHANGED <<group_num, bitmap, table, old_table, left, iterator, ret, owner>>
  BY DEF DestructReturns, T!CheckLower
<1>2. F!TableInv' /\ T!UsedSlots' = T!UsedSlots
  <2>1. /\ FlatEntries' = FlatEntries /\ FlatLeft' = FlatLeft
        /\ FlatPc = "ready" /\ FlatPc' = pc'
    BY <1>1 DEF FlatEntries, FlatLeft, FlatPc
  <2>2. QED
    BY <1>1, <2>1, FlatQuiet
<1>3. RefsInv' /\ CallInv'
  BY <1>1, <1>2 DEF NodeInv, RefsInv, CallInv
<1>4. OwnerInv'
  <2>1. Held' = Held
    BY <1>1, <1>2 DEF Held, EntryAt
  <2>2. QED
    BY <1>1, <2>1 DEF NodeInv, OwnerInv, OwnedIsHeld
<1>5. QED
  BY <1>2, <1>3, <1>4 DEF NodeInv

(***************************************************************************)
(* A resize: every step is the step of F of the same name.                 *)
(***************************************************************************)
LEMMA StartRehashStep ==
  ASSUME NodeInv, StartRehash
  PROVE  NodeInv'
<1>1. /\ pc \in {"grow", "shrink"} /\ pc' = "rehash"
      /\ group_num' = T!NewGroups /\ T!CanAllocate(T!NewGroups)
      /\ bitmap' = T!EmptyBitmap(T!NewGroups) /\ table' = NullTable(T!NewGroups)
      /\ entries' = 0 /\ old_table' = table /\ left' = T!UsedSlots
      /\ UNCHANGED <<ret, owner>>
  BY DEF StartRehash
<1>2. /\ FlatPc = pc /\ FlatPc' = "rehash" /\ FlatEntries' = 0 /\ FlatLeft' = left'
  BY <1>1 DEF FlatPc, FlatEntries, FlatLeft
<1>3. F!StartRehash
  <2>1. T!NewGroups = F!NewGroups
    BY <1>1, <1>2 DEF T!NewGroups, F!NewGroups
  <2>2. \A n : T!EmptyBitmap(n) = F!EmptyBitmap(n) /\ NullTable(n) = F!JunkTable(n)
    BY DEF T!EmptyBitmap, F!EmptyBitmap, NullTable, F!JunkTable,
           T!Positions, F!Positions, Positions, T!ENTRY_EMPTY, F!ENTRY_EMPTY
  <2>3. F!CanAllocate(F!NewGroups)
    BY <1>1, <2>1 DEF T!CanAllocate, F!CanAllocate
  <2>4. UNCHANGED <<NoFlatWalk, NoResult>>
    BY DEF NoFlatWalk, NoResult
  <2>5. QED
    BY <1>1, <1>2, <2>1, <2>2, <2>3, <2>4, SameSlots DEF F!StartRehash
<1>4. F!TableInv'
  BY <1>3, FlatAssumptionHolds, F!ResizeKeepsSound DEF NodeInv, F!ResizeStep
<1>5. T!UsedSlots' = {}
  <2>1. \A g \in T!Groups' : T!ValidMask(bitmap'[g]) = {}
    BY <1>1 DEF T!Groups, T!EmptyBitmap, T!ValidMask, T!AndMask, T!HIGH_BIT_MASK, T!ENTRY_EMPTY
  <2>2. QED
    BY <2>1 DEF T!UsedSlots
<1>6. RefsInv'
  BY <1>1, <1>5 DEF NodeInv, RefsInv, RefersTo
<1>7. CallInv'
  BY <1>1 DEF NodeInv, CallInv
<1>8. OwnerInv'
  <2>1. Held = {EntryAt(s) : s \in T!UsedSlots}
    BY <1>1 DEF Held
  <2>2. Held' = {EntryAt(s)' : s \in T!UsedSlots'} \cup {old_table'[s[1]][s[2]].entry : s \in left'}
    BY <1>1 DEF Held
  <2>3. Held' = Held
    BY <1>1, <1>5, <2>1, <2>2 DEF EntryAt
  <2>4. QED
    BY <1>1, <2>3 DEF NodeInv, OwnerInv, OwnedIsHeld
<1>9. QED
  BY <1>4, <1>6, <1>7, <1>8 DEF NodeInv

LEMMA MovePairStep ==
  ASSUME NodeInv, MovePair
  PROVE  NodeInv'
<1>1. PICK s \in left : left' = left \ {s} /\ Store(old_table[s[1]][s[2]].entry)
  BY DEF MovePair
<1>2. pc = "rehash" /\ UNCHANGED <<pc, group_num, old_table, iterator, ret, owner>>
  BY DEF MovePair
<1> DEFINE O(t) == old_table[t[1]][t[2]].entry
<1>3. \A t \in left : O(t) \in Objects /\ old_table[t[1]][t[2]].key = KeyOf[O(t)]
  <2>1. \A t \in left : RefersTo(old_table[t[1]][t[2]])
    BY <1>2 DEF NodeInv, RefsInv
  <2>2. QED
    BY <2>1, PairParts
<1>4. FlatLeft = left
  BY <1>2 DEF FlatLeft
<1>5. /\ \A t \in T!UsedSlots : table[t[1]][t[2]].key # KeyOf[O(s)]
      /\ \A t \in left' : old_table[t[1]][t[2]].key # KeyOf[O(s)]
  <2>1. /\ \A t, u \in left : old_table[t[1]][t[2]].key = old_table[u[1]][u[2]].key => t = u
        /\ \A t \in F!UsedSlots, u \in left :
             table[t[1]][t[2]].key # old_table[u[1]][u[2]].key
    BY <1>4 DEF NodeInv, F!TableInv, F!KeysStoredOnce
  <2>2. old_table[s[1]][s[2]].key = KeyOf[O(s)]
    BY <1>3
  <2>3. QED
    BY <1>1, <2>1, <2>2, SameSlots
<1>6. /\ F!TableInv'
      /\ \A t \in T!UsedSlots' : RefersTo(table[t[1]][t[2]])'
      /\ Stored' = Stored \cup {O(s)} /\ entries' \in Int
  <2>1. O(s) \in Objects /\ Store(O(s)) /\ left' \subseteq left
    BY <1>1, <1>3
  <2> HIDE DEF O
  <2>2. QED
    BY <1>2, <1>5, <2>1, StoreKeepsSound
<1>7. RefsInv' /\ CallInv'
  <2>1. \A t \in left : RefersTo(old_table[t[1]][t[2]])
    BY <1>2 DEF NodeInv, RefsInv
  <2>2. \A t \in left' : RefersTo(old_table[t[1]][t[2]])'
    BY <1>1, <1>2, <2>1 DEF RefersTo
  <2>3. RefsInv'
    BY <1>6, <2>2 DEF RefsInv
  <2>4. QED
    BY <1>2, <1>6, <2>3 DEF NodeInv, CallInv
<1>8. OwnerInv'
  <2>1. Held = Stored \cup {O(t) : t \in left}
    BY <1>2 DEF Held, Stored
  <2>2. Held' = Stored' \cup {O(t) : t \in left'}
    BY <1>2 DEF Held, Stored
  <2>3. Held' = Held
    <3> HIDE DEF O
    <3>1. {O(t) : t \in left} = {O(t) : t \in left'} \cup {O(s)}
      BY <1>1
    <3>2. QED
      BY <1>6, <2>1, <2>2, <3>1
  <2>4. QED
    BY <1>2, <2>3 DEF NodeInv, OwnerInv, OwnedIsHeld
<1>9. QED
  BY <1>6, <1>7, <1>8 DEF NodeInv

LEMMA EndRehashStep ==
  ASSUME NodeInv, EndRehash
  PROVE  NodeInv'
<1>1. /\ pc = "rehash" /\ pc' = "ready" /\ left = {} /\ left' = {}
      /\ UNCHANGED <<group_num, bitmap, table, entries, owner>>
      /\ old_table' = NullTable(0)
      /\ ret' = [ret EXCEPT !.code = 0]
  BY DEF EndRehash, T!HASH_OK
<1>2. F!EndRehash
  <2>1. /\ FlatPc = "rehash" /\ FlatPc' = "ready" /\ FlatLeft = {} /\ FlatLeft' = {}
        /\ FlatEntries' = FlatEntries
    BY <1>1 DEF FlatPc, FlatLeft, FlatEntries
  <2>2. old_table' = F!JunkTable(0)
    BY <1>1 DEF NullTable, F!JunkTable, Positions, F!Positions
  <2>3. NoFlatWalk' = [NoFlatWalk EXCEPT !.iter_state = FALSE]
    <3>1. \A r \in [iter_state : {FALSE}, cur_group : {NULL}, cur_group_mask : {NULL}] :
            [r EXCEPT !.iter_state = FALSE] = r
      OBVIOUS
    <3>2. NoFlatWalk \in [iter_state : {FALSE}, cur_group : {NULL}, cur_group_mask : {NULL}]
      BY DEF NoFlatWalk
    <3>3. NoFlatWalk' = NoFlatWalk
      BY DEF NoFlatWalk
    <3>4. QED
      BY <3>1, <3>2, <3>3
  <2>4. NoResult' = [NoResult EXCEPT !.code = F!HASH_OK,
                                     !.pointer = IF @ = NULL THEN NULL ELSE FREED]
    <3> DEFINE R == [op : {"none"}, key : {NULL}, hit : {FALSE}, code : {0}, pointer : {NULL}]
    <3>1. \A r \in R : [r EXCEPT !.code = 0, !.pointer = NULL] = r
      OBVIOUS
    <3>2. NoResult \in R /\ NoResult.pointer = NULL
      BY DEF NoResult
    <3>3. NoResult' = NoResult
      BY DEF NoResult
    <3> HIDE DEF R
    <3>4. QED
      BY <3>1, <3>2, <3>3 DEF F!HASH_OK
  <2>5. QED
    BY <1>1, <2>1, <2>2, <2>3, <2>4 DEF F!EndRehash
<1>3. F!TableInv'
  BY <1>2, FlatAssumptionHolds, F!ResizeKeepsSound DEF NodeInv, F!ResizeStep
<1>4. T!UsedSlots' = T!UsedSlots
  BY <1>1 DEF T!UsedSlots, T!Groups
<1>5. RefsInv' /\ CallInv'
  BY <1>1, <1>4 DEF NodeInv, RefsInv, CallInv
<1>6. OwnerInv'
  <2>1. Held' = Held
    BY <1>1, <1>4 DEF Held, EntryAt
  <2>2. QED
    BY <1>1, <2>1 DEF NodeInv, OwnerInv, OwnedIsHeld
<1>7. QED
  BY <1>3, <1>5, <1>6 DEF NodeInv

(***************************************************************************)
(* ht_node_free takes the objects away one by one, behind the back of F.   *)
(***************************************************************************)
LEMMA FreeStep ==
  ASSUME NodeInv, BeginFree \/ FreePair \/ EndFree
  PROVE  NodeInv'
<1>1. CASE BeginFree
  <2>1. /\ pc = "ready" /\ pc' = "free" /\ left = {} /\ left' = T!UsedSlots
        /\ ret' = Result("free", NULL, 0, NULL)
        /\ UNCHANGED <<group_num, bitmap, table, entries, old_table, iterator, owner>>
    BY <1>1 DEF BeginFree, NodeInv, CallInv, T!HASH_OK
  <2>2. F!TableInv' /\ T!UsedSlots' = T!UsedSlots
    <3>1. /\ FlatEntries' = FlatEntries /\ FlatLeft' = FlatLeft
          /\ FlatPc = "ready" /\ FlatPc' = "ready"
      BY <2>1 DEF FlatEntries, FlatLeft, FlatPc
    <3>2. QED
      BY <2>1, <3>1, FlatQuiet
  <2>3. RefsInv' /\ CallInv'
    BY <2>1, <2>2 DEF NodeInv, RefsInv, CallInv, Result
  <2>4. Held' = Held
    BY <2>1, <2>2 DEF Held, EntryAt
  <2>5. QED
    BY <2>1, <2>2, <2>3, <2>4 DEF NodeInv, OwnerInv, OwnedIsHeld
<1>2. CASE FreePair
  <2>1. PICK s \in left : left' = left \ {s} /\ Destruct(EntryAt(s))
    BY <1>2 DEF FreePair
  <2>2. /\ pc = "free" /\ pc' = "free" /\ left \subseteq T!UsedSlots
        /\ UNCHANGED <<group_num, bitmap, table, entries, old_table, iterator, ret>>
    BY <1>2 DEF FreePair, NodeInv, CallInv
  <2>3. F!TableInv' /\ T!UsedSlots' = T!UsedSlots
    <3>1. /\ FlatEntries' = FlatEntries /\ FlatLeft' = FlatLeft
          /\ FlatPc = "ready" /\ FlatPc' = "ready"
      BY <2>2 DEF FlatEntries, FlatLeft, FlatPc
    <3>2. QED
      BY <2>2, <3>1, FlatQuiet
  <2>4. RefsInv' /\ CallInv'
    BY <2>1, <2>2, <2>3 DEF NodeInv, RefsInv, CallInv
  <2> DEFINE E(t) == EntryAt(t)
  <2>5. Held = {E(t) : t \in left} /\ Held' = {E(t) : t \in left'}
    BY <2>2 DEF Held, EntryAt
  <2>6. E(s) \in Objects /\ owner[E(s)] = "table"
    <3>1. RefersTo(table[s[1]][s[2]])
      BY <2>2 DEF NodeInv, RefsInv
    <3>2. E(s) \in Objects
      BY <3>1 DEF RefersTo, EntryAt
    <3>3. QED
      BY <2>5, <3>2 DEF NodeInv, OwnerInv, OwnedIsHeld
  <2>7. owner' = [owner EXCEPT ![E(s)] = "client"]
    BY <2>1, <2>6 DEF Destruct
  <2>8. \A t \in left : E(t) = E(s) => t = s
    BY <2>2, EntriesDistinct
  <2>9. OwnerInv'
    <3> HIDE DEF E
    <3>1. Held' = Held \ {E(s)}
      BY <2>1, <2>5, <2>8
    <3>2. owner' \in [Objects -> {"client", "table"}]
      BY <2>7 DEF NodeInv, OwnerInv
    <3>3. \A x \in Objects : owner'[x] = "table" <=> owner[x] = "table" /\ x # E(s)
      BY <2>6, <2>7 DEF NodeInv, OwnerInv
    <3>4. QED
      BY <3>1, <3>2, <3>3 DEF NodeInv, OwnerInv, OwnedIsHeld
  <2>10. QED
    BY <2>3, <2>4, <2>9 DEF NodeInv
<1>3. CASE EndFree
  <2>1. /\ pc = "free" /\ left = {} /\ pc' = "null" /\ group_num' = 0
        /\ bitmap' = T!EmptyBitmap(group_num') /\ table' = NullTable(group_num')
        /\ entries' = 0 /\ left' = {} /\ UNCHANGED <<old_table, ret, owner>>
    BY <1>3 DEF EndFree
  <2>2. Held = {}
    BY <2>1 DEF Held
  <2>3. QED
    BY <2>1, <2>2, NewTable
<1>4. QED
  BY <1>1, <1>2, <1>3

LEMMA StutterKeepsSound ==
  ASSUME NodeInv, UNCHANGED vars
  PROVE  NodeInv'
<1>1. UNCHANGED <<pc, group_num, bitmap, table, entries, old_table, left, iterator, ret, owner>>
  BY DEF vars, memory
<1>2. F!TableInv'
  <2>1. UNCHANGED <<FlatPc, F!memory>>
    BY <1>1 DEF F!memory, FlatPc, FlatEntries, FlatLeft
  <2>2. QED
    BY <2>1, FlatAssumptionHolds, F!StutterKeepsSound DEF NodeInv
<1>3. T!UsedSlots' = T!UsedSlots
  BY <1>1 DEF T!UsedSlots, T!Groups
<1>4. RefsInv' /\ CallInv'
  BY <1>1, <1>3 DEF NodeInv, RefsInv, CallInv
<1>5. Held' = Held
  BY <1>1, <1>3 DEF Held, EntryAt
<1>6. QED
  BY <1>1, <1>2, <1>4, <1>5 DEF NodeInv, OwnerInv, OwnedIsHeld

LEMMA NextKeepsSound ==
  ASSUME NodeInv, [Next]_vars
  PROVE  NodeInv'
<1>1. CASE Call
  BY <1>1, CreateStep, FreeStep, QuietCalls, InsertNewStep, DeleteExistingStep DEF Call
<1>2. CASE GoOn
  BY <1>2, DestructReturnsStep, QuietCalls, StartRehashStep, MovePairStep, EndRehashStep, FreeStep
     DEF GoOn
<1>3. CASE Spin \/ UNCHANGED vars
  BY <1>3, StutterKeepsSound DEF Spin
<1>4. QED
  BY <1>1, <1>2, <1>3 DEF Next

LEMMA NextKeepsResult ==
  ASSUME NodeInv, ResultInv, [Next]_vars
  PROVE  ResultInv'
<1>1. ret \in RetType
  BY DEF ResultInv
<1>2. CASE \/ BeginFree \/ WrongArgument
           \/ \E hint \in Hints : Create(hint) \/ CreateFails(hint)
           \/ \E k \in Keys : DeleteExisting(k) \/ DeleteMissing(k)
           \/ \E o \in Objects : InsertNew(o)
  <2>1. PICK op \in {"create", "free", "wrong", "delete", "insert"},
             arg \in Objects \cup {NULL}, code \in 0 .. 5 : ret' = Result(op, arg, code, NULL)
    <3>1. ASSUME NEW k \in Keys, DeleteExisting(k)
          PROVE  \E o \in Objects : ret' = Result("delete", o, 0, NULL)
      BY <3>1, FoundIsOwned DEF DeleteExisting, T!HASH_OK
    <3>2. ASSUME NEW k \in Keys, DeleteMissing(k)
          PROVE  \E code \in 0 .. 5 : ret' = Result("delete", NULL, code, NULL)
      BY <3>2 DEF DeleteMissing, T!HASH_ENTRY_NOT_EXISTS
    <3>3. ASSUME NEW o \in Objects, InsertNew(o)
          PROVE  ret' = Result("insert", o, 0, NULL)
      BY <3>3 DEF InsertNew, T!HASH_OK
    <3>4. ASSUME NEW hint \in Hints, Create(hint) \/ CreateFails(hint)
          PROVE  \E code \in 0 .. 5 : ret' = Result("create", NULL, code, NULL)
      BY <3>4 DEF Create, CreateFails, T!HASH_OK, T!HASH_WRONG_ARGUMENT, T!HASH_CREATE_MEM_ALLOC
    <3>5. CASE BeginFree \/ WrongArgument
      BY <3>5 DEF BeginFree, WrongArgument, T!HASH_OK, T!HASH_WRONG_ARGUMENT
    <3>6. QED
      BY <1>2, <3>1, <3>2, <3>3, <3>4, <3>5
  <2>2. ret' \in RetType /\ ret'.pointer = NULL
    BY <2>1 DEF Result, RetType
  <2>3. QED
    BY <2>2 DEF ResultInv
<1>3. ASSUME NEW k \in Keys, Search(k)
      PROVE  ResultInv'
  <2>1. PICK x \in Objects \cup {NULL} :
          ret' = Result("search", k, 0, x) /\ (x # NULL => owner[x] = "table")
    BY <1>3, FoundIsOwned DEF Search, T!HASH_OK
  <2>2. ret' \in RetType /\ ret'.pointer = x
    BY <2>1 DEF Result, RetType
  <2>3. QED
    BY <1>3, <2>1, <2>2 DEF Search, ResultInv
<1>4. ASSUME NEW o \in Objects, InsertExisting(o)
      PROVE  ResultInv'
  <2>1. PICK x \in Objects : ret' = Result("insert", o, 0, x) /\ owner[x] = "table"
    BY <1>4, FoundIsOwned, NodeAssumption DEF InsertExisting, T!HASH_OK
  <2>2. ret' \in RetType /\ ret'.pointer = x
    BY <2>1 DEF Result, RetType
  <2>3. QED
    BY <1>4, <2>1, <2>2 DEF InsertExisting, T!CheckUpper, ResultInv
<1>5. CASE ResizeFails \/ EndRehash
  <2>1. ret' \in RetType /\ ret'.pointer = ret.pointer
    BY <1>1, <1>5 DEF ResizeFails, EndRehash, RetType, T!HASH_REHASH_MEM_ALLOC, T!HASH_OK
  <2>2. QED
    BY <1>5, <2>1 DEF ResizeFails, EndRehash, ResultInv
<1>6. CASE \/ DestructReturns \/ StartRehash \/ MovePair \/ FreePair \/ EndFree
           \/ Spin \/ UNCHANGED vars \/ \E k \in Keys : Hang(k)
  BY <1>6
     DEF DestructReturns, T!CheckLower, StartRehash, MovePair, FreePair, EndFree, Spin, Hang, vars,
         ResultInv
<1>7. QED
  BY <1>2, <1>3, <1>4, <1>5, <1>6 DEF Next, Call, GoOn

-----------------------------------------------------------------------------
(***************************************************************************)
(* The inductive invariant holds whatever the client calls, in any order,  *)
(* and whether or not malloc succeeds.                                     *)
(***************************************************************************)
THEOREM NodeSoundness == Spec => []NodeInv
<1>1. Init => NodeInv
  BY InitIsSound
<1>2. NodeInv /\ [Next]_vars => NodeInv'
  BY NextKeepsSound
<1>3. QED
  BY <1>1, <1>2, PTL DEF Spec

LEMMA ResultSoundness == Spec => []ResultInv
<1>1. Init => ResultInv
  BY DEF Init, ResultInv, RetType, Result, T!HASH_OK
<1>2. NodeInv /\ ResultInv /\ [Next]_vars => ResultInv'
  BY NextKeepsResult
<1>3. QED
  BY <1>1, <1>2, NodeSoundness, PTL DEF Spec

(***************************************************************************)
(* The types of the variables; the counter is a natural number, also after *)
(* the destructor has returned.                                            *)
(***************************************************************************)
THEOREM NodeTypeCorrect == Spec => []TypeOK
<1>1. ASSUME NodeInv, ResultInv
      PROVE  TypeOK
  <2>1. F!MemoryOK
    BY <1>1 DEF NodeInv, F!TableInv
  <2>2. /\ group_num \in Nat
        /\ bitmap \in [T!Groups -> [Positions -> Ctrl]]
        /\ table \in [T!Groups -> [Positions -> T!Pairs \cup {NULL}]]
        /\ old_table \in [DOMAIN old_table -> [Positions -> T!Pairs \cup {NULL}]]
    BY <2>1, SameSlots DEF F!MemoryOK
  <2>3. entries \in Nat
    <3>1. IsFiniteSet(F!UsedSlots) /\ FlatEntries = Cardinality(F!UsedSlots)
      BY <1>1, <2>2, SameCount, FlatAssumptionHolds, F!UsedIsFinite
         DEF NodeInv, F!TableInv, F!EntriesCounted
    <3>2. FlatEntries \in Nat
      BY <3>1, FS_CardinalityType
    <3>3. entries \in Int
      BY <1>1 DEF NodeInv, CallInv
    <3>4. QED
      BY <3>2, <3>3 DEF FlatEntries
  <2>4. owner \in [Objects -> {"client", "table", "broken"}]
    BY <1>1 DEF NodeInv, OwnerInv
  <2>5. QED
    BY <1>1, <2>2, <2>3, <2>4 DEF TypeOK, NodeInv, CallInv, ResultInv
<1>2. QED
  BY <1>1, NodeSoundness, ResultSoundness, PTL

(* Nothing that the table owns is lost, nothing that it refers to is somebody else's. *)
THEOREM NoLeaks == Spec => []OwnedIsHeld
<1>1. NodeInv => OwnedIsHeld
  BY DEF NodeInv, OwnerInv
<1>2. QED
  BY <1>1, NodeSoundness, PTL

(* The client's destructor never gets an object twice, nor one that it must not have. *)
THEOREM NoDoubleFree == Spec => []DestroyedOnce
<1>1. NodeInv => DestroyedOnce
  BY DEF NodeInv, OwnerInv, DestroyedOnce
<1>2. QED
  BY <1>1, NodeSoundness, PTL

(* No probe leads to an object while its destructor runs, and one entry too many is counted. *)
THEOREM DyingIsGone == Spec => []DyingIsUnreachable
<1>1. ASSUME NodeInv, pc = "destruct", NEW g \in T!Groups, NEW p \in Positions
      PROVE  ~T!FindsAt(KeyOf[ret.arg], g, p)
  <2>1. ret.arg \in Objects /\ KeyOf[ret.arg] \in Keys /\ F!MemoryOK
    BY <1>1, NodeAssumption DEF NodeInv, CallInv, F!TableInv
  <2>2. ASSUME F!FindsAt(KeyOf[ret.arg], g, p)
        PROVE  <<g, p>> \in F!UsedSlots /\ table[g][p].key = KeyOf[ret.arg]
    <3>1. g \in F!Groups /\ p \in F!Positions
      BY <1>1, SameSlots
    <3>2. QED
      BY <2>1, <2>2, <3>1, FlatAssumptionHolds, F!FoundIsUsed
  <2>3. \A s \in F!UsedSlots : table[s[1]][s[2]].key # KeyOf[ret.arg]
    BY <1>1, SameSlots DEF NodeInv, CallInv
  <2>4. QED
    BY <2>2, <2>3, SameProbes
<1>2. ASSUME NodeInv, pc = "destruct"
      PROVE  entries = Cardinality(T!UsedSlots) + 1
  <2>1. entries - 1 = Cardinality(T!UsedSlots)
    BY <1>2, SameSlots, SameCount DEF NodeInv, F!TableInv, F!EntriesCounted, FlatEntries
  <2>2. entries \in Int
    BY <1>2 DEF NodeInv, CallInv
  <2>3. QED
    BY <2>1, <2>2
<1>3. NodeInv => DyingIsUnreachable
  BY <1>1, <1>2 DEF DyingIsUnreachable
<1>4. QED
  BY <1>3, NodeSoundness, PTL

(* What a lookup or an insertion returns is in the table when it returns, resized or not. *)
THEOREM ReturnedStays == Spec => []ReturnedIsOwned
<1>1. ResultInv => ReturnedIsOwned
  BY DEF ResultInv, ReturnedIsOwned
<1>2. QED
  BY <1>1, ResultSoundness, PTL

-----------------------------------------------------------------------------
(***************************************************************************)
(* What the last insertion has returned tells who owns the object that it  *)
(* was given, while a resize goes on and when it is over.                  *)
(***************************************************************************)
InsertInv ==
  /\ pc \in {"ready", "grow", "shrink", "rehash"} /\ ret.op = "insert" =>
       /\ owner[ret.arg] = "table" <=> ret.pointer = NULL
       /\ ret.pointer # NULL => KeyOf[ret.pointer] = KeyOf[ret.arg]
  /\ pc = "destruct" => ret.op # "insert"

LEMMA NextKeepsInsert ==
  ASSUME NodeInv, ResultInv, InsertInv, [Next]_vars
  PROVE  InsertInv'
<1>1. ret \in RetType /\ owner \in [Objects -> {"client", "table"}]
  BY DEF ResultInv, NodeInv, OwnerInv
<1>2. ASSUME NEW op, NEW arg, NEW code, NEW pointer, op # "insert",
             ret' = Result(op, arg, code, pointer)
      PROVE  InsertInv'
  BY <1>2 DEF Result, InsertInv
<1>3. CASE \/ BeginFree \/ WrongArgument
           \/ \E hint \in Hints : Create(hint) \/ CreateFails(hint)
           \/ \E k \in Keys : Search(k) \/ DeleteExisting(k) \/ DeleteMissing(k)
  BY <1>2, <1>3
     DEF BeginFree, WrongArgument, Create, CreateFails, Search, DeleteExisting, DeleteMissing
<1>4. ASSUME NEW o \in Objects, InsertExisting(o)
      PROVE  InsertInv'
  <2>1. pc = "ready" /\ owner[o] = "client" /\ owner' = owner /\ pc' \in {"ready", "grow"}
    BY <1>4 DEF InsertExisting, T!CheckUpper
  <2>2. PICK s \in T!UsedSlots :
               FindsAt(KeyOf[o], s) /\ ret' = Result("insert", o, T!HASH_OK, EntryAt(s))
    BY <1>4 DEF InsertExisting
  <2>3. EntryAt(s) # NULL /\ KeyOf[EntryAt(s)] = KeyOf[o]
    BY <2>1, <2>2, FoundIsOwned, NodeAssumption
  <2>4. ret'.arg = o /\ ret'.pointer = EntryAt(s)
    BY <2>2 DEF Result
  <2>5. QED
    BY <2>1, <2>3, <2>4 DEF InsertInv
<1>5. ASSUME NEW o \in Objects, InsertNew(o)
      PROVE  InsertInv'
  <2>1. ret'.arg = o /\ ret'.pointer = NULL /\ owner'[o] = "table" /\ pc' # "destruct"
    BY <1>1, <1>5 DEF InsertNew, Result, T!CheckUpper
  <2>2. QED
    BY <2>1 DEF InsertInv
<1>6. CASE ResizeFails \/ EndRehash
  <2>1. /\ ret'.op = ret.op /\ ret'.arg = ret.arg /\ ret'.pointer = ret.pointer
        /\ owner' = owner /\ pc \in {"grow", "shrink", "rehash"} /\ pc' = "ready"
    BY <1>1, <1>6 DEF ResizeFails, EndRehash, RetType
  <2>2. QED
    BY <2>1 DEF InsertInv
<1>7. CASE DestructReturns
  <2>1. ret' = ret /\ pc = "destruct" /\ pc' \in {"ready", "shrink"}
    BY <1>7 DEF DestructReturns, T!CheckLower
  <2>2. QED
    BY <2>1 DEF InsertInv
<1>8. CASE FreePair \/ EndFree \/ \E k \in Keys : Hang(k)
  BY <1>8 DEF FreePair, EndFree, Hang, InsertInv
<1>9. CASE StartRehash \/ MovePair \/ Spin \/ UNCHANGED vars
  BY <1>9 DEF StartRehash, MovePair, Spin, vars, InsertInv
<1>10. QED
  BY <1>3, <1>4, <1>5, <1>6, <1>7, <1>8, <1>9 DEF Next, Call, GoOn

(***************************************************************************)
(* The pointer that an insertion returns, not its code, tells the client   *)
(* who has to free the object, and does so whatever malloc does.           *)
(***************************************************************************)
THEOREM InsertionTellsOwner == Spec => []PointerTellsOwner
<1>1. Init => InsertInv
  BY DEF Init, Result, InsertInv
<1>2. NodeInv /\ ResultInv /\ InsertInv /\ [Next]_vars => InsertInv'
  BY NextKeepsInsert
<1>3. InsertInv => PointerTellsOwner
  BY DEF InsertInv, PointerTellsOwner
<1>4. QED
  BY <1>1, <1>2, <1>3, NodeSoundness, ResultSoundness, PTL DEF Spec

-----------------------------------------------------------------------------
(***************************************************************************)
(* The dictionary.  As the table refers to the objects that it owns and to *)
(* no other, who owns what is all that a client's dictionary depends on:   *)
(* no step of a resize changes it.                                         *)
(***************************************************************************)
LEMMA HeldHasKey ==
  ASSUME NodeInv, NEW o \in Held
  PROVE  /\ o \in Objects
         /\ \/ \E s \in F!UsedSlots : o = table[s[1]][s[2]].entry /\ table[s[1]][s[2]].key = KeyOf[o]
            \/ /\ pc = "rehash"
               /\ \E s \in left :
                    o = old_table[s[1]][s[2]].entry /\ old_table[s[1]][s[2]].key = KeyOf[o]
<1>1. CASE \E s \in T!UsedSlots : o = EntryAt(s)
  <2>1. PICK s \in T!UsedSlots : o = EntryAt(s)
    BY <1>1
  <2>2. RefersTo(table[s[1]][s[2]])
    BY DEF NodeInv, RefsInv
  <2>3. o \in Objects /\ table[s[1]][s[2]].key = KeyOf[o] /\ o = table[s[1]][s[2]].entry
    BY <2>1, <2>2, PairParts DEF EntryAt
  <2>4. QED
    BY <2>3, SameSlots
<1>2. CASE pc = "rehash" /\ \E s \in left : o = old_table[s[1]][s[2]].entry
  <2>1. PICK s \in left : o = old_table[s[1]][s[2]].entry
    BY <1>2
  <2>2. RefersTo(old_table[s[1]][s[2]])
    BY <1>2 DEF NodeInv, RefsInv
  <2>3. o \in Objects /\ old_table[s[1]][s[2]].key = KeyOf[o]
    BY <2>1, <2>2, PairParts
  <2>4. QED
    BY <1>2, <2>1, <2>3
<1>3. QED
  BY <1>1, <1>2 DEF Held, NodeInv, CallInv

LEMMA OneObjectPerKey ==
  ASSUME NodeInv, NEW a \in Objects, NEW b \in Objects,
         owner[a] = "table", owner[b] = "table", KeyOf[a] = KeyOf[b]
  PROVE  a = b
<1>1. a \in Held /\ b \in Held
  BY DEF NodeInv, OwnerInv, OwnedIsHeld
<1>2. F!KeysStoredOnce /\ (pc = "rehash" => FlatLeft = left)
  BY DEF NodeInv, F!TableInv, FlatLeft
<1>3. CASE \E s, t \in F!UsedSlots :
             /\ a = table[s[1]][s[2]].entry /\ table[s[1]][s[2]].key = KeyOf[a]
             /\ b = table[t[1]][t[2]].entry /\ table[t[1]][t[2]].key = KeyOf[b]
  BY <1>2, <1>3 DEF F!KeysStoredOnce
<1>4. CASE pc = "rehash" /\ \E s, t \in left :
             /\ a = old_table[s[1]][s[2]].entry /\ old_table[s[1]][s[2]].key = KeyOf[a]
             /\ b = old_table[t[1]][t[2]].entry /\ old_table[t[1]][t[2]].key = KeyOf[b]
  <2>1. \A s, t \in left : old_table[s[1]][s[2]].key = old_table[t[1]][t[2]].key => s = t
    BY <1>2, <1>4 DEF F!KeysStoredOnce
  <2>2. QED
    BY <1>4, <2>1
<1>5. CASE pc = "rehash" /\ \E s \in F!UsedSlots, t \in left :
             /\ table[s[1]][s[2]].key = KeyOf[a]
             /\ old_table[t[1]][t[2]].key = KeyOf[a]
  BY <1>2, <1>5 DEF F!KeysStoredOnce
<1>6. QED
  BY <1>1, <1>3, <1>4, <1>5, HeldHasKey

(* What the dictionary says of a key, in terms of owners. *)
OwnersMap ==
  pc # "free" =>
    /\ \A o \in Objects :
         owner[o] = "table" => ObjectOf(KeyOf[o]) = o /\ ObjectOf(KeyOf[o]) # NULL
    /\ \A k \in Keys :
         (\A o \in Objects : owner[o] = "table" => KeyOf[o] # k) => ObjectOf(k) = NULL

LEMMA OwnersMakeMap == NodeInv => OwnersMap
<1> SUFFICES ASSUME NodeInv, pc # "free"
             PROVE  OwnersMap
  BY DEF OwnersMap
<1>1. \A x \in Objects : owner[x] = "table" <=> x \in Held
  BY DEF NodeInv, OwnerInv, OwnedIsHeld
<1>2. ASSUME NEW o \in Objects, owner[o] = "table"
      PROVE  ObjectOf(KeyOf[o]) = o /\ ObjectOf(KeyOf[o]) # NULL
  <2>1. \A x \in Held : KeyOf[x] = KeyOf[o] => x = o
    BY <1>1, <1>2, HeldHasKey, OneObjectPerKey
  <2>2. QED
    BY <1>1, <1>2, <2>1, NodeAssumption DEF ObjectOf
<1>3. ASSUME NEW k \in Keys, \A o \in Objects : owner[o] = "table" => KeyOf[o] # k
      PROVE  ObjectOf(k) = NULL
  BY <1>1, <1>3, HeldHasKey DEF ObjectOf
<1>4. QED
  BY <1>2, <1>3 DEF OwnersMap

LEMMA OwnersMakeNextMap == NodeInv' => OwnersMap'
BY OwnersMakeMap, PTL

LEMMA SameOwnersSameMap ==
  ASSUME NodeInv, NodeInv', UNCHANGED owner, pc # "free", pc' # "free"
  PROVE  \A k \in Keys : ObjectOf(k)' = ObjectOf(k)
<1>1. OwnersMap /\ OwnersMap'
  BY OwnersMakeMap, OwnersMakeNextMap
<1>2. QED
  BY <1>1 DEF OwnersMap

-----------------------------------------------------------------------------
(* The simulation, call by call. *)
LEMMA InitSimulates ==
  ASSUME Init
  PROVE  Dictionary!Init
<1>1. Held = {}
  BY DEF Init, Held, T!UsedSlots, T!Groups
<1>2. \A k \in Keys : ObjectOf(k) = NULL
  BY <1>1 DEF ObjectOf
<1>3. Answer = NULL
  BY DEF Init, Answer, Result
<1>4. QED
  BY <1>2, <1>3 DEF Dictionary!Init, Dictionary!EmptyMap

LEMMA OtherSimulates ==
  ASSUME NodeInv, NodeInv',
         \/ WrongArgument
         \/ \E hint \in Hints : Create(hint) \/ CreateFails(hint)
  PROVE  Dictionary!Other
<1>1. UNCHANGED owner /\ pc # "free" /\ pc' # "free"
  BY DEF WrongArgument, Create, CreateFails
<1>2. Answer' = NULL
  <2>1. ret'.op \in {"wrong", "create"}
    BY DEF WrongArgument, Create, CreateFails, Result
  <2>2. QED
    BY <2>1 DEF Answer
<1>3. QED
  BY <1>1, <1>2, SameOwnersSameMap DEF Dictionary!Other

LEMMA FreeSimulates ==
  ASSUME BeginFree
  PROVE  Dictionary!Clear
<1>1. pc' = "free" /\ ret'.op = "free"
  BY DEF BeginFree, Result
<1>2. \A k \in Keys : ObjectOf(k)' = NULL
  BY <1>1 DEF ObjectOf
<1>3. Answer' = NULL
  BY <1>1 DEF Answer
<1>4. QED
  BY <1>2, <1>3 DEF Dictionary!Clear, Dictionary!EmptyMap

LEMMA MissedEntry ==
  ASSUME NodeInv, pc = "ready", NEW k \in Keys, T!Misses(k)
  PROVE  (\A o \in Objects : owner[o] = "table" => KeyOf[o] # k) /\ ObjectOf(k) = NULL
<1>1. \A s \in F!UsedSlots : table[s[1]][s[2]].key # k
  BY SameProbes, FlatAssumptionHolds, F!MissedIsAbsent DEF NodeInv
<1>2. \A o \in Objects : owner[o] = "table" => KeyOf[o] # k
  BY <1>1, HeldHasKey DEF NodeInv, OwnerInv, OwnedIsHeld
<1>3. QED
  BY <1>2, OwnersMakeMap DEF OwnersMap

LEMMA SearchSimulates ==
  ASSUME NodeInv, NodeInv', NEW k \in Keys, Search(k)
  PROVE  Dictionary!Search(k)
<1>1. pc = "ready" /\ pc' = "ready" /\ UNCHANGED owner
  BY DEF Search
<1>2. Answer' = <<k, ObjectOf(k)>>
  <2>1. ret' = Result("search", k, T!HASH_OK, ObjectOf(k))
    BY <1>1, FoundIsOwned, MissedEntry, OwnersMakeMap DEF Search, OwnersMap
  <2>2. QED
    BY <2>1 DEF Answer, Result
<1>3. QED
  BY <1>1, <1>2, SameOwnersSameMap DEF Dictionary!Search

LEMMA InsertExistingSimulates ==
  ASSUME NodeInv, NodeInv', NEW o \in Objects, InsertExisting(o)
  PROVE  Dictionary!Insert(KeyOf[o], o)
<1>1. pc = "ready" /\ pc' \in {"ready", "grow"} /\ UNCHANGED owner
  BY DEF InsertExisting, T!CheckUpper
<1>2. PICK s \in T!UsedSlots :
        FindsAt(KeyOf[o], s) /\ ret' = Result("insert", o, T!HASH_OK, EntryAt(s))
  BY DEF InsertExisting
<1>3. EntryAt(s) # NULL /\ ObjectOf(KeyOf[o]) # NULL
  BY <1>1, <1>2, FoundIsOwned, OwnersMakeMap, NodeAssumption DEF OwnersMap
<1>4. Answer' = <<KeyOf[o], TRUE>>
  <2>1. ret'.op = "insert" /\ ret'.arg = o /\ ret'.pointer # NULL
    BY <1>2, <1>3 DEF Result
  <2>2. QED
    BY <2>1 DEF Answer
<1>5. (\A k \in Keys : ObjectOf(k)' = ObjectOf(k)) /\ KeyOf[o] \in Keys
  BY <1>1, SameOwnersSameMap, NodeAssumption
<1> DEFINE d == KeyOf[o]
<1>6. d \in Keys /\ ObjectOf(d) # NULL /\ Answer' = <<d, TRUE>>
  BY <1>3, <1>4, <1>5
<1> HIDE DEF d
<1>7. Dictionary!Insert(d, o)
  BY <1>5, <1>6 DEF Dictionary!Insert
<1>8. QED
  BY <1>7 DEF d

LEMMA InsertNewSimulates ==
  ASSUME NodeInv, NodeInv', NEW o \in Objects, InsertNew(o)
  PROVE  Dictionary!Insert(KeyOf[o], o)
<1> DEFINE d == KeyOf[o]
<1>1. /\ pc = "ready" /\ pc' \in {"ready", "grow"} /\ d \in Keys
      /\ owner' = [owner EXCEPT ![o] = "table"]
  BY NodeAssumption DEF InsertNew, T!CheckUpper
<1>2. (\A x \in Objects : owner[x] = "table" => KeyOf[x] # d) /\ ObjectOf(d) = NULL
  BY <1>1, MissedEntry DEF InsertNew
<1>3. \A x \in Objects : owner'[x] = "table" <=> owner[x] = "table" \/ x = o
  BY <1>1 DEF NodeInv, OwnerInv
<1>4. OwnersMap /\ OwnersMap'
  BY OwnersMakeMap, OwnersMakeNextMap
<1>5. \A k \in Keys : ObjectOf(k)' = IF k = d THEN o ELSE ObjectOf(k)
  BY <1>1, <1>3, <1>4 DEF OwnersMap
<1>6. Answer' = <<d, FALSE>>
  <2>1. ret'.op = "insert" /\ ret'.arg = o /\ ret'.pointer = NULL
    BY DEF InsertNew, Result
  <2>2. QED
    BY <2>1 DEF Answer
<1> HIDE DEF d
<1>7. Dictionary!Insert(d, o)
  BY <1>1, <1>2, <1>5, <1>6 DEF Dictionary!Insert
<1>8. QED
  BY <1>7 DEF d

LEMMA DeleteSimulates ==
  ASSUME NodeInv, NodeInv', NEW d \in Keys, DeleteExisting(d) \/ DeleteMissing(d)
  PROVE  Dictionary!Delete(d)
<1>1. pc = "ready" /\ pc' # "free" /\ Answer' = NULL
  <2>1. ret'.op = "delete"
    <3>1. \E x, code : ret' = Result("delete", x, code, NULL)
      BY DEF DeleteExisting, DeleteMissing
    <3>2. QED
      BY <3>1 DEF Result
  <2>2. pc = "ready" /\ pc' # "free"
    BY DEF DeleteExisting, DeleteMissing, T!CheckLower
  <2>3. QED
    BY <2>1, <2>2 DEF Answer
<1>2. \A k \in Keys : ObjectOf(k)' = IF k = d THEN NULL ELSE ObjectOf(k)
  <2>1. CASE DeleteExisting(d)
    <3>1. PICK o \in Objects :
            owner[o] = "table" /\ KeyOf[o] = d /\ owner' = [owner EXCEPT ![o] = "client"]
      BY <1>1, <2>1, FoundIsOwned DEF DeleteExisting, Destruct
    <3>2. \A x \in Objects : owner'[x] = "table" <=> owner[x] = "table" /\ KeyOf[x] # d
      BY <3>1, OneObjectPerKey DEF NodeInv, OwnerInv
    <3>3. OwnersMap /\ OwnersMap'
      BY OwnersMakeMap, OwnersMakeNextMap
    <3>4. QED
      BY <1>1, <3>2, <3>3 DEF OwnersMap
  <2>2. CASE DeleteMissing(d)
    <3>1. UNCHANGED owner /\ T!Misses(d)
      BY <2>2 DEF DeleteMissing
    <3>2. QED
      BY <1>1, <3>1, MissedEntry, SameOwnersSameMap
  <2>3. QED
    BY <2>1, <2>2
<1>3. QED
  BY <1>1, <1>2 DEF Dictionary!Delete

(* The client sees nothing of what a call does after its first step. *)
LEMMA QuietSimulates ==
  ASSUME NodeInv, NodeInv', ResultInv, GoOn \/ Spin \/ UNCHANGED vars \/ \E k \in Keys : Hang(k)
  PROVE  UNCHANGED Dictionary!vars
<1>1. ret \in RetType
  BY DEF ResultInv
<1>2. ret'.op = ret.op /\ ret'.arg = ret.arg /\ ret'.pointer = ret.pointer
  BY <1>1
     DEF GoOn, DestructReturns, ResizeFails, StartRehash, MovePair, EndRehash, FreePair, EndFree,
         Spin, Hang, vars, RetType
<1>3. Answer' = Answer
  BY <1>2 DEF Answer
<1>4. CASE FreePair \/ EndFree
  <2>1. \A k \in Keys : ObjectOf(k) = NULL
    BY <1>4 DEF FreePair, EndFree, ObjectOf
  <2>2. CASE FreePair
    <3>1. \A k \in Keys : ObjectOf(k)' = NULL
      BY <2>2 DEF FreePair, ObjectOf
    <3>2. QED
      BY <1>3, <2>1, <3>1 DEF Dictionary!vars
  <2>3. CASE EndFree
    <3>1. Held' = {}
      BY <2>3 DEF EndFree, Held, T!UsedSlots, T!Groups
    <3>2. \A k \in Keys : ObjectOf(k)' = NULL
      BY <3>1 DEF ObjectOf
    <3>3. QED
      BY <1>3, <2>1, <3>2 DEF Dictionary!vars
  <2>4. QED
    BY <1>4, <2>2, <2>3
<1>5. CASE UNCHANGED vars
  <2>1. \A k \in Keys : ObjectOf(k)' = ObjectOf(k)
    BY <1>5 DEF vars, memory, ObjectOf, Held, EntryAt, T!UsedSlots, T!Groups
  <2>2. QED
    BY <1>3, <2>1 DEF Dictionary!vars
<1>6. CASE \/ DestructReturns \/ ResizeFails \/ StartRehash \/ MovePair \/ EndRehash
           \/ \E k \in Keys : Hang(k)
  <2>1. UNCHANGED owner /\ pc # "free" /\ pc' # "free"
    BY <1>6
       DEF DestructReturns, T!CheckLower, ResizeFails, StartRehash, MovePair, EndRehash, Hang
  <2>2. QED
    BY <1>3, <2>1, SameOwnersSameMap DEF Dictionary!vars
<1>7. QED
  BY <1>4, <1>5, <1>6 DEF GoOn, Spin

LEMMA CallSimulates ==
  ASSUME NodeInv, NodeInv', ResultInv, Call
  PROVE  Dictionary!Next \/ UNCHANGED Dictionary!vars
<1>1. CASE BeginFree \/ WrongArgument \/ \E hint \in Hints : Create(hint) \/ CreateFails(hint)
  BY <1>1, FreeSimulates, OtherSimulates DEF Dictionary!Next
<1>2. ASSUME NEW k \in Keys, Search(k) \/ DeleteExisting(k) \/ DeleteMissing(k)
      PROVE  Dictionary!Next
  BY <1>2, SearchSimulates, DeleteSimulates DEF Dictionary!Next
<1>3. ASSUME NEW o \in Objects, InsertExisting(o) \/ InsertNew(o)
      PROVE  Dictionary!Next
  <2>1. Dictionary!Insert(KeyOf[o], o) /\ KeyOf[o] \in Keys
    BY <1>3, InsertExistingSimulates, InsertNewSimulates, NodeAssumption
  <2>2. QED
    BY <2>1 DEF Dictionary!Next
<1>4. CASE \E k \in Keys : Hang(k)
  BY <1>4, QuietSimulates
<1>5. QED
  BY <1>1, <1>2, <1>3, <1>4 DEF Call

(***************************************************************************)
(* The node table answers as a dictionary does; its resizes, the return of *)
(* the destructor and the steps of ht_node_free after the first are        *)
(* invisible to its client.                                                *)
(***************************************************************************)
THEOREM NodeIsDictionary == Spec => ImplementsHashMap
<1>1. Init => Dictionary!Init
  BY InitSimulates
<1>2. NodeInv /\ NodeInv' /\ ResultInv /\ [Next]_vars => [Dictionary!Next]_(Dictionary!vars)
  BY CallSimulates, QuietSimulates DEF Next
<1>3. QED
  BY <1>1, <1>2, NodeSoundness, ResultSoundness, PTL DEF Spec, ImplementsHashMap, Dictionary!Spec

=============================================================================
