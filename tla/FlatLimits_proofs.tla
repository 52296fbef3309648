------------------------- MODULE FlatLimits_proofs -------------------------
(***************************************************************************)
(* The flat table at its limits: how full it may be, what a resize leaves  *)
(* and which tables make a probe go on for ever.                           *)
(*                                                                         *)
(* One fact on the limits is a hypothesis of the theorems that need it:    *)
(* UPPER_DIV >= 5 makes a table that a deletion has shrunk take its pairs, *)
(* for every size.  In the code it is 8.                                   *)
(***************************************************************************)
EXTENDS FlatHashtable_proofs

(***************************************************************************)
(* The limits.                                                             *)
(***************************************************************************)
LEMMA LimitBounds ==
  ASSUME NEW c \in Nat
  PROVE  UPPER_LIMIT(c) \in 0 .. c
<1>1. c \div UPPER_DIV \in 0 .. c
  <2>1. PICK d \in Nat \ {0} : d = UPPER_DIV
    BY CommonAssumption
  <2>2. c = d * (c \div d) + (c % d) /\ c % d \in 0 .. (d - 1) /\ c \div d \in Nat
    OBVIOUS
  <2>3. d * (c \div d) >= c \div d
    BY <2>2
  <2>4. QED
    BY <2>1, <2>2, <2>3
<1>2. QED
  BY <1>1 DEF UPPER_LIMIT

(* A table that doubles has room for all it could hold. *)
LEMMA GrowthLeavesRoom ==
  ASSUME UPPER_DIV >= 5, NEW c \in Nat, NEW n \in Nat, n <= c
  PROVE  n <= UPPER_LIMIT(2 * c)
<1>1. PICK d \in Nat \ {0} : d = UPPER_DIV /\ d >= 5
  BY CommonAssumption
<1>2. PICK q \in Nat : q = (2 * c) \div d
  OBVIOUS
<1>3. 2 * c = d * q + ((2 * c) % d) /\ (2 * c) % d >= 0
  BY <1>2
<1>4. d * q >= 5 * q
  BY <1>1
<1>5. QED
  BY <1>1, <1>2, <1>3, <1>4 DEF UPPER_LIMIT

(* A table of half the size has room for less than LOWER_LIMIT pairs. *)
LEMMA ShrinkLeavesRoom ==
  ASSUME UPPER_DIV >= 5, NEW c \in Nat, NEW n \in Nat, n < LOWER_LIMIT(2 * c)
  PROVE  n <= UPPER_LIMIT(c)
<1>1. PICK d \in Nat \ {0} : d = UPPER_DIV /\ d >= 5
  BY CommonAssumption
<1>2. PICK q \in Nat : q = c \div d
  OBVIOUS
<1>3. c = d * q + (c % d) /\ c % d >= 0
  BY <1>2
<1>4. d * q >= 5 * q
  BY <1>1
<1>5. n < ((2 * c) * 409) \div 1024
  BY DEF LOWER_LIMIT
<1>6. n <= c - q
  BY <1>3, <1>4, <1>5
<1>7. QED
  BY <1>1, <1>2, <1>6 DEF UPPER_LIMIT

(***************************************************************************)
(* The counter and the number of slots.                                    *)
(***************************************************************************)
LEMMA SlotsOfTable ==
  ASSUME group_num \in Nat
  PROVE  /\ Capacity \in Nat
         /\ IsFiniteSet(Groups \X Positions)
         /\ Cardinality(Groups \X Positions) = Capacity
<1>1. GROUP_SIZE \in Nat
  BY CommonAssumption
<1>2. IsFiniteSet(Groups) /\ Cardinality(Groups) = group_num
  BY FS_Interval DEF Groups
<1>3. IsFiniteSet(Positions) /\ Cardinality(Positions) = GROUP_SIZE
  BY <1>1, FS_Interval DEF Positions
<1>4. QED
  BY <1>1, <1>2, <1>3, FS_Product DEF Capacity

LEMMA EntriesFit ==
  ASSUME TableInv
  PROVE  entries \in 0 .. Capacity
<1>1. group_num \in Nat /\ entries = Cardinality(UsedSlots)
  BY DEF TableInv, MemoryOK, EntriesCounted
<1>2. UsedSlots \subseteq Groups \X Positions
  BY DEF UsedSlots
<1>3. Cardinality(UsedSlots) <= Capacity
  BY <1>1, <1>2, SlotsOfTable, FS_Subset
<1>4. Cardinality(UsedSlots) \in Nat
  BY <1>1, UsedIsFinite, FS_CardinalityType
<1>5. QED
  BY <1>1, <1>3, <1>4, SlotsOfTable

(***************************************************************************)
(* What a resize counts on: that the pairs copied and those left to copy   *)
(* fit, and that a table which is about to shrink is empty enough.         *)
(***************************************************************************)
RehashHasRoom ==
  /\ IsFiniteSet(left)
  /\ pc = "shrink" => entries < LOWER_LIMIT(Capacity)
  /\ pc = "rehash" => entries + Cardinality(left) <= UPPER_LIMIT(Capacity)

(* How a resize begins: from a table that is full, or from one that is rather empty. *)
LEMMA StartHasRoom ==
  ASSUME UPPER_DIV >= 5, TableInv, RehashHasRoom, StartRehash
  PROVE  RehashHasRoom'
<1>1. /\ group_num \in Nat /\ group_num > 1 /\ IsPowerOfTwo(group_num)
      /\ entries = Cardinality(UsedSlots)
  BY DEF TableInv, MemoryOK, SizeInv, EntriesCounted, StartRehash
<1>2. /\ pc \in {"grow", "shrink"} /\ pc' = "rehash" /\ group_num' = NewGroups
      /\ entries' = 0 /\ left' = UsedSlots
  BY DEF StartRehash
<1>3. GROUP_SIZE \in Nat
  BY CommonAssumption
<1>4. entries \in Nat /\ entries <= Capacity /\ Capacity \in Nat
  BY <1>1, EntriesFit, SlotsOfTable
<1>5. CASE pc = "grow"
  <2>1. Capacity' = 2 * Capacity
    BY <1>1, <1>2, <1>3, <1>5 DEF NewGroups, Capacity
  <2>2. entries <= UPPER_LIMIT(2 * Capacity)
    BY <1>4, GrowthLeavesRoom
  <2>3. QED
    BY <1>1, <1>2, <1>4, <2>1, <2>2, UsedIsFinite DEF RehashHasRoom
<1>6. CASE pc = "shrink"
  <2>1. group_num' \in Nat /\ group_num = 2 * group_num'
    BY <1>1, <1>2, <1>6, HalfPower DEF NewGroups
  <2>2. Capacity' \in Nat /\ Capacity = 2 * Capacity'
    <3>1. \A a, b \in Nat : a * b \in Nat /\ (2 * a) * b = 2 * (a * b)
      OBVIOUS
    <3>2. QED
      BY <1>3, <2>1, <3>1 DEF Capacity
  <2>3. entries < LOWER_LIMIT(2 * Capacity')
    BY <1>6, <2>2 DEF RehashHasRoom
  <2>4. entries <= UPPER_LIMIT(Capacity')
    BY <1>4, <2>2, <2>3, ShrinkLeavesRoom
  <2>5. QED
    BY <1>1, <1>2, <1>4, <2>4, UsedIsFinite DEF RehashHasRoom
<1>7. QED
  BY <1>2, <1>5, <1>6

LEMMA MoveHasRoom ==
  ASSUME TableInv, RehashHasRoom, MovePair
  PROVE  RehashHasRoom'
<1>1. PICK s \in left : left' = left \ {s} /\ entries' = entries + 1
  BY DEF MovePair, Put
<1>2. pc = "rehash" /\ pc' = "rehash" /\ Capacity' = Capacity
  BY DEF MovePair, Capacity
<1>3. IsFiniteSet(left') /\ Cardinality(left') = Cardinality(left) - 1 /\ Cardinality(left) \in Nat
  BY <1>1, FS_RemoveElement, FS_CardinalityType DEF RehashHasRoom
<1>4. entries \in Int
  BY DEF TableInv, MemoryOK
<1>5. QED
  BY <1>1, <1>2, <1>3, <1>4 DEF RehashHasRoom

LEMMA NextHasRoom ==
  ASSUME UPPER_DIV >= 5, TableInv, RehashHasRoom, [Next]_vars
  PROVE  RehashHasRoom'
<1>1. CASE StartRehash
  BY <1>1, StartHasRoom
<1>2. CASE MovePair
  BY <1>2, MoveHasRoom
<1>3. ASSUME NEW k \in Keys, DeleteExisting(k) \/ DeleteMissing(k)
      PROVE  RehashHasRoom'
  BY <1>3 DEF RehashHasRoom, DeleteExisting, DeleteMissing, CheckLower, Capacity, memory
<1>4. ASSUME Lifetime \/ WrongArgument \/ ResizeFails \/ EndRehash
      PROVE  RehashHasRoom'
  BY <1>4
     DEF RehashHasRoom, Lifetime, Create, CreateFails, Free, WrongArgument, ResizeFails, EndRehash,
         memory
<1>5. ASSUME NEW k \in Keys, Search(k) \/ Hang(k)
      PROVE  RehashHasRoom'
  BY <1>5 DEF RehashHasRoom, Search, Hang, memory
<1>6. ASSUME NEW k \in Keys, NEW e \in Entries,
             \/ InsertExisting(k, e)
             \/ EmplaceExisting(k, e)
             \/ \E op \in {"insert", "emplace"} : InsertNew(op, k, e)
      PROVE  RehashHasRoom'
  BY <1>6 DEF RehashHasRoom, InsertExisting, EmplaceExisting, InsertNew, CheckUpper, memory
<1>7. CASE UNCHANGED vars
  BY <1>7 DEF RehashHasRoom, vars, memory, Capacity
<1>8. QED
  BY <1>1, <1>2, <1>3, <1>4, <1>5, <1>6, <1>7 DEF Next, Call, ResizeStep, Spin

LEMMA RoomInvariant ==
  ASSUME UPPER_DIV >= 5
  PROVE  Spec => []RehashHasRoom
<1>1. Init => RehashHasRoom
  BY FS_EmptySet DEF Init, RehashHasRoom
<1>2. TableInv /\ RehashHasRoom /\ [Next]_vars => RehashHasRoom'
  BY NextHasRoom
<1>3. QED
  BY <1>1, <1>2, TableInvariant, PTL DEF Spec

(***************************************************************************)
(* A resize, be it a growth or a shrink, ends within the upper limit, and  *)
(* so does not call for the next one.                                      *)
(***************************************************************************)
THEOREM ResizeSettles ==
  ASSUME UPPER_DIV >= 5
  PROVE  Spec => RehashLeavesRoom
<1>1. TableInv /\ RehashHasRoom /\ [Next]_vars =>
        [pc = "rehash" /\ pc' = "ready" => entries' <= UPPER_LIMIT(Capacity')]_vars
  <2>1. SUFFICES ASSUME TableInv, RehashHasRoom, Next, pc = "rehash", pc' = "ready"
                 PROVE  entries' <= UPPER_LIMIT(Capacity')
    OBVIOUS
  <2>2. EndRehash
    BY <2>1
       DEF Next, Lifetime, Create, CreateFails, Free, Call, WrongArgument, Search, DeleteExisting,
           DeleteMissing, Hang, InsertExisting, EmplaceExisting, InsertNew, ResizeStep,
           ResizeFails, StartRehash, MovePair, Spin
  <2>3. left = {} /\ entries' = entries /\ Capacity' = Capacity
    BY <2>2 DEF EndRehash, Capacity
  <2>4. entries \in Int /\ Cardinality(left) = 0
    BY <2>1, <2>3, FS_EmptySet DEF TableInv, MemoryOK
  <2>5. QED
    BY <2>1, <2>3, <2>4 DEF RehashHasRoom
<1>2. QED
  BY <1>1, TableInvariant, RoomInvariant, PTL DEF Spec, RehashLeavesRoom

-----------------------------------------------------------------------------
(***************************************************************************)
(* Probes that never stop.                                                 *)
(***************************************************************************)
LEMMA SpinningSeesAll ==
  ASSUME TableInv, group_num > 0, NEW k \in Keys, Spins(k)
  PROVE  \A g \in Groups : ~HasEmpty(bitmap[g])
<1>1. SUFFICES ASSUME NEW g \in Groups
               PROVE  ~HasEmpty(bitmap[g])
  OBVIOUS
<1>2. group_num \in Nat /\ IsPowerOfTwo(group_num)
  BY DEF TableInv, MemoryOK, SizeInv
<1>3. PICK j \in Groups : ProbeGroup(k, j, group_num) = g
  BY <1>2, ProbesReachEveryGroup DEF Groups
<1>4. QED
  BY <1>3 DEF Spins, PassesBy

LEMMA HungByHang ==
  ASSUME [Next]_vars, pc' = "hung"
  PROVE  /\ UNCHANGED memory
         /\ pc = "hung" \/ (pc = "ready" /\ \E k \in Keys : Spins(k))
<1>1. \/ \E k \in Keys : Hang(k)
      \/ pc = "hung" /\ UNCHANGED vars
  BY DEF Next, Lifetime, Create, CreateFails, Free, Call, WrongArgument, Search, DeleteExisting,
         DeleteMissing, InsertExisting, EmplaceExisting, InsertNew, ResizeStep,
         ResizeFails, StartRehash, MovePair, EndRehash, Spin, CheckUpper, CheckLower, vars
<1>2. QED
  BY <1>1 DEF Hang, vars

LEMMA NextHangsFull ==
  ASSUME TableInv, HungTableHasNoEmptySlot, [Next]_vars
  PROVE  HungTableHasNoEmptySlot'
<1>1. SUFFICES ASSUME pc' = "hung", NEW g \in Groups'
               PROVE  ~HasEmpty(bitmap'[g])
  BY DEF HungTableHasNoEmptySlot
<1>2. /\ UNCHANGED memory
      /\ pc = "hung" \/ (pc = "ready" /\ \E k \in Keys : Spins(k))
  BY <1>1, HungByHang
<1>3. g \in Groups /\ bitmap'[g] = bitmap[g]
  BY <1>2 DEF Groups, memory
<1>4. group_num > 0
  BY <1>2 DEF TableInv, MemoryOK, SizeInv
<1>5. QED
  BY <1>2, <1>3, <1>4, SpinningSeesAll DEF HungTableHasNoEmptySlot

(***************************************************************************)
(* With either probe sequence, a probe that goes on for ever does so in a  *)
(* table without a single empty slot: no empty slot is out of its reach.   *)
(***************************************************************************)
THEOREM HungTableIsFull == Spec => []HungTableHasNoEmptySlot
<1>1. Init => HungTableHasNoEmptySlot
  BY DEF Init, HungTableHasNoEmptySlot
<1>2. TableInv /\ HungTableHasNoEmptySlot /\ [Next]_vars => HungTableHasNoEmptySlot'
  BY NextHangsFull
<1>3. QED
  BY <1>1, <1>2, TableInvariant, PTL DEF Spec

-----------------------------------------------------------------------------
(***************************************************************************)
(* Executions in which every resize gets its memory.  The load is within   *)
(* the limit whenever a call begins or a probe hangs, and what a call is   *)
(* to return is an entry of the table, which no resize will free.          *)
(***************************************************************************)
ReliableInv ==
  /\ pc \in {"ready", "hung"} => entries <= UPPER_LIMIT(Capacity)
  /\ pc \in {"grow", "shrink", "rehash"} => ret.pointer = NULL
  /\ ReturnedEntryIsLive

LEMMA LifetimeIsReliable ==
  ASSUME TableInv, ReliableInv, Lifetime
  PROVE  ReliableInv'
<1>1. ASSUME NEW hint \in Hints, Create(hint)
      PROVE  ReliableInv'
  <2>1. group_num' \in Nat /\ pc' = "ready" /\ entries' = 0 /\ ret'.pointer = NULL
    BY <1>1, FlatAssumption, InitialGroupsArePower DEF Create, Result
  <2>2. Capacity' \in Nat
    <3>1. \A a, b \in Nat : a * b \in Nat
      OBVIOUS
    <3>2. QED
      BY <2>1, <3>1, CommonAssumption DEF Capacity
  <2>3. UPPER_LIMIT(Capacity') >= 0
    BY <2>2, LimitBounds
  <2>4. QED
    BY <2>1, <2>3 DEF ReliableInv, ReturnedEntryIsLive
<1>2. ASSUME NEW hint \in Hints, CreateFails(hint)
      PROVE  ReliableInv'
  BY <1>2 DEF CreateFails, ReliableInv, ReturnedEntryIsLive
<1>3. ASSUME Free
      PROVE  ReliableInv'
  BY <1>3 DEF Free, ReliableInv, ReturnedEntryIsLive
<1>4. QED
  BY <1>1, <1>2, <1>3 DEF Lifetime

LEMMA LookupIsReliable ==
  ASSUME TableInv, ReliableInv, pc = "ready", UNCHANGED memory,
         NEW k \in Keys, NEW g \in Groups, NEW p \in Positions, FindsAt(k, g, p),
         ret'.pointer = <<g, p>>, pc' = "ready" \/ CheckUpper
  PROVE  ReliableInv'
<1>1. entries' = entries /\ Capacity' = Capacity /\ UsedSlots' = UsedSlots
  BY DEF memory, Capacity, UsedSlots, Groups
<1>2. entries <= UPPER_LIMIT(Capacity)
  BY DEF ReliableInv
<1>3. ~(entries > UPPER_LIMIT(Capacity))
  <2>1. entries \in Int /\ UPPER_LIMIT(Capacity) \in Int
    BY SlotsOfTable, LimitBounds DEF TableInv, MemoryOK
  <2>2. QED
    BY <1>2, <2>1
<1>4. pc' = "ready"
  BY <1>1, <1>3 DEF CheckUpper
<1>5. <<g, p>> \in UsedSlots
  BY FoundIsUsed DEF TableInv
<1>6. QED
  BY <1>1, <1>2, <1>4, <1>5 DEF ReliableInv, ReturnedEntryIsLive

LEMMA CallIsReliable ==
  ASSUME TableInv, ReliableInv, Call
  PROVE  ReliableInv'
<1>1. entries \in Int /\ entries' \in Int /\ pc = "ready" /\ Capacity' = Capacity
  <2>1. TableInv'
    BY CallStep
  <2>2. pc = "ready" /\ group_num' = group_num
    BY DEF Call, WrongArgument, Search, DeleteExisting, DeleteMissing, Hang, InsertExisting,
           EmplaceExisting, InsertNew, memory
  <2>3. QED
    BY <2>1, <2>2 DEF TableInv, MemoryOK, Capacity
<1>2. UPPER_LIMIT(Capacity) \in Int /\ entries <= UPPER_LIMIT(Capacity)
  BY <1>1, SlotsOfTable, LimitBounds DEF TableInv, MemoryOK, ReliableInv
<1>3. ASSUME ret'.pointer = NULL,
             \/ (pc' = "ready" /\ entries' <= entries)
             \/ CheckUpper
             \/ (CheckLower /\ entries' <= entries)
      PROVE  ReliableInv'
  BY <1>1, <1>2, <1>3 DEF ReliableInv, ReturnedEntryIsLive, CheckUpper, CheckLower
<1>4. CASE WrongArgument
  BY <1>1, <1>3, <1>4 DEF WrongArgument, Result, memory
<1>5. ASSUME NEW k \in Keys, Search(k)
      PROVE  ReliableInv'
  <2>1. CASE ret'.pointer = NULL
    BY <1>1, <1>3, <1>5, <2>1 DEF Search, memory
  <2>2. CASE ret'.pointer # NULL
    <3>1. PICK g \in Groups, p \in Positions : FindsAt(k, g, p) /\ ret'.pointer = <<g, p>>
      BY <1>5, <2>2 DEF Search, Result
    <3>2. QED
      BY <1>1, <1>5, <3>1, LookupIsReliable DEF Search
  <2>3. QED
    BY <2>1, <2>2
<1>6. ASSUME NEW k \in Keys, NEW e \in Entries, InsertExisting(k, e)
      PROVE  ReliableInv'
  <2>1. PICK g \in Groups, p \in Positions : FindsAt(k, g, p) /\ ret'.pointer = <<g, p>>
    BY <1>6 DEF InsertExisting, Result
  <2>2. QED
    BY <1>1, <1>6, <2>1, LookupIsReliable DEF InsertExisting
<1>7. ASSUME NEW k \in Keys, NEW e \in Entries,
             EmplaceExisting(k, e) \/ \E op \in {"insert", "emplace"} : InsertNew(op, k, e)
      PROVE  ReliableInv'
  BY <1>3, <1>7 DEF EmplaceExisting, InsertNew, Result
<1>8. ASSUME NEW k \in Keys, DeleteExisting(k) \/ DeleteMissing(k)
      PROVE  ReliableInv'
  BY <1>1, <1>3, <1>8 DEF DeleteExisting, DeleteMissing, Result, memory
<1>9. ASSUME NEW k \in Keys, Hang(k)
      PROVE  ReliableInv'
  BY <1>1, <1>2, <1>9 DEF Hang, ReliableInv, ReturnedEntryIsLive, memory
<1>10. QED
  BY <1>4, <1>5, <1>6, <1>7, <1>8, <1>9 DEF Call

LEMMA ResizeIsReliable ==
  ASSUME TableInv, ret \in RetType, RehashHasRoom, ReliableInv, ResizeStep, ~ResizeFails
  PROVE  ReliableInv'
<1>1. CASE StartRehash
  BY <1>1 DEF StartRehash, ReliableInv, ReturnedEntryIsLive
<1>2. CASE MovePair
  BY <1>2 DEF MovePair, ReliableInv, ReturnedEntryIsLive
<1>3. CASE EndRehash
  <2>1. /\ pc = "rehash" /\ pc' = "ready" /\ left = {} /\ entries' = entries
        /\ Capacity' = Capacity
    BY <1>3 DEF EndRehash, Capacity
  <2>2. entries <= UPPER_LIMIT(Capacity)
    <3>1. entries \in Int /\ Cardinality(left) = 0
      BY <2>1, FS_EmptySet DEF TableInv, MemoryOK
    <3>2. QED
      BY <2>1, <3>1 DEF RehashHasRoom
  <2>3. ret'.pointer = NULL
    <3>1. ret.pointer = NULL
      BY <2>1 DEF ReliableInv
    <3>2. QED
      BY <1>3, <3>1 DEF EndRehash, RetType
  <2>4. QED
    BY <2>1, <2>2, <2>3 DEF ReliableInv, ReturnedEntryIsLive
<1>4. QED
  BY <1>1, <1>2, <1>3 DEF ResizeStep

LEMMA NextIsReliable ==
  ASSUME IndInv, RehashHasRoom, ReliableInv, [Next]_vars, [~ResizeFails]_vars
  PROVE  ReliableInv'
<1>1. CASE UNCHANGED vars
  BY <1>1 DEF vars, memory, ReliableInv, ReturnedEntryIsLive, Capacity, UsedSlots, Groups
<1>2. CASE Next /\ ~ResizeFails
  BY <1>1, <1>2, LifetimeIsReliable, CallIsReliable, ResizeIsReliable DEF Next, Spin, IndInv, TypeOK
<1>3. QED
  BY <1>1, <1>2

LEMMA ReliableInvariant ==
  ASSUME UPPER_DIV >= 5
  PROVE  Spec /\ AllocationsSucceed => []ReliableInv
<1>1. Init => ReliableInv
  BY DEF Init, ReliableInv, ReturnedEntryIsLive
<1>2. IndInv /\ RehashHasRoom /\ ReliableInv /\ [Next]_vars /\ [~ResizeFails]_vars => ReliableInv'
  BY NextIsReliable
<1>3. QED
  BY <1>1, <1>2, Soundness, RoomInvariant, PTL DEF Spec, AllocationsSucceed

(* As long as malloc does not fail, no call begins in a table that is too full. *)
THEOREM LoadIsLimited ==
  ASSUME UPPER_DIV >= 5
  PROVE  Spec /\ AllocationsSucceed => []LoadWithinLimit
<1>1. ReliableInv => LoadWithinLimit
  BY DEF ReliableInv, LoadWithinLimit
<1>2. QED
  BY <1>1, ReliableInvariant, PTL

(***************************************************************************)
(* As long as malloc does not fail, what a lookup or an insertion returns  *)
(* is in the table: no call that finds its key resizes the table.          *)
(***************************************************************************)
THEOREM ReturnedIsLive ==
  ASSUME UPPER_DIV >= 5
  PROVE  Spec /\ AllocationsSucceed => []ReturnedEntryIsLive
<1>1. ReliableInv => ReturnedEntryIsLive
  BY DEF ReliableInv
<1>2. QED
  BY <1>1, ReliableInvariant, PTL

(* In a table without EMPTY every slot is in use or a tombstone, and its load bounds the former. *)
LEMMA FullOfTombstones ==
  ASSUME TableInv, pc = "hung", ReliableInv, HungTableHasNoEmptySlot
  PROVE  OnlyTombstonesHang
<1>1. MemoryOK /\ group_num \in Nat /\ entries = Cardinality(UsedSlots)
  BY DEF TableInv, MemoryOK, EntriesCounted
<1>2. IsFiniteSet(Groups \X Positions) /\ Cardinality(Groups \X Positions) = Capacity
  BY <1>1, SlotsOfTable
<1>3. ASSUME NEW g \in Groups, NEW p \in Positions
      PROVE  <<g, p>> \in UsedSlots <=> bitmap[g][p] # ENTRY_DELETED
  <2>1. bitmap[g][p] # ENTRY_EMPTY
    BY DEF HungTableHasNoEmptySlot, HasEmpty, EqMask
  <2>2. bitmap[g][p] \in Ctrl
    BY <1>1 DEF MemoryOK
  <2>3. bitmap[g][p] \in Tags <=> bitmap[g][p] # ENTRY_DELETED
    BY <2>1, <2>2 DEF Ctrl, Tags, ENTRY_DELETED
  <2>4. QED
    BY <1>1, <2>3, UsedIsTagged
<1>4. /\ UsedSlots \subseteq Groups \X Positions
      /\ Tombstones = (Groups \X Positions) \ UsedSlots
  BY <1>3 DEF UsedSlots, Tombstones
<1>5. Cardinality(Tombstones) = Capacity - entries
  <2>1. UsedSlots = (Groups \X Positions) \cap UsedSlots
    BY <1>4
  <2>2. \A S, T : IsFiniteSet(S) =>
          Cardinality(S \ T) = Cardinality(S) - Cardinality(S \cap T)
    BY FS_Difference
  <2>3. Cardinality(Tombstones) = Cardinality(Groups \X Positions) - Cardinality(UsedSlots)
    <3> DEFINE A == Groups \X Positions
    <3>1. IsFiniteSet(A) /\ Tombstones = A \ UsedSlots /\ UsedSlots = A \cap UsedSlots
      BY <1>2, <1>4, <2>1
    <3> HIDE DEF A
    <3>2. Cardinality(Tombstones) = Cardinality(A) - Cardinality(UsedSlots)
      BY <2>2, <3>1
    <3>3. QED
      BY <3>2 DEF A
  <2>4. QED
    BY <1>1, <1>2, <2>3
<1>6. entries <= UPPER_LIMIT(Capacity)
  BY DEF ReliableInv
<1>7. entries \in Int /\ Capacity \in Nat /\ UPPER_LIMIT(Capacity) \in Int
  BY <1>1, SlotsOfTable, LimitBounds DEF MemoryOK
<1>8. QED
  BY <1>5, <1>6, <1>7 DEF OnlyTombstonesHang

(***************************************************************************)
(* As long as malloc does not fail, a client that never deletes is always  *)
(* answered: a table on which a probe hangs has as many tombstones as its  *)
(* limit leaves slots free.                                                *)
(***************************************************************************)
THEOREM TombstonesHang ==
  ASSUME UPPER_DIV >= 5
  PROVE  Spec /\ AllocationsSucceed => []OnlyTombstonesHang
<1>1. TableInv /\ ReliableInv /\ HungTableHasNoEmptySlot => OnlyTombstonesHang
  BY FullOfTombstones DEF OnlyTombstonesHang
<1>2. QED
  BY <1>1, TableInvariant, ReliableInvariant, HungTableIsFull, PTL

-----------------------------------------------------------------------------
(***************************************************************************)
(* What a call tells its client, whatever fails.  While a call resizes it  *)
(* may have a pointer to return: then it is an insertion that has found    *)
(* its key, and the pointer is good until the old table is freed.          *)
(***************************************************************************)
KeyAtPointer == ret.pointer \in UsedSlots /\ table[ret.pointer[1]][ret.pointer[2]].key = ret.key

PointerInv ==
  /\ PointerIsOfKeyOrFreed
  /\ pc \in {"grow", "shrink", "rehash"} /\ ret.pointer # NULL => ret.op = "insert" /\ ret.hit
  /\ pc \in {"grow", "shrink"} /\ ret.pointer # NULL => KeyAtPointer

LEMMA CallKeepsPointer ==
  ASSUME TableInv, PointerInv, Call
  PROVE  PointerInv'
<1>1. ASSUME ret'.pointer = NULL
      PROVE  PointerInv'
  BY <1>1 DEF PointerInv, PointerIsOfKeyOrFreed
<1>2. ASSUME NEW k \in Keys, NEW g \in Groups, NEW p \in Positions, FindsAt(k, g, p),
             NEW op, ret' = Result(op, k, TRUE, HASH_OK, <<g, p>>), UNCHANGED memory,
             pc' = "ready" \/ op = "insert"
      PROVE  PointerInv'
  <2>1. ret'.pointer = <<g, p>> /\ ret'.key = k /\ ret'.op = op /\ ret'.hit
    BY <1>2 DEF Result
  <2>2. <<g, p>> \in UsedSlots /\ table[g][p].key = k
    BY <1>2, FoundIsUsed DEF TableInv
  <2>3. UsedSlots' = UsedSlots /\ table' = table
    BY <1>2 DEF memory, UsedSlots, Groups
  <2>4. KeyAtPointer'
    BY <2>1, <2>2, <2>3 DEF KeyAtPointer
  <2>5. QED
    BY <1>2, <2>1, <2>4 DEF PointerInv, PointerIsOfKeyOrFreed, KeyAtPointer
<1>3. CASE WrongArgument
  BY <1>1, <1>3 DEF WrongArgument, Result
<1>4. ASSUME NEW k \in Keys, Search(k)
      PROVE  PointerInv'
  <2>1. CASE ret' = Result("search", k, FALSE, HASH_OK, NULL)
    BY <1>1, <2>1 DEF Result
  <2>2. CASE \E g \in Groups, p \in Positions :
               FindsAt(k, g, p) /\ ret' = Result("search", k, TRUE, HASH_OK, <<g, p>>)
    <3>1. UNCHANGED memory /\ pc' = "ready"
      BY <1>4 DEF Search
    <3>2. QED
      BY <1>2, <2>2, <3>1
  <2>3. QED
    BY <1>4, <2>1, <2>2 DEF Search
<1>5. ASSUME NEW k \in Keys, NEW e \in Entries, InsertExisting(k, e)
      PROVE  PointerInv'
  <2>1. UNCHANGED memory
    BY <1>5 DEF InsertExisting
  <2>2. PICK g \in Groups, p \in Positions :
               FindsAt(k, g, p) /\ ret' = Result("insert", k, TRUE, HASH_OK, <<g, p>>)
    BY <1>5 DEF InsertExisting
  <2>3. QED
    BY <1>2, <2>1, <2>2
<1>6. ASSUME NEW k \in Keys, NEW e \in Entries,
             EmplaceExisting(k, e) \/ \E op \in {"insert", "emplace"} : InsertNew(op, k, e)
      PROVE  PointerInv'
  BY <1>1, <1>6 DEF EmplaceExisting, InsertNew, Result
<1>7. ASSUME NEW k \in Keys, DeleteExisting(k) \/ DeleteMissing(k)
      PROVE  PointerInv'
  BY <1>1, <1>7 DEF DeleteExisting, DeleteMissing, Result
<1>8. ASSUME NEW k \in Keys, Hang(k)
      PROVE  PointerInv'
  BY <1>8 DEF Hang, PointerInv, PointerIsOfKeyOrFreed
<1>9. QED
  BY <1>3, <1>4, <1>5, <1>6, <1>7, <1>8 DEF Call

LEMMA NextKeepsPointer ==
  ASSUME IndInv, PointerInv, [Next]_vars
  PROVE  PointerInv'
<1>1. CASE Lifetime
  BY <1>1
     DEF Lifetime, Create, CreateFails, Free, Result, PointerInv, PointerIsOfKeyOrFreed
<1>2. CASE Call
  BY <1>2, CallKeepsPointer DEF IndInv
<1>3. CASE ResizeFails
  <2>1. /\ ret'.pointer = ret.pointer /\ ret'.key = ret.key /\ ret'.op = ret.op /\ ret'.hit = ret.hit
        /\ pc \in {"grow", "shrink"} /\ pc' = "ready"
    BY <1>3 DEF ResizeFails, IndInv, TypeOK, RetType
  <2>2. UsedSlots' = UsedSlots /\ table' = table
    BY <1>3 DEF ResizeFails, memory, UsedSlots, Groups
  <2>3. QED
    BY <2>1, <2>2 DEF PointerInv, PointerIsOfKeyOrFreed, KeyAtPointer
<1>4. CASE StartRehash \/ MovePair
  BY <1>4 DEF StartRehash, MovePair, PointerInv, PointerIsOfKeyOrFreed
<1>5. CASE EndRehash
  <2>1. /\ ret'.pointer = IF ret.pointer = NULL THEN NULL ELSE FREED
        /\ ret'.op = ret.op /\ ret'.hit = ret.hit
        /\ pc = "rehash" /\ pc' = "ready"
    BY <1>5 DEF EndRehash, IndInv, TypeOK, RetType
  <2>2. QED
    BY <2>1 DEF PointerInv, PointerIsOfKeyOrFreed
<1>6. CASE UNCHANGED vars
  BY <1>6 DEF vars, memory, PointerInv, PointerIsOfKeyOrFreed, KeyAtPointer, UsedSlots, Groups
<1>7. QED
  BY <1>1, <1>2, <1>3, <1>4, <1>5, <1>6 DEF Next, ResizeStep, Spin

(***************************************************************************)
(* Whatever allocations fail, a pointer that is returned is of the key     *)
(* asked for, unless the insertion that found it has grown the table.      *)
(***************************************************************************)
THEOREM PointerIsSound == Spec => []PointerIsOfKeyOrFreed
<1>1. Init => PointerInv
  BY DEF Init, Result, PointerInv, PointerIsOfKeyOrFreed
<1>2. IndInv /\ PointerInv /\ [Next]_vars => PointerInv'
  BY NextKeepsPointer
<1>3. PointerInv => PointerIsOfKeyOrFreed
  BY DEF PointerInv
<1>4. QED
  BY <1>1, <1>2, <1>3, Soundness, PTL DEF Spec

-----------------------------------------------------------------------------
(* What a resize is for, and what the code says when it is over. *)
CodeInv ==
  /\ CodeTellsLoad
  /\ pc = "grow" => ret.op \in {"insert", "emplace"} /\ entries > UPPER_LIMIT(Capacity)
  /\ pc = "shrink" => ret.op = "delete" /\ entries < LOWER_LIMIT(Capacity) /\ group_num # 2

LEMMA CallKeepsCode ==
  ASSUME TableInv, CodeInv, Call
  PROVE  CodeInv'
<1>1. entries' \in Int /\ UPPER_LIMIT(Capacity) \in Int /\ Capacity' = Capacity /\ group_num' = group_num
  <2>1. TableInv'
    BY CallStep
  <2>2. group_num' = group_num
    BY DEF Call, WrongArgument, Search, DeleteExisting, DeleteMissing, Hang, InsertExisting,
           EmplaceExisting, InsertNew, memory
  <2>3. QED
    BY <2>1, <2>2, SlotsOfTable, LimitBounds DEF TableInv, MemoryOK, Capacity
<1>2. ASSUME ret'.op \in {"insert", "emplace"}, ret'.code = HASH_OK, CheckUpper
      PROVE  CodeInv'
  BY <1>1, <1>2 DEF CodeInv, CodeTellsLoad, CheckUpper
<1>3. ASSUME ret'.op = "delete", ret'.code \in {HASH_OK, HASH_ENTRY_NOT_EXISTS}, CheckLower
      PROVE  CodeInv'
  BY <1>1, <1>3
     DEF CodeInv, CodeTellsLoad, CheckLower, HASH_OK, HASH_ENTRY_NOT_EXISTS, HASH_REHASH_MEM_ALLOC
<1>4. CASE WrongArgument \/ \E k \in Keys : Search(k) \/ Hang(k)
  BY <1>4 DEF WrongArgument, Search, Hang, Result, CodeInv, CodeTellsLoad
<1>5. ASSUME NEW k \in Keys, NEW e \in Entries,
             \/ InsertExisting(k, e) \/ EmplaceExisting(k, e)
             \/ \E op \in {"insert", "emplace"} : InsertNew(op, k, e)
      PROVE  CodeInv'
  BY <1>2, <1>5 DEF InsertExisting, EmplaceExisting, InsertNew, Result
<1>6. ASSUME NEW k \in Keys, DeleteExisting(k) \/ DeleteMissing(k)
      PROVE  CodeInv'
  BY <1>3, <1>6 DEF DeleteExisting, DeleteMissing, Result
<1>7. QED
  BY <1>4, <1>5, <1>6 DEF Call

LEMMA NextKeepsCode ==
  ASSUME IndInv, RehashHasRoom, CodeInv, [Next]_vars
  PROVE  CodeInv'
<1>1. CASE Lifetime
  BY <1>1 DEF Lifetime, Create, CreateFails, Free, Result, CodeInv, CodeTellsLoad
<1>2. CASE Call
  BY <1>2, CallKeepsCode DEF IndInv
<1>3. CASE ResizeFails
  <2>1. /\ ret'.code = HASH_REHASH_MEM_ALLOC /\ ret'.op = ret.op
        /\ pc \in {"grow", "shrink"} /\ pc' = "ready"
    BY <1>3 DEF ResizeFails, IndInv, TypeOK, RetType
  <2>2. entries' = entries /\ Capacity' = Capacity /\ group_num' = group_num
    BY <1>3 DEF ResizeFails, memory, Capacity
  <2>3. entries \in Int /\ UPPER_LIMIT(Capacity) \in Int
    BY SlotsOfTable, LimitBounds DEF IndInv, TableInv, MemoryOK
  <2>4. QED
    BY <2>1, <2>2, <2>3 DEF CodeInv, CodeTellsLoad, HASH_OK, HASH_REHASH_MEM_ALLOC
<1>4. CASE StartRehash \/ MovePair
  BY <1>4 DEF StartRehash, MovePair, CodeInv, CodeTellsLoad
<1>5. CASE EndRehash
  <2>1. ret'.code = HASH_OK /\ pc = "rehash" /\ pc' = "ready"
    BY <1>5 DEF EndRehash, IndInv, TypeOK, RetType
  <2>2. left = {} /\ entries' = entries /\ Capacity' = Capacity
    BY <1>5 DEF EndRehash, Capacity
  <2>3. entries \in Int /\ Cardinality(left) = 0
    BY <2>2, FS_EmptySet DEF IndInv, TableInv, MemoryOK
  <2>4. entries <= UPPER_LIMIT(Capacity)
    BY <2>1, <2>3 DEF RehashHasRoom
  <2>5. QED
    BY <2>1, <2>2, <2>4 DEF CodeInv, CodeTellsLoad, HASH_OK, HASH_REHASH_MEM_ALLOC
<1>6. CASE UNCHANGED vars
  BY <1>6 DEF vars, memory, CodeInv, CodeTellsLoad, Capacity
<1>7. QED
  BY <1>1, <1>2, <1>3, <1>4, <1>5, <1>6 DEF Next, ResizeStep, Spin

(***************************************************************************)
(* Whatever allocations fail, an insertion is OK just when it leaves the   *)
(* table within its limit, and a deletion reports lack of memory only for  *)
(* a table that is still to be made smaller.                               *)
(***************************************************************************)
THEOREM CodeIsTrue ==
  ASSUME UPPER_DIV >= 5
  PROVE  Spec => []CodeTellsLoad
<1>1. Init => CodeInv
  BY DEF Init, Result, CodeInv, CodeTellsLoad
<1>2. IndInv /\ RehashHasRoom /\ CodeInv /\ [Next]_vars => CodeInv'
  BY NextKeepsCode
<1>3. CodeInv => CodeTellsLoad
  BY DEF CodeInv
<1>4. QED
  BY <1>1, <1>2, <1>3, Soundness, RoomInvariant, PTL DEF Spec

=============================================================================
