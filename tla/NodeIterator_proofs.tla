------------------------ MODULE NodeIterator_proofs ------------------------
(***************************************************************************)
(* Theorems about the iterator of the node table, for all keys, objects    *)
(* and sizes, and whatever a client inserts and deletes between two calls. *)
(***************************************************************************)
EXTENDS NodeIterator, NodeHashtable_proofs

(***************************************************************************)
(* The slots in use that a walk at group g, with mask left of it, has yet  *)
(* to come to: those of the groups on its way, and those in the mask.      *)
(***************************************************************************)
IsAhead(h, d, g) == IF d = 1 THEN h > g ELSE h < g

Ahead(d, g, mask) == {s \in T!UsedSlots : IsAhead(s[1], d, g) \/ (s[1] = g /\ s[2] \in mask)}

Direction == IF walk.op = "next" THEN 1 ELSE -1

Toward(op, d) == d = IF op = "next" THEN 1 ELSE -1

(* What has been returned once and for all: a lost object may turn up again. *)
Settled == walk.given \ walk.lost

(***************************************************************************)
(* A walk that is not over.  The mask may be out of date, but then it      *)
(* leads to lost objects.  Nothing that was returned lies ahead, and       *)
(* everything that is due does.  Only at the beginning of the table does a *)
(* walk return NULL and keep its iterator.                                 *)
(***************************************************************************)
OnItsWay(d, g, mask) ==
  /\ g \in T!Groups /\ mask \in SUBSET Positions
  /\ \A p \in mask : <<g, p>> \in T!UsedSlots \/ EntryAt(<<g, p>>) \in walk.lost
  /\ \A o \in Settled : o \in Objects /\ owner[o] = "table"
  /\ \A s \in Ahead(d, g, mask) : EntryAt(s) \notin Settled
  /\ \A o \in walk.due : \E s \in Ahead(d, g, mask) : EntryAt(s) = o
  /\ walk.done => d = -1 /\ g = 0 /\ mask = {}

WalkType ==
  [op : {"none", "next", "prev"}, due : SUBSET Objects, given : SUBSET (Objects \cup {JUNK}),
   lost : SUBSET Objects, again : BOOLEAN, done : BOOLEAN, late : BOOLEAN, resized : BOOLEAN,
   fell : BOOLEAN]

WalkInv ==
  /\ walk \in WalkType
  /\ (walk.again => walk.fell) /\ ~walk.late
  /\ walk.op # "none" /\ walk.fell => ~iterator.iter_state
  /\ pc \in {"null", "free"} => walk.op = "none"
  /\ pc = "rehash" => ~iterator.iter_state
  /\ walk.op # "none" /\ iterator.iter_state =>
       ~walk.resized /\ OnItsWay(Direction, iterator.cur_group, iterator.cur_group_mask)
  /\ walk.op # "none" /\ ~iterator.iter_state => walk.resized \/ walk.due = {}
  /\ walk.op = "none" => walk.due = {} /\ ~walk.fell

(* A call that goes on has replaced the result of the iterator. *)
IterOps == {"start", "next", "end", "prev"}

LiveInv ==
  /\ "op" \in DOMAIN ret
  /\ pc \notin {"ready", "hung"} => ret.op \notin IterOps
  /\ GivenIsLive

IterInv ==
  /\ NodeInv
  /\ "iter_state" \in DOMAIN iterator /\ iterator.iter_state \in BOOLEAN
  /\ WalkInv /\ LiveInv

-----------------------------------------------------------------------------
(***************************************************************************)
(* What lies ahead.                                                        *)
(***************************************************************************)
LEMMA UsedParts ==
  ASSUME NEW s \in T!UsedSlots
  PROVE  /\ s = <<s[1], s[2]>> /\ s[1] \in T!Groups /\ s[1] \in Int /\ s[2] \in Positions
         /\ s[2] \in GroupMask(s[1])
BY DEF T!UsedSlots, T!Groups, GroupMask, T!ValidMask, ValidMask, T!AndMask, AndMask,
       T!HIGH_BIT_MASK, HIGH_BIT_MASK, T!Positions, Positions

LEMMA MaskIsUsed ==
  ASSUME NEW g \in T!Groups
  PROVE  /\ g \in Int /\ GroupMask(g) \in SUBSET Positions
         /\ \A p \in GroupMask(g) : <<g, p>> \in T!UsedSlots
BY DEF T!UsedSlots, T!Groups, GroupMask, T!ValidMask, ValidMask, T!AndMask, AndMask,
       T!HIGH_BIT_MASK, HIGH_BIT_MASK, T!Positions, Positions

LEMMA NextValidParts ==
  ASSUME NEW g, NEW d \in {1, -1}, NEW h, IsNextValidGroup(g, d, h)
  PROVE  /\ g \in T!Groups /\ h \in T!Groups
         /\ IF d = 1 THEN h >= g ELSE h <= g
         /\ \A s \in T!UsedSlots :
              IF d = 1 THEN s[1] >= g => h <= s[1] ELSE s[1] <= g => s[1] <= h
<1>1. /\ g \in T!Groups /\ h \in T!Groups
      /\ IF d = 1 THEN h >= g ELSE h <= g
      /\ \A i \in T!Groups :
           GroupMask(i) # {} /\ (IF d = 1 THEN i >= g ELSE i <= g) =>
             IF d = 1 THEN h <= i ELSE i <= h
  BY DEF IsNextValidGroup, I!IsNextValidGroup, I!GroupsFrom, I!IsValidGroup, I!Groups, T!Groups,
         GroupMask, ValidMask, I!ValidMask, AndMask, I!AndMask, HIGH_BIT_MASK, I!HIGH_BIT_MASK,
         Positions, I!Positions
<1>2. QED
  BY <1>1, UsedParts

LEMMA NextIsGroup ==
  ASSUME NEW g, NEW d, NEW h, IsNextValidGroup(g, d, h)
  PROVE  h \in T!Groups
BY DEF IsNextValidGroup, I!IsNextValidGroup, I!GroupsFrom, I!Groups, T!Groups

LEMMA NoValidParts ==
  ASSUME NEW g, NEW d \in {1, -1}, NoValidGroup(g, d), g \in T!Groups
  PROVE  \A s \in T!UsedSlots : IF d = 1 THEN ~(s[1] >= g) ELSE ~(s[1] <= g)
<1>1. \A i \in T!Groups : GroupMask(i) # {} => IF d = 1 THEN ~(i >= g) ELSE ~(i <= g)
  BY DEF NoValidGroup, I!NoValidGroup, I!GroupsFrom, I!IsValidGroup, I!Groups, T!Groups,
         GroupMask, ValidMask, I!ValidMask, AndMask, I!AndMask, HIGH_BIT_MASK, I!HIGH_BIT_MASK,
         Positions, I!Positions
<1>2. QED
  BY <1>1, UsedParts

LEMMA AheadInGroup ==
  ASSUME NEW d \in {1, -1}, NEW g \in T!Groups, NEW mask, NEW p \in mask
  PROVE  /\ Ahead(d, g, mask \ {p}) = Ahead(d, g, mask) \ {<<g, p>>}
         /\ <<g, p>> \in T!UsedSlots => <<g, p>> \in Ahead(d, g, mask)
<1>1. \A s \in T!UsedSlots : s[1] = g /\ s[2] = p => s = <<g, p>>
  BY UsedParts
<1>2. ~IsAhead(g, d, g)
  BY DEF IsAhead, T!Groups
<1>3. QED
  BY <1>1, <1>2 DEF Ahead

LEMMA AheadInNextGroup ==
  ASSUME NEW d \in {1, -1}, NEW g \in T!Groups, NEW h,
         IsNextValidGroup(g + d, d, h), NEW p \in GroupMask(h)
  PROVE  /\ Ahead(d, h, GroupMask(h) \ {p}) = Ahead(d, g, {}) \ {<<h, p>>}
         /\ <<h, p>> \in Ahead(d, g, {})
<1>1. h \in T!Groups /\ h \in Int /\ g \in Int /\ <<h, p>> \in T!UsedSlots
  BY NextIsGroup, MaskIsUsed
<1>2. IF d = 1 THEN h > g ELSE h < g
  <2>1. PICK i : i = g + d
    OBVIOUS
  <2>2. IsNextValidGroup(i, d, h)
    BY <2>1
  <2>3. IF d = 1 THEN h >= i ELSE h <= i
    BY <2>2, NextValidParts
  <2>4. QED
    BY <1>1, <2>1, <2>3
<1>3. ASSUME NEW s \in T!UsedSlots
      PROVE  /\ IsAhead(s[1], d, h) \/ s[1] = h <=> IsAhead(s[1], d, g)
             /\ s[1] = h => ~IsAhead(s[1], d, h)
             /\ s[1] = h => (s[2] \notin GroupMask(h) \ {p} <=> s = <<h, p>>)
  <2>1. s[1] \in Int /\ s[2] \in GroupMask(s[1]) /\ s = <<s[1], s[2]>>
    BY UsedParts
  <2>2. IF d = 1 THEN s[1] >= g + 1 => h <= s[1] ELSE s[1] <= g - 1 => s[1] <= h
    BY <1>1, NextValidParts
  <2>3. IsAhead(s[1], d, h) \/ s[1] = h <=> IsAhead(s[1], d, g)
    BY <1>1, <1>2, <2>1, <2>2 DEF IsAhead
  <2>4. s[1] = h => ~IsAhead(s[1], d, h)
    BY <1>1 DEF IsAhead
  <2>5. s[1] = h => (s[2] \notin GroupMask(h) \ {p} <=> s = <<h, p>>)
    BY <2>1
  <2>6. QED
    BY <2>3, <2>4, <2>5
<1>4. IsAhead(h, d, g)
  BY <1>2 DEF IsAhead
<1>5. QED
  BY <1>1, <1>3, <1>4 DEF Ahead

First(d) == IF d = 1 THEN 0 ELSE group_num - 1

LEMMA AheadOfFirst ==
  ASSUME group_num \in Nat, NEW d \in {1, -1}, NEW h, IsNextValidGroup(First(d), d, h), NEW p \in GroupMask(h)
  PROVE  /\ h \in T!Groups /\ <<h, p>> \in T!UsedSlots
         /\ Ahead(d, h, GroupMask(h) \ {p}) = T!UsedSlots \ {<<h, p>>}
<1>1. h \in T!Groups /\ h \in Int /\ <<h, p>> \in T!UsedSlots
  BY NextValidParts, MaskIsUsed
<1>2. ASSUME NEW s \in T!UsedSlots
      PROVE  /\ IsAhead(s[1], d, h) \/ s[1] = h
             /\ s[1] = h => ~IsAhead(s[1], d, h)
             /\ s[1] = h => (s[2] \notin GroupMask(h) \ {p} <=> s = <<h, p>>)
  <2>1. s[1] \in Int /\ s[1] \in T!Groups /\ s[2] \in GroupMask(s[1]) /\ s = <<s[1], s[2]>>
    BY UsedParts
  <2>2. IF d = 1 THEN s[1] >= First(d) => h <= s[1] ELSE s[1] <= First(d) => s[1] <= h
    BY NextValidParts
  <2>3. s[1] >= 0 /\ s[1] <= group_num - 1
    BY <2>1 DEF T!Groups
  <2>4. QED
    BY <1>1, <2>1, <2>2, <2>3 DEF IsAhead, First
<1>3. QED
  BY <1>1, <1>2 DEF Ahead

(* A walk that finds no other group, or that is at the first one, has come to its end. *)
LEMMA NothingAhead ==
  ASSUME group_num \in Nat, NEW d \in {1, -1}, NEW g \in T!Groups,
         NoValidGroup(g + d, d) \/ (d = -1 /\ g = 0)
  PROVE  Ahead(d, g, {}) = {}
<1>1. SUFFICES ASSUME NEW s \in T!UsedSlots
               PROVE  ~IsAhead(s[1], d, g)
  BY DEF Ahead
<1>2. s[1] \in Int /\ s[1] \in 0 .. (group_num - 1) /\ g \in 0 .. (group_num - 1)
  BY UsedParts DEF T!Groups
<1>3. CASE d = -1 /\ g = 0
  BY <1>2, <1>3 DEF IsAhead
<1>4. CASE NoValidGroup(g + d, d)
  <2>1. IsAhead(s[1], d, g) => g + d \in T!Groups
    BY <1>2 DEF IsAhead, T!Groups
  <2>2. g + d \in T!Groups => IF d = 1 THEN ~(s[1] >= g + d) ELSE ~(s[1] <= g + d)
    BY <1>4, NoValidParts
  <2>3. QED
    BY <1>2, <2>1, <2>2 DEF IsAhead
<1>5. QED
  BY <1>3, <1>4

-----------------------------------------------------------------------------
(***************************************************************************)
(* The calls of the iterator.                                              *)
(***************************************************************************)
LEMMA UsedEntry ==
  ASSUME NodeInv, pc \notin {"rehash", "free"}, NEW s \in T!UsedSlots
  PROVE  EntryAt(s) \in Objects /\ EntryAt(s) # NULL /\ owner[EntryAt(s)] = "table"
<1>1. EntryAt(s) \in Objects
  BY DEF NodeInv, RefsInv, RefersTo, EntryAt
<1>2. EntryAt(s) \in Held
  BY DEF Held
<1>3. QED
  BY <1>1, <1>2, NodeAssumption DEF NodeInv, OwnerInv, OwnedIsHeld

LEMMA IterateKeepsTable ==
  ASSUME NodeInv, pc = "ready", UNCHANGED <<pc, memory, owner>>
  PROVE  /\ NodeInv' /\ pc' = "ready" /\ owner' = owner
         /\ T!UsedSlots' = T!UsedSlots /\ T!Groups' = T!Groups
         /\ \A s : EntryAt(s)' = EntryAt(s)
         /\ \A d, g, mask : Ahead(d, g, mask)' = Ahead(d, g, mask)
<1>1. NodeInv'
  BY QuietNode
<1>2. T!UsedSlots' = T!UsedSlots /\ T!Groups' = T!Groups /\ table' = table
  BY DEF memory, T!UsedSlots, T!Groups
<1>3. QED
  BY <1>1, <1>2 DEF EntryAt, Ahead

(* A call leaves the iterator with mask left of group g, and returns slot <<g, p>>. *)
Returns(g, p, mask) ==
  /\ "iter_state" \in DOMAIN iterator' /\ iterator'.iter_state = TRUE
  /\ iterator'.cur_group = g /\ iterator'.cur_group_mask = mask
  /\ "op" \in DOMAIN ret' /\ ret'.pointer = EntryAt(<<g, p>>)

LEMMA YieldParts ==
  ASSUME NEW op, NEW g, NEW mask, Yield(op, g, mask)
  PROVE  /\ "iter_state" \in DOMAIN iterator' /\ iterator'.iter_state = TRUE
         /\ "op" \in DOMAIN ret'
         /\ \E p \in mask : Returns(g, p, mask \ {p})
BY DEF Yield, Result, Returns

LEMMA YieldNullParts ==
  ASSUME NEW op, YieldNull(op)
  PROVE  "op" \in DOMAIN ret' /\ ret'.pointer = NULL
BY DEF YieldNull, Result

LEMMA BeginWalkParts ==
  ASSUME NEW op \in {"next", "prev"}, BeginWalk(op)
  PROVE  /\ walk'.op = op /\ walk'.due = Held \ Given /\ walk'.given = Given /\ walk'.lost = {}
         /\ walk'.again = FALSE /\ walk'.late = FALSE /\ walk'.resized = FALSE
         /\ walk'.done = (Given = {}) /\ walk'.fell = FALSE
         /\ Held \subseteq Objects /\ Given \subseteq Objects => walk' \in WalkType
BY DEF BeginWalk, NoWalk, WalkType

LEMMA ContinueWalkParts ==
  ASSUME walk \in WalkType, NEW op \in {"next", "prev"}, walk.op = op, ContinueWalk(op),
         Given \subseteq Objects \cup {JUNK}
  PROVE  /\ walk' \in WalkType
         /\ walk'.op = op /\ walk'.due = walk.due \ Given /\ walk'.given = walk.given \cup Given
         /\ walk'.lost = walk.lost /\ walk'.resized = walk.resized
         /\ walk'.again = (walk.again \/ (Given \cap walk.given) \ walk.lost # {})
         /\ walk'.late = (walk.late \/ (walk.done /\ Given # {}))
         /\ walk'.done = (walk.done \/ Given = {})
         /\ walk'.fell = (walk.fell \/ FallsOff(op))
<1> DEFINE again == walk.again \/ (Given \cap walk.given) \ walk.lost # {}
           late  == walk.late \/ (walk.done /\ Given # {})
           done  == walk.done \/ Given = {}
           fell  == walk.fell \/ FallsOff(op)
<1>1. walk' = [walk EXCEPT !.due = walk.due \ Given, !.given = walk.given \cup Given,
                           !.again = again, !.late = late, !.done = done, !.fell = fell]
  BY DEF ContinueWalk
<1>2. again \in BOOLEAN /\ late \in BOOLEAN /\ done \in BOOLEAN /\ fell \in BOOLEAN
  BY DEF WalkType
<1> HIDE DEF again, late, done, fell
<1>3. /\ walk' \in WalkType
      /\ walk'.op = op /\ walk'.due = walk.due \ Given /\ walk'.given = walk.given \cup Given
      /\ walk'.lost = walk.lost /\ walk'.resized = walk.resized
      /\ walk'.again = again /\ walk'.late = late /\ walk'.done = done /\ walk'.fell = fell
  BY <1>1, <1>2 DEF WalkType
<1>4. QED
  BY <1>3 DEF again, late, done, fell

(* Where nobody walks, or somebody turns round, nothing is claimed. *)
LEMMA NoWalkIsSound ==
  ASSUME NodeInv', walk' = NoWalk, "iter_state" \in DOMAIN iterator',
         iterator'.iter_state \in BOOLEAN, "op" \in DOMAIN ret',
         pc' \notin {"ready", "hung"} => ret'.op \notin IterOps,
         pc' = "rehash" => ~iterator'.iter_state
  PROVE  IterInv'
<1>1. /\ walk' \in WalkType /\ walk'.op = "none" /\ walk'.due = {}
      /\ walk'.again = FALSE /\ walk'.late = FALSE /\ walk'.fell = FALSE
  BY DEF NoWalk, WalkType
<1>2. WalkInv'
  BY <1>1 DEF WalkInv
<1>3. LiveInv'
  BY <1>1 DEF LiveInv, GivenIsLive
<1>4. QED
  BY <1>2, <1>3 DEF IterInv

(* Slot <<g, p>> is the first one of a walk. *)
IsFirst(d, g, p, mask) ==
  /\ g \in T!Groups /\ mask \in SUBSET Positions /\ <<g, p>> \in T!UsedSlots
  /\ \A q \in mask : <<g, q>> \in T!UsedSlots
  /\ Ahead(d, g, mask) = T!UsedSlots \ {<<g, p>>}

(* Slot <<g, p>> is the next one, whether it is still in use or not. *)
IsNext(d, old_g, old_mask, g, p, mask) ==
  /\ g \in T!Groups /\ mask \in SUBSET Positions
  /\ \A q \in mask : <<g, q>> \in T!UsedSlots \/ EntryAt(<<g, q>>) \in walk.lost
  /\ ~(d = -1 /\ old_g = 0 /\ old_mask = {})
  /\ \/ <<g, p>> \in Ahead(d, old_g, old_mask)
     \/ <<g, p>> \notin T!UsedSlots /\ EntryAt(<<g, p>>) \in walk.lost
  /\ Ahead(d, g, mask) = Ahead(d, old_g, old_mask) \ {<<g, p>>}

LEMMA BeginStep ==
  ASSUME NodeInv, pc = "ready", UNCHANGED <<pc, memory, owner>>,
         NEW op \in {"next", "prev"}, NEW d, Toward(op, d), BeginWalk(op),
         NEW g, NEW p, NEW mask, IsFirst(d, g, p, mask), Returns(g, p, mask)
  PROVE  IterInv'
<1> DEFINE x == EntryAt(<<g, p>>)
<1>0. /\ "iter_state" \in DOMAIN iterator' /\ iterator'.iter_state = TRUE
      /\ iterator'.cur_group = g /\ iterator'.cur_group_mask = mask
      /\ "op" \in DOMAIN ret' /\ ret'.pointer = x
  BY DEF Returns
<1>1. /\ g \in T!Groups /\ mask \in SUBSET Positions /\ <<g, p>> \in T!UsedSlots
      /\ \A q \in mask : <<g, q>> \in T!UsedSlots
      /\ Ahead(d, g, mask) = T!UsedSlots \ {<<g, p>>}
  BY DEF IsFirst
<1>2. x \in Objects /\ x # NULL /\ owner[x] = "table" /\ Given = {x}
  BY <1>0, <1>1, UsedEntry DEF Given
<1>3. /\ NodeInv' /\ pc' = "ready" /\ owner' = owner
      /\ T!UsedSlots' = T!UsedSlots /\ T!Groups' = T!Groups
      /\ \A s : EntryAt(s)' = EntryAt(s)
      /\ Ahead(d, g, mask)' = T!UsedSlots \ {<<g, p>>}
  BY <1>1, IterateKeepsTable
<1>4. Held = Stored /\ Held \subseteq Objects
  BY HeldIsStored, HeldHasKey
<1>5. /\ walk' \in WalkType
      /\ walk'.op = op /\ walk'.due = Held \ {x} /\ walk'.given = {x} /\ walk'.lost = {}
      /\ walk'.again = FALSE /\ walk'.late = FALSE /\ walk'.resized = FALSE /\ walk'.done = FALSE
      /\ walk'.fell = FALSE
  BY <1>2, <1>4, BeginWalkParts
<1>6. Settled' = {x} /\ Direction' = d
  BY <1>5 DEF Settled, Direction, Toward
<1>7. OnItsWay(d, g, mask)'
  <2>1. \A s \in T!UsedSlots \ {<<g, p>>} : EntryAt(s) # x
    BY <1>1, EntriesDistinct
  <2>2. \A o \in Held \ {x} : \E s \in T!UsedSlots \ {<<g, p>>} : EntryAt(s) = o
    BY <1>4 DEF Stored
  <2>3. \A s \in T!UsedSlots : EntryAt(s)' = EntryAt(s)
    BY <1>3
  <2> HIDE DEF x
  <2>4. QED
    BY <1>1, <1>2, <1>3, <1>5, <1>6, <2>1, <2>2, <2>3 DEF OnItsWay
<1>8. WalkInv'
  BY <1>0, <1>3, <1>5, <1>6, <1>7 DEF WalkInv
<1>9. LiveInv'
  BY <1>0, <1>2, <1>3 DEF LiveInv, GivenIsLive
<1>10. QED
  BY <1>0, <1>3, <1>8, <1>9 DEF IterInv

LEMMA BeginEmptyStep ==
  ASSUME IterInv, pc = "ready", UNCHANGED <<pc, memory, owner>>, entries = 0,
         NEW op \in {"next", "prev"}, BeginWalk(op), NEW call, YieldNull(call),
         iterator' = [iterator EXCEPT !.iter_state = FALSE]
  PROVE  IterInv'
<1>1. NodeInv' /\ pc' = "ready" /\ owner' = owner
  BY IterateKeepsTable DEF IterInv
<1>2. Held = {}
  <2>1. Cardinality(F!UsedSlots) = 0 /\ IsFiniteSet(F!UsedSlots)
    <3>1. group_num \in Nat /\ FlatEntries = 0 /\ FlatEntries = F!Cardinality(F!UsedSlots)
      BY DEF IterInv, NodeInv, F!TableInv, F!MemoryOK, F!EntriesCounted, FlatEntries
    <3>2. QED
      BY <3>1, SameCount, FlatAssumptionHolds, F!UsedIsFinite
  <2>2. T!UsedSlots = {}
    BY <2>1, SameSlots, FS_EmptySet
  <2>3. QED
    BY <2>2 DEF Held
<1>3. "op" \in DOMAIN ret' /\ ret'.pointer = NULL /\ Given = {}
  BY YieldNullParts DEF Given
<1>4. /\ walk' \in WalkType /\ walk'.due = {} /\ walk'.again = FALSE /\ walk'.late = FALSE
      /\ walk'.op = op /\ walk'.fell = FALSE
  BY <1>2, <1>3, BeginWalkParts
<1>5. "iter_state" \in DOMAIN iterator' /\ iterator'.iter_state = FALSE
  BY DEF IterInv
<1>6. WalkInv' /\ LiveInv'
  BY <1>1, <1>3, <1>4, <1>5, NodeAssumption DEF WalkInv, LiveInv, GivenIsLive
<1>7. QED
  BY <1>1, <1>5, <1>6 DEF IterInv

LEMMA ContinueStep ==
  ASSUME IterInv, pc = "ready", UNCHANGED <<pc, memory, owner>>,
         NEW op \in {"next", "prev"}, NEW d, Toward(op, d),
         walk.op = op, iterator.iter_state, ContinueWalk(op),
         NEW old_g, NEW old_mask, OnItsWay(d, old_g, old_mask),
         NEW g, NEW p, NEW mask, IsNext(d, old_g, old_mask, g, p, mask), Returns(g, p, mask)
  PROVE  IterInv'
<1> DEFINE x == EntryAt(<<g, p>>)
<1>0. /\ "iter_state" \in DOMAIN iterator' /\ iterator'.iter_state = TRUE
      /\ iterator'.cur_group = g /\ iterator'.cur_group_mask = mask
      /\ "op" \in DOMAIN ret' /\ ret'.pointer = x
  BY DEF Returns
<1>1. /\ walk \in WalkType /\ ~walk.again /\ ~walk.late /\ ~walk.resized /\ ~walk.fell
      /\ OnItsWay(d, old_g, old_mask)
      /\ g \in T!Groups /\ mask \in SUBSET Positions
      /\ \A q \in mask : <<g, q>> \in T!UsedSlots \/ EntryAt(<<g, q>>) \in walk.lost
      /\ ~(d = -1 /\ old_g = 0 /\ old_mask = {})
      /\ \/ <<g, p>> \in Ahead(d, old_g, old_mask)
         \/ <<g, p>> \notin T!UsedSlots /\ x \in walk.lost
      /\ Ahead(d, g, mask) = Ahead(d, old_g, old_mask) \ {<<g, p>>}
  BY DEF IterInv, WalkInv, IsNext
<1>2. ~walk.done
  BY <1>1 DEF OnItsWay
<1>3. /\ NodeInv /\ NodeInv' /\ pc' = "ready" /\ owner' = owner
      /\ T!UsedSlots' = T!UsedSlots /\ T!Groups' = T!Groups
      /\ \A s : EntryAt(s)' = EntryAt(s)
      /\ Ahead(d, g, mask)' = Ahead(d, old_g, old_mask) \ {<<g, p>>}
      /\ Ahead(d, old_g, old_mask) \subseteq T!UsedSlots
  BY <1>1, IterateKeepsTable DEF IterInv, Ahead
<1>4. /\ x \in Objects /\ Given = {x}
      /\ x \notin walk.lost => <<g, p>> \in Ahead(d, old_g, old_mask) /\ owner[x] = "table"
  <2>1. <<g, p>> \in T!UsedSlots => x \in Objects /\ owner[x] = "table"
    BY <1>3, UsedEntry
  <2>2. walk.lost \subseteq Objects
    BY <1>1 DEF WalkType
  <2>3. x \in Objects
    BY <1>1, <1>3, <2>1, <2>2
  <2>4. Given = {x}
    BY <1>0, <2>3, NodeAssumption DEF Given
  <2>5. QED
    BY <1>1, <1>3, <2>1, <2>3, <2>4
<1>5. x \notin Settled
  BY <1>1, <1>4 DEF OnItsWay, Settled
<1>6. /\ walk' \in WalkType
      /\ walk'.op = op /\ walk'.due = walk.due \ {x} /\ walk'.given = walk.given \cup {x}
      /\ walk'.lost = walk.lost /\ walk'.resized = FALSE
      /\ walk'.again = FALSE /\ walk'.late = FALSE /\ walk'.done = FALSE /\ walk'.fell = FALSE
  <2>1. (Given \cap walk.given) \ walk.lost = {}
    BY <1>4, <1>5 DEF Settled
  <2>2. /\ walk' \in WalkType
        /\ walk'.op = op /\ walk'.due = walk.due \ Given /\ walk'.given = walk.given \cup Given
        /\ walk'.lost = walk.lost /\ walk'.resized = walk.resized
        /\ walk'.again = (walk.again \/ (Given \cap walk.given) \ walk.lost # {})
        /\ walk'.late = (walk.late \/ (walk.done /\ Given # {}))
        /\ walk'.done = (walk.done \/ Given = {})
        /\ walk'.fell = (walk.fell \/ FallsOff(op))
    BY <1>1, <1>4, ContinueWalkParts
  <2>3. ~FallsOff(op)
    BY <1>0 DEF FallsOff
  <2> HIDE DEF x
  <2>4. QED
    BY <1>1, <1>2, <1>4, <2>1, <2>2, <2>3 DEF WalkType
<1>7. Settled' = IF x \in walk.lost THEN Settled ELSE Settled \cup {x}
  BY <1>6 DEF Settled
<1>8. OnItsWay(d, g, mask)'
  <2>1. \A s \in Ahead(d, old_g, old_mask) \ {<<g, p>>} : x \notin walk.lost => EntryAt(s) # x
    BY <1>3, <1>4, EntriesDistinct
  <2>2. \A s : EntryAt(s)' = EntryAt(s)
    BY <1>3
  <2>3. \A o \in Settled' : o \in Objects /\ owner'[o] = "table"
    BY <1>1, <1>3, <1>4, <1>7 DEF OnItsWay
  <2>4. \A s \in Ahead(d, g, mask)' : EntryAt(s) \notin Settled'
    BY <1>1, <1>3, <1>7, <2>1 DEF OnItsWay
  <2>5. \A o \in walk'.due : \E s \in Ahead(d, g, mask)' : EntryAt(s) = o
    <3>1. ASSUME NEW o \in walk.due, o # x
          PROVE  \E s \in Ahead(d, old_g, old_mask) \ {<<g, p>>} : EntryAt(s) = o
      BY <1>1, <3>1 DEF OnItsWay
    <3>2. QED
      BY <1>3, <1>6, <3>1
  <2> HIDE DEF x
  <2>6. QED
    BY <1>1, <1>3, <1>6, <2>2, <2>3, <2>4, <2>5 DEF OnItsWay
<1>9. WalkInv'
  BY <1>0, <1>3, <1>6, <1>8 DEF WalkInv, Direction, Toward
<1>10. LiveInv'
  BY <1>0, <1>3, <1>4, <1>6 DEF LiveInv, GivenIsLive
<1>11. QED
  BY <1>0, <1>3, <1>9, <1>10 DEF IterInv

(* A walk that is over, or ends now, possibly with any result: the iterator is no longer valid. *)
LEMMA EndStep ==
  ASSUME IterInv, pc = "ready", UNCHANGED <<pc, memory, owner>>,
         NEW op \in {"next", "prev"}, walk.op = op, ContinueWalk(op),
         walk.resized \/ walk.due = {},
         "iter_state" \in DOMAIN iterator', iterator'.iter_state = FALSE,
         "op" \in DOMAIN ret', ret'.pointer \in Objects \cup {NULL, JUNK},
         ret'.pointer = NULL \/ (~walk.done /\ FallsOff(op))
  PROVE  IterInv'
<1>1. NodeInv' /\ pc' = "ready" /\ owner' = owner
  BY IterateKeepsTable DEF IterInv
<1>2. walk \in WalkType /\ (walk.again => walk.fell) /\ ~walk.late
  BY DEF IterInv, WalkInv
<1>3. /\ Given \subseteq Objects \cup {JUNK}
      /\ Given = {} \/ (~walk.done /\ FallsOff(op))
  BY DEF Given
<1>4. /\ walk' \in WalkType
      /\ walk'.op = op /\ walk'.due = walk.due \ Given /\ walk'.resized = walk.resized
      /\ (walk'.again => walk'.fell) /\ walk'.late = FALSE
      /\ Given # {} => walk'.fell
  <2>1. /\ walk' \in WalkType
        /\ walk'.op = op /\ walk'.due = walk.due \ Given /\ walk'.resized = walk.resized
        /\ walk'.again = (walk.again \/ (Given \cap walk.given) \ walk.lost # {})
        /\ walk'.late = (walk.late \/ (walk.done /\ Given # {}))
        /\ walk'.fell = (walk.fell \/ FallsOff(op))
    BY <1>2, <1>3, ContinueWalkParts
  <2>2. QED
    BY <1>2, <1>3, <2>1
<1>5. WalkInv'
  BY <1>1, <1>4 DEF WalkInv
<1>6. GivenIsLive'
  <2>1. ret'.pointer \in Objects => Given # {}
    BY NodeAssumption DEF Given
  <2>2. QED
    BY <1>4, <2>1 DEF GivenIsLive
<1>7. LiveInv'
  BY <1>1, <1>6 DEF LiveInv
<1>8. QED
  BY <1>1, <1>5, <1>7 DEF IterInv

(* A walk backward that has come to group 0 stays there. *)
LEMMA StayStep ==
  ASSUME IterInv, pc = "ready", UNCHANGED <<pc, memory, owner, iterator>>,
         walk.op = "prev", iterator.iter_state, ContinueWalk("prev"),
         iterator.cur_group = 0, iterator.cur_group_mask = {},
         "op" \in DOMAIN ret', ret'.pointer = NULL
  PROVE  IterInv'
<1>1. /\ NodeInv' /\ pc' = "ready" /\ owner' = owner
      /\ T!UsedSlots' = T!UsedSlots /\ T!Groups' = T!Groups
      /\ \A s : EntryAt(s)' = EntryAt(s)
      /\ Ahead(-1, 0, {})' = Ahead(-1, 0, {})
  BY IterateKeepsTable DEF IterInv
<1>2. /\ walk \in WalkType /\ ~walk.again /\ ~walk.late /\ ~walk.resized /\ ~walk.fell
      /\ OnItsWay(-1, 0, {})
  BY DEF IterInv, WalkInv, Direction
<1>3. Given = {}
  BY DEF Given
<1>4. /\ walk' \in WalkType
      /\ walk'.op = "prev" /\ walk'.due = walk.due /\ walk'.given = walk.given
      /\ walk'.lost = walk.lost /\ walk'.resized = FALSE
      /\ walk'.again = FALSE /\ walk'.late = FALSE /\ walk'.fell = FALSE
  <2>1. /\ walk' \in WalkType
        /\ walk'.op = "prev" /\ walk'.due = walk.due \ Given /\ walk'.given = walk.given \cup Given
        /\ walk'.lost = walk.lost /\ walk'.resized = walk.resized
        /\ walk'.again = (walk.again \/ (Given \cap walk.given) \ walk.lost # {})
        /\ walk'.late = (walk.late \/ (walk.done /\ Given # {}))
        /\ walk'.fell = (walk.fell \/ FallsOff("prev"))
    BY <1>2, <1>3, ContinueWalkParts
  <2>2. ~FallsOff("prev")
    BY DEF FallsOff
  <2>3. QED
    BY <1>2, <1>3, <2>1, <2>2 DEF WalkType
<1>5. OnItsWay(-1, 0, {})'
  <2>1. Settled' = Settled
    BY <1>4 DEF Settled
  <2>2. QED
    BY <1>1, <1>2, <1>4, <2>1 DEF OnItsWay
<1>6. WalkInv'
  BY <1>1, <1>4, <1>5 DEF WalkInv, Direction
<1>7. LiveInv'
  BY <1>1, NodeAssumption DEF LiveInv, GivenIsLive
<1>8. QED
  BY <1>1, <1>6, <1>7 DEF IterInv

LEMMA SizeIsNat ==
  ASSUME NodeInv
  PROVE  group_num \in Nat
BY DEF NodeInv, F!TableInv, F!MemoryOK

LEMMA StartAndEnd ==
  ASSUME IterInv, pc = "ready", UNCHANGED <<pc, memory, owner>>,
         (StartIt /\ BeginWalk("next")) \/ (EndIt /\ BeginWalk("prev"))
  PROVE  IterInv'
<1>1. ASSUME NEW op \in {"next", "prev"}, NEW d \in {1, -1}, Toward(op, d), BeginWalk(op),
             NEW call, NEW h, IsNextValidGroup(First(d), d, h),
             Yield(call, h, GroupMask(h))
      PROVE  IterInv'
  <2>1. NodeInv /\ group_num \in Nat
    BY SizeIsNat DEF IterInv
  <2>2. PICK p \in GroupMask(h) : Returns(h, p, GroupMask(h) \ {p})
    BY <1>1, YieldParts
  <2>3. IsFirst(d, h, p, GroupMask(h) \ {p})
    <3>1. /\ h \in T!Groups /\ <<h, p>> \in T!UsedSlots
          /\ Ahead(d, h, GroupMask(h) \ {p}) = T!UsedSlots \ {<<h, p>>}
      BY <1>1, <2>1, AheadOfFirst
    <3>2. QED
      BY <3>1, MaskIsUsed DEF IsFirst
  <2>4. PICK mask : mask = GroupMask(h) \ {p}
    OBVIOUS
  <2>5. IsFirst(d, h, p, mask) /\ Returns(h, p, mask)
    BY <2>2, <2>3, <2>4
  <2>6. QED
    BY <1>1, <2>1, <2>5, BeginStep
<1>2. ASSUME NEW op \in {"next", "prev"}, BeginWalk(op), NEW call, YieldNull(call), entries = 0,
             iterator' = [iterator EXCEPT !.iter_state = FALSE]
      PROVE  IterInv'
  BY <1>2, BeginEmptyStep
<1>3. CASE StartIt /\ BeginWalk("next")
  BY <1>1, <1>2, <1>3 DEF StartIt, Toward, First
<1>4. CASE EndIt /\ BeginWalk("prev")
  BY <1>1, <1>2, <1>4 DEF EndIt, Toward, First
<1>5. QED
  BY <1>3, <1>4

LEMMA GoOnInGroup ==
  ASSUME IterInv, pc = "ready", UNCHANGED <<pc, memory, owner>>,
         NEW op \in {"next", "prev"}, NEW d \in {1, -1}, Toward(op, d),
         walk.op = op, iterator.iter_state, ContinueWalk(op),
         NEW call, NEW g, NEW mask, OnItsWay(d, g, mask), Yield(call, g, mask)
  PROVE  IterInv'
<1>1. PICK p \in mask : Returns(g, p, mask \ {p})
  BY YieldParts
<1>2. /\ g \in T!Groups /\ mask \ {p} \in SUBSET Positions
      /\ \A q \in mask : <<g, q>> \in T!UsedSlots \/ EntryAt(<<g, q>>) \in walk.lost
  BY DEF OnItsWay
<1>3. /\ Ahead(d, g, mask \ {p}) = Ahead(d, g, mask) \ {<<g, p>>}
      /\ <<g, p>> \in T!UsedSlots => <<g, p>> \in Ahead(d, g, mask)
  BY <1>2, AheadInGroup
<1>4. IsNext(d, g, mask, g, p, mask \ {p})
  BY <1>2, <1>3 DEF IsNext
<1>5. QED
  BY <1>1, <1>4, ContinueStep

LEMMA GoOnToGroup ==
  ASSUME IterInv, pc = "ready", UNCHANGED <<pc, memory, owner>>,
         NEW op \in {"next", "prev"}, NEW d \in {1, -1}, Toward(op, d),
         walk.op = op, iterator.iter_state, ContinueWalk(op),
         NEW call, NEW g \in T!Groups, NEW h, OnItsWay(d, g, {}),
         ~(d = -1 /\ g = 0), IsNextValidGroup(g + d, d, h), Yield(call, h, GroupMask(h))
  PROVE  IterInv'
<1>1. PICK p \in GroupMask(h) : Returns(h, p, GroupMask(h) \ {p})
  BY YieldParts
<1>2. h \in T!Groups
  BY NextIsGroup
<1>3. /\ GroupMask(h) \ {p} \in SUBSET Positions
      /\ \A q \in GroupMask(h) \ {p} : <<h, q>> \in T!UsedSlots
  BY <1>2, MaskIsUsed
<1>4. /\ Ahead(d, h, GroupMask(h) \ {p}) = Ahead(d, g, {}) \ {<<h, p>>}
      /\ <<h, p>> \in Ahead(d, g, {})
  BY AheadInNextGroup
<1>5. IsNext(d, g, {}, h, p, GroupMask(h) \ {p})
  BY <1>2, <1>3, <1>4 DEF IsNext
<1>6. PICK mask : mask = GroupMask(h) \ {p}
  OBVIOUS
<1>7. IsNext(d, g, {}, h, p, mask) /\ Returns(h, p, mask)
  BY <1>1, <1>5, <1>6
<1>8. QED
  BY <1>7, ContinueStep

LEMMA NextItStep ==
  ASSUME IterInv, pc = "ready", UNCHANGED <<pc, memory, owner>>, NextIt, ContinueWalk("next")
  PROVE  IterInv'
<1> DEFINE g == iterator.cur_group
           mask == iterator.cur_group_mask
<1>1. NodeInv /\ NodeInv' /\ group_num \in Nat /\ pc' = "ready"
  BY IterateKeepsTable, SizeIsNat DEF IterInv
<1>2. /\ "iter_state" \in DOMAIN iterator' /\ iterator'.iter_state \in BOOLEAN
      /\ "op" \in DOMAIN ret'
  <2>1. ASSUME NEW h, NEW m, Yield("next", h, m)
        PROVE  /\ "iter_state" \in DOMAIN iterator' /\ iterator'.iter_state \in BOOLEAN
               /\ "op" \in DOMAIN ret'
    BY <2>1, YieldParts
  <2>2. YieldNull("next") => "op" \in DOMAIN ret'
    BY YieldNullParts
  <2>3. "iter_state" \in DOMAIN iterator /\ iterator.iter_state \in BOOLEAN
    BY DEF IterInv
  <2>4. \/ YieldNull("next") /\ UNCHANGED iterator
        \/ \E h, m : Yield("next", h, m)
        \/ YieldNull("next") /\ \E h : iterator' = [iter_state |-> FALSE, cur_group |-> h,
                                                   cur_group_mask |-> {}]
    BY DEF NextIt
  <2>5. ASSUME NEW h, iterator' = [iter_state |-> FALSE, cur_group |-> h, cur_group_mask |-> {}]
        PROVE  "iter_state" \in DOMAIN iterator' /\ iterator'.iter_state = FALSE
    BY <2>5
  <2>6. CASE \E h, m : Yield("next", h, m)
    BY <2>1, <2>6
  <2>7. QED
    BY <2>2, <2>3, <2>4, <2>5, <2>6
<1>3. CASE walk.op # "next"
  BY <1>1, <1>2, <1>3, NoWalkIsSound DEF ContinueWalk
<1>4. CASE walk.op = "next" /\ ~iterator.iter_state
  <2>1. walk.resized \/ walk.due = {}
    BY <1>4 DEF IterInv, WalkInv
  <2>2. UNCHANGED iterator /\ YieldNull("next")
    BY <1>4 DEF NextIt, Yield
  <2>3. QED
    BY <1>2, <1>4, <2>1, <2>2, YieldNullParts, EndStep
<1>5. CASE walk.op = "next" /\ iterator.iter_state /\ mask # {}
  <2>1. Yield("next", g, mask)
    BY <1>5 DEF NextIt
  <2>2. OnItsWay(1, g, mask) /\ Toward("next", 1)
    BY <1>5 DEF IterInv, WalkInv, Direction, Toward
  <2>3. QED
    BY <1>5, <2>1, <2>2, GoOnInGroup
<1>6. CASE walk.op = "next" /\ iterator.iter_state /\ mask = {}
  <2>1. ASSUME NEW h \in T!Groups, IsNextValidGroup(g + 1, 1, h), Yield("next", h, GroupMask(h))
        PROVE  IterInv'
    <3>1. OnItsWay(1, g, {}) /\ g \in T!Groups /\ Toward("next", 1)
      BY <1>6 DEF IterInv, WalkInv, Direction, Toward, OnItsWay
    <3>2. QED
      BY <1>6, <2>1, <3>1, GoOnToGroup
  <2>2. ASSUME NoValidGroup(g + 1, 1), YieldNull("next"),
               iterator' = [iter_state |-> FALSE, cur_group |-> I!PastEnd(g + 1, 1),
                            cur_group_mask |-> {}]
        PROVE  IterInv'
    <3>1. OnItsWay(1, g, {})
      BY <1>6 DEF IterInv, WalkInv, Direction
    <3>2. Ahead(1, g, {}) = {}
      BY <1>1, <2>2, <3>1, NothingAhead DEF OnItsWay
    <3>3. walk.due = {}
      BY <3>1, <3>2 DEF OnItsWay
    <3>4. QED
      BY <1>2, <1>6, <2>2, <3>3, YieldNullParts, EndStep
  <2>3. QED
    BY <1>6, <2>1, <2>2 DEF NextIt
<1>7. QED
  BY <1>3, <1>4, <1>5, <1>6 DEF IterInv

LEMMA PrevItStep ==
  ASSUME IterInv, pc = "ready", UNCHANGED <<pc, memory, owner>>, PrevIt, ContinueWalk("prev")
  PROVE  IterInv'
<1> DEFINE g == iterator.cur_group
           mask == iterator.cur_group_mask
<1>1. NodeInv /\ NodeInv' /\ group_num \in Nat /\ pc' = "ready"
  BY IterateKeepsTable, SizeIsNat DEF IterInv
<1>2. /\ "iter_state" \in DOMAIN iterator' /\ iterator'.iter_state \in BOOLEAN
      /\ "op" \in DOMAIN ret'
  <2>1. ASSUME NEW h, NEW m, Yield("prev", h, m)
        PROVE  /\ "iter_state" \in DOMAIN iterator' /\ iterator'.iter_state \in BOOLEAN
               /\ "op" \in DOMAIN ret'
    BY <2>1, YieldParts
  <2>2. YieldNull("prev") => "op" \in DOMAIN ret'
    BY YieldNullParts
  <2>3. ASSUME NEW h, YieldGarbage("prev", h)
        PROVE  /\ "iter_state" \in DOMAIN iterator' /\ iterator'.iter_state = FALSE
               /\ "op" \in DOMAIN ret'
    BY <2>3 DEF YieldGarbage, Result
  <2>4. "iter_state" \in DOMAIN iterator /\ iterator.iter_state \in BOOLEAN
    BY DEF IterInv
  <2>5. \/ YieldNull("prev") /\ UNCHANGED iterator
        \/ \E h, m : Yield("prev", h, m)
        \/ \E h : YieldGarbage("prev", h)
    BY DEF PrevIt
  <2>6. QED
    BY <2>1, <2>2, <2>3, <2>4, <2>5
<1>3. CASE walk.op # "prev"
  BY <1>1, <1>2, <1>3, NoWalkIsSound DEF ContinueWalk
<1>4. CASE walk.op = "prev" /\ ~iterator.iter_state
  <2>1. walk.resized \/ walk.due = {}
    BY <1>4 DEF IterInv, WalkInv
  <2>2. UNCHANGED iterator /\ YieldNull("prev")
    BY <1>4 DEF PrevIt, Yield
  <2>3. QED
    BY <1>2, <1>4, <2>1, <2>2, YieldNullParts, EndStep
<1>5. CASE walk.op = "prev" /\ iterator.iter_state /\ mask # {}
  <2>1. Yield("prev", g, mask)
    BY <1>5 DEF PrevIt
  <2>2. OnItsWay(-1, g, mask) /\ Toward("prev", -1)
    BY <1>5 DEF IterInv, WalkInv, Direction, Toward
  <2>3. QED
    BY <1>5, <2>1, <2>2, GoOnInGroup
<1>6. CASE walk.op = "prev" /\ iterator.iter_state /\ mask = {} /\ g = 0
  <2>1. UNCHANGED iterator /\ YieldNull("prev")
    BY <1>6 DEF PrevIt, Yield
  <2>2. QED
    BY <1>2, <1>6, <2>1, YieldNullParts, StayStep
<1>7. CASE walk.op = "prev" /\ iterator.iter_state /\ mask = {} /\ g # 0
  <2>1. OnItsWay(-1, g, {}) /\ g \in T!Groups /\ g \in Int
    BY <1>7 DEF IterInv, WalkInv, Direction, OnItsWay, T!Groups
  <2>2. g + (-1) = g - 1
    BY <2>1
  <2>3. ASSUME NEW h \in T!Groups, IsNextValidGroup(g - 1, -1, h), Yield("prev", h, GroupMask(h))
        PROVE  IterInv'
    <3>1. Toward("prev", -1)
      BY DEF Toward
    <3>2. QED
      BY <1>7, <2>1, <2>2, <2>3, <3>1, GoOnToGroup
  <2>4. ASSUME NoValidGroup(g - 1, -1), YieldGarbage("prev", I!PastEnd(g - 1, -1))
        PROVE  IterInv'
    <3>1. Ahead(-1, g, {}) = {}
      BY <1>1, <2>1, <2>2, <2>4, NothingAhead
    <3>2. walk.due = {} /\ ~walk.done
      BY <1>7, <2>1, <3>1 DEF OnItsWay
    <3>3. iterator'.iter_state = FALSE /\ ret'.pointer \in Objects \cup {NULL, JUNK}
      BY <2>4 DEF YieldGarbage, Result
    <3>4. FallsOff("prev")
      BY <1>7, <3>3 DEF FallsOff
    <3>5. QED
      BY <1>2, <1>7, <3>2, <3>3, <3>4, EndStep
  <2>5. QED
    BY <1>7, <2>3, <2>4 DEF PrevIt
<1>8. QED
  BY <1>3, <1>4, <1>5, <1>6, <1>7 DEF IterInv

LEMMA IterateStep ==
  ASSUME IterInv, Iterate
  PROVE  IterInv'
BY StartAndEnd, NextItStep, PrevItStep DEF Iterate

-----------------------------------------------------------------------------
(***************************************************************************)
(* What an operation of the table does to a walk.                          *)
(***************************************************************************)
Gone == {o \in Objects : owner[o] = "table" /\ owner'[o] # "table"}

LEMMA DisturbParts ==
  ASSUME walk \in WalkType, walk.op # "none", pc' # "free", Disturb
  PROVE  /\ walk' \in WalkType
         /\ walk'.op = walk.op /\ walk'.due = walk.due \ Gone /\ walk'.given = walk.given \ Gone
         /\ walk'.lost = walk.lost \cup (Gone \ walk.given)
         /\ walk'.again = walk.again /\ walk'.late = walk.late /\ walk'.done = walk.done
         /\ walk'.resized = (walk.resized \/ pc' = "rehash") /\ walk'.fell = walk.fell
<1> DEFINE resized == walk.resized \/ pc' = "rehash"
<1>1. walk' = [walk EXCEPT !.due = walk.due \ Gone, !.given = walk.given \ Gone,
                           !.lost = walk.lost \cup (Gone \ walk.given), !.resized = resized]
  BY DEF Disturb, Gone
<1>2. Gone \subseteq Objects /\ resized \in BOOLEAN
  BY DEF Gone, WalkType
<1> HIDE DEF resized
<1>3. /\ walk' \in WalkType
      /\ walk'.op = walk.op /\ walk'.due = walk.due \ Gone /\ walk'.given = walk.given \ Gone
      /\ walk'.lost = walk.lost \cup (Gone \ walk.given)
      /\ walk'.again = walk.again /\ walk'.late = walk.late /\ walk'.done = walk.done
      /\ walk'.resized = resized /\ walk'.fell = walk.fell
  BY <1>1, <1>2 DEF WalkType
<1>4. QED
  BY <1>3 DEF resized

(* The step of an operation as a walk sees it. *)
WalkMoves ==
  /\ walk'.due = walk.due \ Gone /\ walk'.given = walk.given \ Gone
  /\ walk'.lost = walk.lost \cup (Gone \ walk.given) /\ walk'.done = walk.done

Deletes(k, s) ==
  /\ pc = "ready" /\ k \in Keys /\ s \in T!UsedSlots /\ FindsAt(k, s)
  /\ bitmap' = [bitmap EXCEPT ![s[1]][s[2]] = T!Tombstone(s[1])]
  /\ Destruct(EntryAt(s))
  /\ UNCHANGED <<group_num, table>>

Inserts(o) ==
  /\ pc = "ready" /\ pc' # "destruct" /\ o \in Objects /\ owner[o] = "client"
  /\ owner' = [owner EXCEPT ![o] = "table"]
  /\ Store(o)
  /\ UNCHANGED group_num

(* As long as there is the same table, one slot of it changes at a time. *)
LEMMA OperationKinds ==
  ASSUME Next, pc \notin {"null", "rehash", "free"}, pc' \notin {"rehash", "free"}
  PROVE  /\ pc' # "null" /\ iterator' = iterator
         /\ \/ UNCHANGED <<group_num, bitmap, table, owner>>
            \/ \E o \in Objects : Inserts(o)
            \/ \E k \in Keys : \E s \in T!UsedSlots : Deletes(k, s)
<1>1. ASSUME NEW o \in Objects, InsertNew(o)
      PROVE  Inserts(o) /\ pc' # "null" /\ iterator' = iterator
  BY <1>1 DEF InsertNew, T!CheckUpper, Inserts
<1>2. ASSUME NEW k \in Keys, DeleteExisting(k)
      PROVE  pc' # "null" /\ iterator' = iterator /\ \E s \in T!UsedSlots : Deletes(k, s)
  BY <1>2 DEF DeleteExisting, Deletes
<1>3. CASE WrongArgument \/ ResizeFails \/ Spin
  BY <1>3 DEF WrongArgument, ResizeFails, Spin, memory, vars
<1>4. CASE \E k \in Keys : Search(k) \/ DeleteMissing(k) \/ Hang(k)
  BY <1>4 DEF Search, DeleteMissing, T!CheckLower, Hang, memory
<1>5. CASE (\E o \in Objects : InsertExisting(o)) \/ DestructReturns
  BY <1>5 DEF InsertExisting, T!CheckUpper, DestructReturns, T!CheckLower, memory
<1>6. ~(\E hint \in Hints : Create(hint) \/ CreateFails(hint)) /\ ~BeginFree /\ ~StartRehash
      /\ ~MovePair /\ ~EndRehash /\ ~FreePair /\ ~EndFree
  BY DEF Create, CreateFails, BeginFree, StartRehash, MovePair, EndRehash, FreePair, EndFree
<1>7. QED
  BY <1>1, <1>2, <1>3, <1>4, <1>5, <1>6 DEF Next, Call, GoOn

LEMMA QuietOnItsWay ==
  ASSUME NEW d, NEW g, NEW mask, OnItsWay(d, g, mask), WalkMoves,
         UNCHANGED <<group_num, bitmap, table, owner>>
  PROVE  OnItsWay(d, g, mask)'
<1>1. Gone = {}
  BY DEF Gone
<1>2. /\ walk'.due = walk.due /\ walk'.lost = walk.lost /\ walk'.done = walk.done
      /\ Settled' = Settled
  BY <1>1 DEF WalkMoves, Settled
<1>3. /\ T!UsedSlots' = T!UsedSlots /\ T!Groups' = T!Groups
      /\ \A s : EntryAt(s)' = EntryAt(s)
  BY DEF T!UsedSlots, T!Groups, EntryAt
<1>4. Ahead(d, g, mask)' = Ahead(d, g, mask)
  BY <1>3 DEF Ahead
<1>5. QED
  BY <1>2, <1>3, <1>4 DEF OnItsWay

LEMMA InsertOnItsWay ==
  ASSUME NodeInv, NEW d, NEW g, NEW mask, OnItsWay(d, g, mask), WalkMoves,
         NEW o \in Objects, Inserts(o)
  PROVE  OnItsWay(d, g, mask)'
<1>1. owner \in [Objects -> {"client", "table"}] /\ owner[o] = "client"
      /\ owner' = [owner EXCEPT ![o] = "table"]
  BY DEF NodeInv, OwnerInv, Inserts
<1>2. Gone = {}
  BY <1>1 DEF Gone
<1>3. /\ walk'.due = walk.due /\ walk'.lost = walk.lost /\ walk'.done = walk.done
      /\ Settled' = Settled
  BY <1>2 DEF WalkMoves, Settled
<1>4. PICK h \in T!Groups, p \in Positions :
        /\ <<h, p>> \notin T!UsedSlots
        /\ T!UsedSlots' = T!UsedSlots \cup {<<h, p>>}
        /\ table'[h][p] = Pair(o)
        /\ \A i \in T!Groups, q \in Positions : <<i, q>> # <<h, p>> => table'[i][q] = table[i][q]
  <2>1. PICK h \in T!Groups, p \in Positions :
          T!FreeAt(KeyOf[o], h, p) /\ T!Put(Pair(o), h, p)
    BY DEF Inserts, Store
  <2>2. h \in F!Groups /\ p \in F!Positions /\ F!FreeAt(Pair(o).key, h, p)
    BY <2>1, SameSlots, SameProbes DEF Pair
  <2>3. QED
    BY <2>1, <2>2, StoreFillsOneSlot DEF Inserts
<1>5. T!Groups' = T!Groups
  BY DEF Inserts, T!Groups
<1>6. EntryAt(<<h, p>>)' = o
  BY <1>4 DEF EntryAt, Pair
<1>7. ASSUME NEW i \in T!Groups, NEW q \in Positions, <<i, q>> # <<h, p>>
      PROVE  EntryAt(<<i, q>>)' = EntryAt(<<i, q>>)
  BY <1>4, <1>7 DEF EntryAt
<1>8. ASSUME NEW s \in T!UsedSlots
      PROVE  EntryAt(s)' = EntryAt(s)
  <2>1. s[1] \in T!Groups /\ s[2] \in Positions /\ <<s[1], s[2]>> # <<h, p>>
    BY <1>4, UsedParts
  <2>2. QED
    BY <1>4, <2>1 DEF EntryAt
<1>9. /\ Ahead(d, g, mask) \subseteq Ahead(d, g, mask)'
      /\ \A s \in Ahead(d, g, mask)' : s = <<h, p>> \/ s \in Ahead(d, g, mask)
      /\ Ahead(d, g, mask) \subseteq T!UsedSlots
  BY <1>4 DEF Ahead
<1>10. /\ g \in T!Groups /\ mask \in SUBSET Positions
       /\ \A q \in mask : <<g, q>> \in T!UsedSlots \/ EntryAt(<<g, q>>) \in walk.lost
       /\ \A x \in Settled : x \in Objects /\ owner[x] = "table"
       /\ \A s \in Ahead(d, g, mask) : EntryAt(s) \notin Settled
       /\ \A x \in walk.due : \E s \in Ahead(d, g, mask) : EntryAt(s) = x
       /\ walk.done => d = -1 /\ g = 0 /\ mask = {}
  BY DEF OnItsWay
<1>11. ASSUME NEW q \in mask
       PROVE  <<g, q>> \in T!UsedSlots' \/ EntryAt(<<g, q>>)' \in walk'.lost
  BY <1>3, <1>4, <1>7, <1>10
<1>12. \A x \in Settled' : x \in Objects /\ owner'[x] = "table"
  BY <1>1, <1>3, <1>10
<1>13. \A s \in Ahead(d, g, mask)' : EntryAt(s)' \notin Settled'
  BY <1>1, <1>3, <1>6, <1>8, <1>9, <1>10
<1>14. \A x \in walk'.due : \E s \in Ahead(d, g, mask)' : EntryAt(s)' = x
  BY <1>3, <1>8, <1>9, <1>10
<1>15. QED
  BY <1>3, <1>5, <1>10, <1>11, <1>12, <1>13, <1>14 DEF OnItsWay

(* What is deleted before its turn is lost, and so is the bit that a mask still has of it. *)
LEMMA DeleteOnItsWay ==
  ASSUME NodeInv, NEW d, NEW g, NEW mask, OnItsWay(d, g, mask), WalkMoves,
         NEW k \in Keys, NEW s \in T!UsedSlots, Deletes(k, s)
  PROVE  OnItsWay(d, g, mask)'
<1> DEFINE o == EntryAt(s)
<1>1. /\ T!UsedSlots' = T!UsedSlots \ {s} /\ T!Groups' = T!Groups
      /\ \A t : EntryAt(t)' = EntryAt(t)
  <2>1. T!UsedSlots' = T!UsedSlots \ {s}
    BY DeletionEmptiesOneSlot DEF Deletes
  <2>2. QED
    BY <2>1 DEF Deletes, T!Groups, EntryAt
<1>2. o \in Objects /\ owner[o] = "table" /\ owner \in [Objects -> {"client", "table"}]
  BY UsedEntry DEF Deletes, NodeInv, OwnerInv
<1>3. owner' = [owner EXCEPT ![o] = "client"]
  BY <1>2 DEF Deletes, Destruct
<1>4. Gone = {o} /\ \A x \in Objects : x # o => owner'[x] = owner[x]
  BY <1>2, <1>3 DEF Gone
<1>5. /\ walk'.due = walk.due \ {o} /\ walk'.done = walk.done
      /\ walk'.lost = walk.lost \cup ({o} \ walk.given)
      /\ Settled' = Settled \ {o}
  BY <1>4 DEF WalkMoves, Settled
<1>6. /\ g \in T!Groups /\ mask \in SUBSET Positions
      /\ \A q \in mask : <<g, q>> \in T!UsedSlots \/ EntryAt(<<g, q>>) \in walk.lost
      /\ \A x \in Settled : x \in Objects /\ owner[x] = "table"
      /\ \A t \in Ahead(d, g, mask) : EntryAt(t) \notin Settled
      /\ \A x \in walk.due : \E t \in Ahead(d, g, mask) : EntryAt(t) = x
      /\ walk.done => d = -1 /\ g = 0 /\ mask = {}
  BY DEF OnItsWay
<1>7. Ahead(d, g, mask)' = Ahead(d, g, mask) \ {s}
  BY <1>1 DEF Ahead
<1>8. ASSUME NEW q \in mask
      PROVE  <<g, q>> \in T!UsedSlots' \/ EntryAt(<<g, q>>)' \in walk'.lost
  <2>1. CASE <<g, q>> = s
    <3>1. s \in Ahead(d, g, mask)
      BY <2>1 DEF Ahead
    <3>2. o \notin Settled
      BY <1>6, <3>1
    <3>3. o \in walk'.lost
      BY <1>5, <3>2 DEF Settled
    <3>4. QED
      BY <1>1, <2>1, <3>3
  <2>2. CASE <<g, q>> # s
    BY <1>1, <1>5, <1>6, <2>2
  <2>3. QED
    BY <2>1, <2>2
<1>9. \A x \in Settled' : x \in Objects /\ owner'[x] = "table"
  BY <1>4, <1>5, <1>6
<1>10. \A t \in Ahead(d, g, mask)' : EntryAt(t)' \notin Settled'
  BY <1>1, <1>5, <1>6, <1>7
<1>11. \A x \in walk'.due : \E t \in Ahead(d, g, mask)' : EntryAt(t)' = x
  BY <1>1, <1>5, <1>6, <1>7
<1> HIDE DEF o
<1>12. QED
  BY <1>1, <1>5, <1>6, <1>8, <1>9, <1>10, <1>11 DEF OnItsWay

(* The iterator of a table is created invalid, and a resize makes it so. *)
LEMMA IteratorParts ==
  ASSUME "iter_state" \in DOMAIN iterator, iterator.iter_state \in BOOLEAN, Next
  PROVE  /\ "iter_state" \in DOMAIN iterator' /\ iterator'.iter_state \in BOOLEAN
         /\ \/ pc' # "rehash"
            \/ iterator' = iterator /\ pc = "rehash"
            \/ iterator'.iter_state = FALSE
<1>1. \/ iterator' = iterator /\ (pc' = "rehash" => pc = "rehash")
      \/ iterator' = NoIterator
      \/ iterator' = [iterator EXCEPT !.iter_state = FALSE]
  <2>1. CASE Call
    BY <2>1
       DEF Call, Create, CreateFails, BeginFree, WrongArgument, Search, DeleteExisting, DeleteMissing,
           Hang, InsertExisting, InsertNew, T!CheckUpper, T!CheckLower
  <2>2. CASE GoOn \/ Spin
    BY <2>2
       DEF GoOn, DestructReturns, T!CheckLower, ResizeFails, StartRehash, MovePair, EndRehash,
           FreePair, EndFree, Spin, vars
  <2>3. QED
    BY <2>1, <2>2 DEF Next
<1>2. CASE iterator' = NoIterator
  BY <1>2 DEF NoIterator
<1>3. CASE iterator' = [iterator EXCEPT !.iter_state = FALSE]
  BY <1>3
<1>4. CASE iterator' = iterator /\ (pc' = "rehash" => pc = "rehash")
  <2>1. "iter_state" \in DOMAIN iterator' /\ iterator'.iter_state \in BOOLEAN
    BY <1>4
  <2>2. pc' = "rehash" => iterator' = iterator /\ pc = "rehash"
    BY <1>4
  <2>3. QED
    BY <2>1, <2>2
<1>5. QED
  BY <1>1, <1>2, <1>3, <1>4

(* The result of the iterator is there until the next call. *)
LEMMA OperationResult ==
  ASSUME LiveInv, Next
  PROVE  /\ "op" \in DOMAIN ret'
         /\ ret'.op \in IterOps =>
              /\ ret' = ret /\ owner' = owner
              /\ pc \in {"ready", "hung"} /\ pc' \in {"ready", "hung"}
<1>1. "op" \in DOMAIN ret /\ (pc \notin {"ready", "hung"} => ret.op \notin IterOps)
  BY DEF LiveInv
<1>2. CASE \E op \in {"create", "free", "wrong", "search", "insert", "delete"} :
             \E arg, code, pointer : ret' = Result(op, arg, code, pointer)
  BY <1>2 DEF Result, IterOps
<1>3. CASE pc \notin {"ready", "hung"} /\ "op" \in DOMAIN ret' /\ ret'.op = ret.op
  BY <1>1, <1>3
<1>4. CASE ret' = ret /\ owner' = owner /\ pc \in {"ready", "hung"} /\ pc' \in {"ready", "hung"}
  BY <1>1, <1>4
<1>5. ASSUME NEW hint \in Hints, Create(hint) \/ CreateFails(hint)
      PROVE  \E code : ret' = Result("create", NULL, code, NULL)
  BY <1>5 DEF Create, CreateFails
<1>6. ASSUME NEW k \in Keys, Search(k)
      PROVE  \E arg, code, pointer : ret' = Result("search", arg, code, pointer)
  BY <1>6 DEF Search
<1>7. ASSUME NEW k \in Keys, DeleteExisting(k) \/ DeleteMissing(k)
      PROVE  \E arg, code, pointer : ret' = Result("delete", arg, code, pointer)
  BY <1>7 DEF DeleteExisting, DeleteMissing
<1>8. ASSUME NEW o \in Objects, InsertExisting(o) \/ InsertNew(o)
      PROVE  \E arg, code, pointer : ret' = Result("insert", arg, code, pointer)
  BY <1>8 DEF InsertExisting, InsertNew
<1>9. BeginFree => \E arg, code, pointer : ret' = Result("free", arg, code, pointer)
  BY DEF BeginFree
<1>10. WrongArgument => \E arg, code, pointer : ret' = Result("wrong", arg, code, pointer)
  BY DEF WrongArgument
<1>11. Spin \/ (\E k \in Keys : Hang(k)) =>
         ret' = ret /\ owner' = owner /\ pc \in {"ready", "hung"} /\ pc' \in {"ready", "hung"}
  BY DEF Spin, Hang, vars
<1>12. GoOn => pc \notin {"ready", "hung"} /\ "op" \in DOMAIN ret' /\ ret'.op = ret.op
  BY <1>1
     DEF GoOn, DestructReturns, ResizeFails, StartRehash, MovePair, EndRehash, FreePair, EndFree
<1>13. QED
  BY <1>2, <1>3, <1>4, <1>5, <1>6, <1>7, <1>8, <1>9, <1>10, <1>11, <1>12 DEF Next, Call

LEMMA OperateStep ==
  ASSUME IterInv, Operate
  PROVE  IterInv'
<1>1. NodeInv /\ NodeInv' /\ Next
  BY NextKeepsSound DEF IterInv, Operate
<1>2. /\ "iter_state" \in DOMAIN iterator' /\ iterator'.iter_state \in BOOLEAN
      /\ pc' = "rehash" => ~iterator'.iter_state
  <2>1. "iter_state" \in DOMAIN iterator /\ iterator.iter_state \in BOOLEAN
        /\ (pc = "rehash" => ~iterator.iter_state)
    BY DEF IterInv, WalkInv
  <2>2. QED
    BY <1>1, <2>1, IteratorParts
<1>3. /\ "op" \in DOMAIN ret'
      /\ ret'.op \in IterOps =>
           /\ ret' = ret /\ owner' = owner
           /\ pc \in {"ready", "hung"} /\ pc' \in {"ready", "hung"}
  BY <1>1, OperationResult DEF IterInv
<1>4. CASE walk.op = "none" \/ pc' = "free"
  BY <1>1, <1>2, <1>3, <1>4, NoWalkIsSound DEF Operate, Disturb
<1>5. CASE walk.op # "none" /\ pc' # "free"
  <2>1. walk \in WalkType /\ (walk.again => walk.fell) /\ ~walk.late /\ pc \notin {"null", "free"}
    BY <1>5 DEF IterInv, WalkInv
  <2>2. /\ walk' \in WalkType
        /\ walk'.op = walk.op /\ walk'.due = walk.due \ Gone /\ walk'.given = walk.given \ Gone
        /\ walk'.lost = walk.lost \cup (Gone \ walk.given)
        /\ walk'.again = walk.again /\ walk'.late = walk.late /\ walk'.done = walk.done
        /\ walk'.resized = (walk.resized \/ pc' = "rehash") /\ walk'.fell = walk.fell
    BY <1>5, <2>1, DisturbParts DEF Operate
  <2>3. pc' # "null"
    <3>1. pc' = "null" => pc \in {"null", "free"}
      BY <1>1
         DEF Next, Call, GoOn, Create, CreateFails, BeginFree, WrongArgument, Search, DeleteExisting,
             DeleteMissing, Hang, InsertExisting, InsertNew, T!CheckUpper, T!CheckLower,
             DestructReturns, ResizeFails, StartRehash, MovePair, EndRehash, FreePair, EndFree,
             Spin, vars
    <3>2. QED
      BY <2>1, <3>1
  <2>4. ASSUME iterator'.iter_state
        PROVE  /\ ~walk'.resized /\ ~walk'.fell
               /\ OnItsWay(Direction, iterator.cur_group, iterator.cur_group_mask)'
    <3>1. pc' # "rehash" /\ pc # "rehash"
      <4>1. pc' # "rehash"
        BY <1>2, <2>4
      <4>2. pc = "rehash" => iterator' = iterator
        BY <1>1, <2>1 DEF Next, Call, GoOn, Create, CreateFails, BeginFree, WrongArgument, Search,
             DeleteExisting, DeleteMissing, Hang, InsertExisting, InsertNew, DestructReturns,
             ResizeFails, StartRehash, MovePair, EndRehash, FreePair, EndFree, Spin, vars
      <4>3. QED
        BY <2>4, <4>1, <4>2 DEF IterInv, WalkInv
    <3>2. /\ iterator' = iterator
          /\ \/ UNCHANGED <<group_num, bitmap, table, owner>>
             \/ \E o \in Objects : Inserts(o)
             \/ \E k \in Keys : \E s \in T!UsedSlots : Deletes(k, s)
      BY <1>1, <1>5, <2>1, <3>1, OperationKinds
    <3>3. /\ ~walk.resized /\ ~walk.fell
          /\ OnItsWay(Direction, iterator.cur_group, iterator.cur_group_mask)
      BY <1>5, <2>4, <3>2 DEF IterInv, WalkInv
    <3>4. WalkMoves
      BY <2>2 DEF WalkMoves
    <3>5. PICK d, g, mask : d = Direction /\ g = iterator.cur_group /\ mask = iterator.cur_group_mask
      OBVIOUS
    <3>6. OnItsWay(d, g, mask)
      BY <3>3, <3>5
    <3>7. OnItsWay(d, g, mask)'
      BY <1>1, <3>2, <3>4, <3>6, QuietOnItsWay, InsertOnItsWay, DeleteOnItsWay
    <3>8. d = Direction' /\ g = iterator'.cur_group /\ mask = iterator'.cur_group_mask
      BY <2>2, <3>2, <3>5 DEF Direction
    <3>9. OnItsWay(Direction, iterator.cur_group, iterator.cur_group_mask)'
      BY <3>7, <3>8
    <3>10. QED
      BY <2>2, <3>1, <3>3, <3>9
  <2>5. ASSUME ~iterator'.iter_state
        PROVE  walk'.resized \/ walk'.due = {}
    <3>1. CASE pc' = "rehash"
      BY <2>2, <3>1
    <3>2. CASE pc' # "rehash" /\ pc = "rehash"
      <4>1. iterator' = iterator
        BY <1>1, <3>2
           DEF Next, Call, GoOn, Create, CreateFails, BeginFree, WrongArgument, Search,
               DeleteExisting, DeleteMissing, Hang, InsertExisting, InsertNew, DestructReturns,
               ResizeFails, StartRehash, MovePair, EndRehash, FreePair, EndFree, Spin, vars
      <4>2. QED
        BY <1>5, <2>2, <2>5, <4>1 DEF IterInv, WalkInv
    <3>3. CASE pc' # "rehash" /\ pc # "rehash"
      <4>1. iterator' = iterator
        BY <1>1, <1>5, <2>1, <3>3, OperationKinds
      <4>2. QED
        BY <1>5, <2>2, <2>5, <4>1 DEF IterInv, WalkInv
    <3>4. QED
      BY <3>1, <3>2, <3>3
  <2>6. WalkInv'
    BY <1>2, <1>5, <2>1, <2>2, <2>3, <2>4, <2>5 DEF WalkInv
  <2>7. LiveInv'
    <3>1. ASSUME walk'.lost = {}, ~walk'.fell, ret'.op \in IterOps, ret'.pointer \in Objects
          PROVE  owner'[ret'.pointer] = "table"
      <4>1. ret' = ret /\ owner' = owner
        BY <1>3, <3>1
      <4>2. walk.lost = {} /\ ~walk.fell
        BY <2>2, <3>1
      <4>3. QED
        BY <1>5, <3>1, <4>1, <4>2 DEF IterInv, LiveInv, GivenIsLive, IterOps
    <3>2. GivenIsLive'
      BY <3>1 DEF GivenIsLive, IterOps
    <3>3. pc' \notin {"ready", "hung"} => ret'.op \notin IterOps
      BY <1>3
    <3>4. QED
      BY <1>3, <3>2, <3>3 DEF LiveInv
  <2>8. QED
    BY <1>1, <1>2, <2>6, <2>7 DEF IterInv
<1>6. QED
  BY <1>4, <1>5

LEMMA IterInitIsSound ==
  ASSUME IterInit
  PROVE  IterInv
<1>1. NodeInv
  BY InitIsSound DEF IterInit
<1>2. /\ walk \in WalkType /\ walk.op = "none" /\ walk.due = {} /\ walk.again = FALSE /\ walk.late = FALSE
      /\ walk.fell = FALSE
  BY DEF IterInit, NoWalk, WalkType
<1>3. "iter_state" \in DOMAIN iterator /\ iterator.iter_state = FALSE /\ pc = "null"
  BY DEF IterInit, Init, NoIterator
<1>4. "op" \in DOMAIN ret /\ ret.op = "none"
  BY DEF IterInit, Init, Result
<1>5. WalkInv
  BY <1>2, <1>3 DEF WalkInv
<1>6. LiveInv
  BY <1>2, <1>4 DEF LiveInv, GivenIsLive, IterOps
<1>7. QED
  BY <1>1, <1>3, <1>5, <1>6 DEF IterInv

LEMMA IterStutter ==
  ASSUME IterInv, UNCHANGED iterVars
  PROVE  IterInv'
<1>1. UNCHANGED vars /\ walk' = walk
  BY DEF iterVars
<1>2. NodeInv'
  BY <1>1, NextKeepsSound DEF IterInv
<1>3. /\ T!UsedSlots' = T!UsedSlots /\ T!Groups' = T!Groups /\ Direction' = Direction
      /\ Settled' = Settled
      /\ UNCHANGED <<pc, iterator, ret, owner, table>>
  BY <1>1 DEF vars, memory, T!UsedSlots, T!Groups, Direction, Settled
<1>4. WalkInv'
  BY <1>1, <1>3 DEF IterInv, WalkInv, OnItsWay, Ahead, EntryAt
<1>5. LiveInv'
  BY <1>1, <1>3 DEF IterInv, LiveInv, GivenIsLive
<1>6. QED
  BY <1>2, <1>3, <1>4, <1>5 DEF IterInv

-----------------------------------------------------------------------------
(***************************************************************************)
(* The invariant holds whatever is called between two calls of the         *)
(* iterator, and whether or not malloc succeeds.                           *)
(***************************************************************************)
THEOREM WalkSoundness == IterSpec => []IterInv
<1>1. IterInit => IterInv
  BY IterInitIsSound
<1>2. IterInv /\ [IterNext]_iterVars => IterInv'
  BY IterateStep, OperateStep, IterStutter DEF IterNext
<1>3. QED
  BY <1>1, <1>2, PTL DEF IterSpec

(***************************************************************************)
(* A walk in either direction, with any insertions and deletions on its    *)
(* way, returns every object that stays in the table, unless a resize ends *)
(* it before, and no object twice that was not destroyed before its turn;  *)
(* only a result that ht_node_prev_it makes up at the end may be any       *)
(* object.                                                                 *)
(***************************************************************************)
THEOREM WalkReturnsStaying == IterSpec => []StayingSeenOnce
<1>1. IterInv => StayingSeenOnce
  <2>1. SUFFICES ASSUME IterInv, walk.done \/ walk.fell, ~walk.resized
                 PROVE  walk.due = {}
    BY DEF IterInv, WalkInv, StayingSeenOnce
  <2>2. CASE walk.op = "none"
    BY <2>1, <2>2 DEF IterInv, WalkInv
  <2>3. CASE walk.op # "none" /\ ~iterator.iter_state
    BY <2>1, <2>3 DEF IterInv, WalkInv
  <2>4. CASE walk.op # "none" /\ iterator.iter_state
    <3>1. OnItsWay(-1, 0, {})
      BY <2>1, <2>4 DEF IterInv, WalkInv, OnItsWay
    <3>2. Ahead(-1, 0, {}) = {}
      BY <2>1, <3>1, SizeIsNat, NothingAhead DEF OnItsWay, IterInv
    <3>3. QED
      BY <3>1, <3>2 DEF OnItsWay
  <2>5. QED
    BY <2>1, <2>2, <2>3, <2>4 DEF IterInv
<1>2. QED
  BY <1>1, WalkSoundness, PTL

(***************************************************************************)
(* A client that deletes only what a walk has returned is never given an   *)
(* object that its destructor has destroyed, before ht_node_prev_it makes  *)
(* up a result.                                                            *)
(***************************************************************************)
THEOREM WalkGivesLive == IterSpec => []GivenIsLive
<1>1. IterInv => GivenIsLive
  BY DEF IterInv, LiveInv
<1>2. QED
  BY <1>1, WalkSoundness, PTL

(***************************************************************************)
(* NULL ends a walk: node_sparse_hashtable.h:122.                          *)
(***************************************************************************)
THEOREM WalkEndsAtNull == IterSpec => []NullEndsWalk
<1>1. IterInv => NullEndsWalk
  BY DEF IterInv, WalkInv, NullEndsWalk
<1>2. QED
  BY <1>1, WalkSoundness, PTL

=============================================================================
