----------------------- MODULE FlatDictionary_proofs -----------------------
(***************************************************************************)
(* The flat table implements a dictionary: every step of FlatHashtable is  *)
(* a step of HashMap on the pairs of the table, or one that HashMap does   *)
(* not see.                                                                *)
(***************************************************************************)
EXTENDS FlatHashtable_proofs

(***************************************************************************)
(* The pairs of the table and those that a resize has yet to copy form a   *)
(* function from keys to entries.                                          *)
(***************************************************************************)
LEMMA ContentsArePairs ==
  ASSUME TableInv
  PROVE  Contents \subseteq Pairs
BY DEF TableInv, SlotsAreSound, SlotIsSound, OldTableInv, Contents

LEMMA ContentsAreUnique ==
  ASSUME TableInv, NEW a \in Contents, NEW b \in Contents, a.key = b.key
  PROVE  a = b
<1>1. CASE \E s, t \in UsedSlots : a = table[s[1]][s[2]] /\ b = table[t[1]][t[2]]
  BY <1>1 DEF TableInv, KeysStoredOnce
<1>2. CASE \E s, t \in left : a = old_table[s[1]][s[2]] /\ b = old_table[t[1]][t[2]]
  BY <1>2 DEF TableInv, KeysStoredOnce
<1>3. CASE \E s \in UsedSlots, t \in left :
             \/ (a = table[s[1]][s[2]] /\ b = old_table[t[1]][t[2]])
             \/ (b = table[s[1]][s[2]] /\ a = old_table[t[1]][t[2]])
  BY <1>3 DEF TableInv, KeysStoredOnce
<1>4. QED
  BY <1>1, <1>2, <1>3 DEF Contents

LEMMA EntryOfStored ==
  ASSUME TableInv, NEW pair \in Contents
  PROVE  EntryOf(pair.key) = pair.entry
<1>1. \A q \in Contents : q.key = pair.key => q = pair
  BY ContentsAreUnique
<1>2. (CHOOSE q \in Contents : q.key = pair.key) = pair
  BY <1>1
<1>3. QED
  BY <1>2 DEF EntryOf

LEMMA EntryOfAbsent ==
  ASSUME NEW k, \A q \in Contents : q.key # k
  PROVE  EntryOf(k) = NULL
BY DEF EntryOf

(* What a change of one pair is to the dictionary. *)
LEMMA WritePair ==
  ASSUME TableInv, NEW d \in Keys, NEW e \in Entries,
         Contents' = {q \in Contents : q.key # d} \cup {[key |-> d, entry |-> e]}
  PROVE  \A k \in Keys : EntryOf(k)' = IF k = d THEN e ELSE EntryOf(k)
<1>1. SUFFICES ASSUME NEW k \in Keys
               PROVE  EntryOf(k)' = IF k = d THEN e ELSE EntryOf(k)
  OBVIOUS
<1>2. CASE k = d
  <2> DEFINE pair == [key |-> d, entry |-> e]
  <2>1. pair \in Contents' /\ pair.key = d /\ pair.entry = e
    OBVIOUS
  <2> HIDE DEF pair
  <2>2. \A r \in Contents' : r.key = k => r = pair
    BY <1>2, <2>1
  <2>3. QED
    BY <1>2, <2>1, <2>2 DEF EntryOf
<1>3. CASE k # d /\ \E q \in Contents : q.key = k
  <2>1. PICK q \in Contents' : q.key = k /\ q \in Contents
    BY <1>3
  <2>2. EntryOf(k) = q.entry
    BY <2>1, EntryOfStored
  <2>3. \A r \in Contents' : r.key = k => r = q
    BY <1>3, <2>1, ContentsAreUnique
  <2>4. QED
    BY <1>3, <2>1, <2>2, <2>3 DEF EntryOf
<1>4. CASE k # d /\ \A q \in Contents : q.key # k
  <2>1. \A q \in Contents' : q.key # k
    BY <1>4
  <2>2. QED
    BY <1>4, <2>1 DEF EntryOf
<1>5. QED
  BY <1>2, <1>3, <1>4

LEMMA DropPair ==
  ASSUME TableInv, NEW d \in Keys, Contents' = {q \in Contents : q.key # d}
  PROVE  \A k \in Keys : EntryOf(k)' = IF k = d THEN NULL ELSE EntryOf(k)
<1>1. SUFFICES ASSUME NEW k \in Keys
               PROVE  EntryOf(k)' = IF k = d THEN NULL ELSE EntryOf(k)
  OBVIOUS
<1>2. CASE k # d /\ \E q \in Contents : q.key = k
  <2>1. PICK q \in Contents' : q.key = k /\ q \in Contents
    BY <1>2
  <2>2. EntryOf(k) = q.entry
    BY <2>1, EntryOfStored
  <2>3. \A r \in Contents' : r.key = k => r = q
    BY <2>1, ContentsAreUnique
  <2>4. QED
    BY <1>2, <2>1, <2>2, <2>3 DEF EntryOf
<1>3. CASE k = d \/ \A q \in Contents : q.key # k
  <2>1. \A q \in Contents' : q.key # k
    BY <1>3
  <2>2. QED
    BY <1>3, <2>1 DEF EntryOf
<1>4. QED
  BY <1>2, <1>3

-----------------------------------------------------------------------------
(***************************************************************************)
(* Contents and answers, step by step.                                     *)
(***************************************************************************)
LEMMA SameContents ==
  ASSUME Contents' = Contents
  PROVE  \A k \in Keys : EntryOf(k)' = EntryOf(k)
BY DEF EntryOf

LEMMA QuietContents ==
  ASSUME UNCHANGED <<group_num, bitmap, table, old_table, left>>
  PROVE  Contents' = Contents
BY DEF Contents, UsedSlots, Groups

LEMMA FoundEntry ==
  ASSUME TableInv, NEW k \in Keys, NEW g \in Groups, NEW p \in Positions, FindsAt(k, g, p)
  PROVE  /\ <<g, p>> \in UsedSlots /\ <<g, p>> # NULL
         /\ table[g][p] \in Contents /\ table[g][p].key = k
         /\ EntryOf(k) = table[g][p].entry /\ EntryOf(k) # NULL
<1>1. <<g, p>> \in UsedSlots /\ table[g][p].key = k
  BY FoundIsUsed DEF TableInv
<1>2. table[g][p] \in Contents
  BY <1>1 DEF Contents
<1>3. EntryOf(k) = table[g][p].entry
  BY <1>1, <1>2, EntryOfStored
<1>4. table[g][p].entry \in Entries
  BY <1>2, ContentsArePairs DEF Pairs
<1>5. <<g, p>> # NULL
  BY FlatAssumption DEF Groups, Positions
<1>6. QED
  BY <1>1, <1>2, <1>3, <1>4, <1>5, FlatAssumption

LEMMA MissedEntry ==
  ASSUME TableInv, pc = "ready", NEW k \in Keys, Misses(k)
  PROVE  (\A q \in Contents : q.key # k) /\ EntryOf(k) = NULL
<1>1. left = {}
  BY DEF TableInv, OldTableInv
<1>2. \A q \in Contents : q.key # k
  BY <1>1, MissedIsAbsent DEF Contents
<1>3. QED
  BY <1>2, EntryOfAbsent

(* A store adds its pair, wherever it puts it. *)
LEMMA PutContents ==
  ASSUME TableInv, group_num' = group_num, UNCHANGED old_table,
         NEW k \in Keys, NEW g \in Groups, NEW p \in Positions, NEW pair \in Pairs,
         FreeAt(k, g, p), Put(pair, g, p)
  PROVE  {table'[s[1]][s[2]] : s \in UsedSlots'} = {table[s[1]][s[2]] : s \in UsedSlots} \cup {pair}
<1>1. p \in AndMask(bitmap[g])
  BY DEF FreeAt, IsFirstSetBit
<1>2. /\ UsedSlots' = UsedSlots \cup {<<g, p>>}
      /\ table'[g][p] = pair
      /\ \A s \in UsedSlots : table'[s[1]][s[2]] = table[s[1]][s[2]]
  <2>1. MemoryOK /\ group_num' = group_num /\ p \in AndMask(bitmap[g]) /\ Put(pair, g, p)
    BY <1>1 DEF TableInv
  <2>2. /\ bitmap' \in [Groups -> [Positions -> Ctrl]]
        /\ table' \in [Groups -> [Positions -> Pairs \cup {JUNK}]]
        /\ <<g, p>> \notin UsedSlots
        /\ UsedSlots' = UsedSlots \cup {<<g, p>>}
        /\ table'[g][p] = pair /\ bitmap'[g][p] = H2(pair.key)
        /\ \A s \in UsedSlots : /\ table'[s[1]][s[2]] = table[s[1]][s[2]]
                                /\ bitmap'[s[1]][s[2]] = bitmap[s[1]][s[2]]
        /\ \A h \in Groups : HasEmpty(bitmap'[h]) => HasEmpty(bitmap[h])
    BY <2>1, PutChangesOneSlot
  <2>3. QED
    BY <2>2
<1> DEFINE Now(s) == table[s[1]][s[2]]
<1> DEFINE Then(s) == table'[s[1]][s[2]]
<1>3. Then(<<g, p>>) = pair /\ \A s \in UsedSlots : Then(s) = Now(s)
  BY <1>2
<1> HIDE DEF Now, Then
<1>4. {Then(s) : s \in UsedSlots \cup {<<g, p>>}} = {Now(s) : s \in UsedSlots} \cup {pair}
  BY <1>3
<1>5. {Then(s) : s \in UsedSlots'} = {Now(s) : s \in UsedSlots} \cup {pair}
  BY <1>2, <1>4
<1>6. QED
  BY <1>5 DEF Now, Then

LEMMA DeleteContents ==
  ASSUME TableInv, pc = "ready", NEW k \in Keys, DeleteExisting(k)
  PROVE  Contents' = {q \in Contents : q.key # k}
<1>1. PICK g \in Groups, p \in Positions :
        FindsAt(k, g, p) /\ bitmap' = [bitmap EXCEPT ![g][p] = Tombstone(g)]
  BY DEF DeleteExisting
<1>2. left = {} /\ left' = {} /\ table' = table /\ group_num' = group_num
  BY DEF DeleteExisting, TableInv, OldTableInv
<1>3. <<g, p>> \in UsedSlots /\ table[g][p].key = k
  BY <1>1, FoundEntry
<1>4. UsedSlots' = UsedSlots \ {<<g, p>>}
  BY <1>1, <1>2, <1>3, DeleteChangesOneSlot DEF TableInv
<1>5. \A s \in UsedSlots : table[s[1]][s[2]].key = k <=> s = <<g, p>>
  BY <1>3 DEF TableInv, KeysStoredOnce
<1>6. QED
  BY <1>2, <1>4, <1>5 DEF Contents

LEMMA EmplaceContents ==
  ASSUME TableInv, pc = "ready", NEW k \in Keys, NEW e \in Entries, EmplaceExisting(k, e)
  PROVE  Contents' = {q \in Contents : q.key # k} \cup {[key |-> k, entry |-> e]}
<1>1. PICK g \in Groups, p \in Positions :
        FindsAt(k, g, p) /\ table' = [table EXCEPT ![g][p].entry = e]
  BY DEF EmplaceExisting
<1>2. left = {} /\ left' = {} /\ UsedSlots' = UsedSlots
  BY DEF EmplaceExisting, TableInv, OldTableInv, UsedSlots, Groups
<1>3. <<g, p>> \in UsedSlots /\ table[g][p].key = k /\ table[g][p] \in Pairs
  BY <1>1, FoundEntry, ContentsArePairs
<1>4. [table[g][p] EXCEPT !.entry = e] = [key |-> k, entry |-> e]
  BY <1>3 DEF Pairs
<1>5. \A s \in UsedSlots :
        table'[s[1]][s[2]] = IF s = <<g, p>> THEN [key |-> k, entry |-> e] ELSE table[s[1]][s[2]]
  <2>1. table' = [table EXCEPT ![g] = [table[g] EXCEPT ![p] = [key |-> k, entry |-> e]]]
    BY <1>1, <1>4
  <2>2. QED
    BY <2>1 DEF TableInv, MemoryOK, UsedSlots
<1>6. \A s \in UsedSlots : table[s[1]][s[2]].key = k <=> s = <<g, p>>
  BY <1>3 DEF TableInv, KeysStoredOnce
<1>7. QED
  BY <1>2, <1>3, <1>5, <1>6 DEF Contents

LEMMA InsertContents ==
  ASSUME TableInv, pc = "ready", NEW k \in Keys, NEW e \in Entries,
         NEW op \in {"insert", "emplace"}, InsertNew(op, k, e)
  PROVE  Contents' = {q \in Contents : q.key # k} \cup {[key |-> k, entry |-> e]}
<1> DEFINE pair == [key |-> k, entry |-> e]
<1>1. PICK g \in Groups, p \in Positions : FreeAt(k, g, p) /\ Put(pair, g, p)
  BY DEF InsertNew
<1>2. left = {} /\ left' = {} /\ UNCHANGED <<old_table, group_num>>
  BY DEF InsertNew, TableInv, OldTableInv
<1>3. \A q \in Contents : q.key # k
  BY MissedEntry DEF InsertNew
<1>4. pair \in Pairs
  BY DEF Pairs
<1>5. {table'[s[1]][s[2]] : s \in UsedSlots'} = {table[s[1]][s[2]] : s \in UsedSlots} \cup {pair}
  <2> HIDE DEF pair
  <2>1. QED
    BY <1>1, <1>2, <1>4, PutContents
<1>6. QED
  BY <1>2, <1>3, <1>5 DEF Contents

(* A resize neither gains nor loses a pair, at any point on its way. *)
LEMMA ResizeContents ==
  ASSUME TableInv, ResizeStep
  PROVE  Contents' = Contents
<1>1. CASE ResizeFails
  BY <1>1, QuietContents DEF ResizeFails, memory
<1>2. CASE StartRehash
  <2>1. /\ group_num' = NewGroups /\ bitmap' = EmptyBitmap(group_num')
        /\ table' = JunkTable(group_num')
        /\ old_table' = table /\ left' = UsedSlots /\ left = {}
    BY <1>2 DEF StartRehash, TableInv, OldTableInv
  <2>2. group_num' \in Nat
    BY <1>2, ResizeKeepsSound DEF ResizeStep, TableInv, MemoryOK
  <2>3. UsedSlots' = {}
    BY <2>1, <2>2, EmptyTable
  <2>4. QED
    BY <2>1, <2>3 DEF Contents
<1>3. CASE MovePair
  <2> DEFINE pair(s) == old_table[s[1]][s[2]]
  <2>1. PICK s \in left, g \in Groups, p \in Positions :
          left' = left \ {s} /\ FreeAt(pair(s).key, g, p) /\ Put(pair(s), g, p)
    BY <1>3 DEF MovePair
  <2>2. pair(s) \in Pairs /\ pair(s).key \in Keys
    BY DEF TableInv, OldTableInv, Pairs
  <2>3. UNCHANGED <<old_table, group_num>>
    BY <1>3 DEF MovePair
  <2>4. {table'[t[1]][t[2]] : t \in UsedSlots'} = {table[t[1]][t[2]] : t \in UsedSlots} \cup {pair(s)}
    <3> HIDE DEF pair
    <3>1. QED
      BY <2>1, <2>2, <2>3, PutContents
  <2>5. {pair(t) : t \in left} = {pair(t) : t \in left'} \cup {pair(s)}
    BY <2>1
  <2>6. QED
    BY <2>3, <2>4, <2>5 DEF Contents
<1>4. CASE EndRehash
  <2>1. left = {} /\ left' = {} /\ UsedSlots' = UsedSlots /\ table' = table
    BY <1>4 DEF EndRehash, UsedSlots, Groups
  <2>2. QED
    BY <2>1 DEF Contents
<1>5. QED
  BY <1>1, <1>2, <1>3, <1>4 DEF ResizeStep

-----------------------------------------------------------------------------
(***************************************************************************)
(* The simulation.  Only a lookup's answer refers to the table, and no     *)
(* lookup resizes.                                                         *)
(***************************************************************************)
ResizerInv == pc \in {"grow", "shrink", "rehash"} => ret.op \in {"insert", "emplace", "delete"}

LEMMA NextKeepsResizer ==
  ASSUME ret \in RetType, ResizerInv, [Next]_vars
  PROVE  ResizerInv'
<1>1. CASE Lifetime
  BY <1>1 DEF Lifetime, Create, CreateFails, Free, ResizerInv
<1>2. CASE Call
  <2>1. CASE WrongArgument \/ \E k \in Keys : Search(k) \/ Hang(k)
    BY <2>1 DEF WrongArgument, Search, Hang, ResizerInv
  <2>2. ASSUME NEW k \in Keys, DeleteExisting(k) \/ DeleteMissing(k)
        PROVE  ret'.op = "delete"
    BY <2>2 DEF DeleteExisting, DeleteMissing, Result
  <2>3. ASSUME NEW k \in Keys, NEW e \in Entries, InsertExisting(k, e)
        PROVE  ret'.op = "insert"
    BY <2>3 DEF InsertExisting, Result
  <2>4. ASSUME NEW k \in Keys, NEW e \in Entries,
               EmplaceExisting(k, e) \/ \E op \in {"insert", "emplace"} : InsertNew(op, k, e)
        PROVE  ret'.op \in {"insert", "emplace"}
    BY <2>4 DEF EmplaceExisting, InsertNew, Result
  <2>5. QED
    BY <1>2, <2>1, <2>2, <2>3, <2>4 DEF Call, ResizerInv
<1>3. CASE ResizeStep
  <2>1. ret'.op = ret.op
    BY <1>3 DEF ResizeStep, ResizeFails, StartRehash, MovePair, EndRehash, RetType
  <2>2. pc \in {"grow", "shrink", "rehash"}
    BY <1>3 DEF ResizeStep, ResizeFails, StartRehash, MovePair, EndRehash
  <2>3. QED
    BY <2>1, <2>2 DEF ResizerInv
<1>4. CASE UNCHANGED vars
  BY <1>4 DEF vars, ResizerInv
<1>5. QED
  BY <1>1, <1>2, <1>3, <1>4 DEF Next, Spin

LEMMA InitSimulates ==
  ASSUME Init
  PROVE  Dictionary!Init
<1>1. Contents = {}
  BY DEF Init, Contents, UsedSlots, Groups
<1>2. \A k \in Keys : EntryOf(k) = NULL
  BY <1>1, EntryOfAbsent
<1>3. Answer = NULL
  BY DEF Init, Answer, Result
<1>4. QED
  BY <1>2, <1>3 DEF Dictionary!Init, Dictionary!EmptyMap

LEMMA LifetimeSimulates ==
  ASSUME TableInv, Lifetime
  PROVE  Dictionary!Next
<1>1. Answer' = NULL
  BY DEF Lifetime, Create, CreateFails, Free, Answer, Result
<1>2. CASE \E hint \in Hints : CreateFails(hint)
  <2>1. \A k \in Keys : EntryOf(k)' = EntryOf(k)
    BY <1>2, QuietContents, SameContents DEF CreateFails, memory
  <2>2. Dictionary!Other
    BY <1>1, <2>1 DEF Dictionary!Other
  <2>3. QED
    BY <2>2 DEF Dictionary!Next
<1>3. CASE (\E hint \in Hints : Create(hint)) \/ Free
  <2>1. left' = {}
    BY <1>3 DEF Create, Free, TableInv, OldTableInv
  <2>2. UsedSlots' = {}
    <3>1. group_num' \in Nat
      BY LifetimeStep DEF TableInv, MemoryOK
    <3>2. bitmap' = EmptyBitmap(group_num') /\ table' = JunkTable(group_num')
      BY <1>3 DEF Create, Free
    <3>3. QED
      BY <3>1, <3>2, EmptyTable
  <2>3. \A k \in Keys : EntryOf(k)' = NULL
    <3>1. Contents' = {}
      BY <2>1, <2>2 DEF Contents
    <3>2. QED
      BY <3>1 DEF EntryOf
  <2>4. Dictionary!Clear
    BY <1>1, <2>3 DEF Dictionary!Clear, Dictionary!EmptyMap
  <2>5. QED
    BY <2>4 DEF Dictionary!Next
<1>4. QED
  BY <1>2, <1>3 DEF Lifetime

LEMMA SearchSimulates ==
  ASSUME TableInv, NEW k \in Keys, Search(k)
  PROVE  Dictionary!Search(k)
<1>1. UNCHANGED memory /\ pc = "ready"
  BY DEF Search
<1>2. \A l \in Keys : EntryOf(l)' = EntryOf(l)
  BY <1>1, QuietContents, SameContents DEF memory
<1>3. Answer' = <<k, EntryOf(k)>>
  <2>1. ASSUME NEW g \in Groups, NEW p \in Positions, FindsAt(k, g, p),
               ret' = Result("search", k, TRUE, HASH_OK, <<g, p>>)
        PROVE  Answer' = <<k, EntryOf(k)>>
    <3>1. EntryOf(k) = table'[g][p].entry /\ <<g, p>> # NULL
      BY <1>1, <2>1, FoundEntry DEF memory
    <3>2. ret'.op = "search" /\ ret'.key = k /\ ret'.pointer = <<g, p>>
      BY <2>1 DEF Result
    <3>3. QED
      BY <3>1, <3>2 DEF Answer
  <2>2. CASE Misses(k) /\ ret' = Result("search", k, FALSE, HASH_OK, NULL)
    BY <1>1, <2>2, MissedEntry DEF Answer, Result
  <2>3. QED
    BY <2>1, <2>2 DEF Search
<1>4. QED
  BY <1>2, <1>3 DEF Dictionary!Search

LEMMA InsertSimulates ==
  ASSUME TableInv, NEW k \in Keys, NEW e \in Entries,
         InsertExisting(k, e) \/ InsertNew("insert", k, e)
  PROVE  Dictionary!Insert(k, e)
<1>1. CASE InsertExisting(k, e)
  <2>1. \A l \in Keys : EntryOf(l)' = EntryOf(l)
    BY <1>1, QuietContents, SameContents DEF InsertExisting, memory
  <2>2. EntryOf(k) # NULL
    BY <1>1, FoundEntry DEF InsertExisting
  <2>3. Answer' = <<k, TRUE>>
    <3>1. ret'.op = "insert" /\ ret'.key = k /\ ret'.hit = TRUE
      BY <1>1 DEF InsertExisting, Result
    <3>2. QED
      BY <3>1 DEF Answer
  <2>4. QED
    BY <2>1, <2>2, <2>3 DEF Dictionary!Insert
<1>2. CASE InsertNew("insert", k, e)
  <2>1. pc = "ready" /\ EntryOf(k) = NULL
    BY <1>2, MissedEntry DEF InsertNew
  <2>2. \A l \in Keys : EntryOf(l)' = IF l = k THEN e ELSE EntryOf(l)
    BY <1>2, <2>1, InsertContents, WritePair
  <2>3. Answer' = <<k, FALSE>>
    BY <1>2 DEF InsertNew, Answer, Result
  <2>4. QED
    BY <2>1, <2>2, <2>3 DEF Dictionary!Insert
<1>3. QED
  BY <1>1, <1>2

LEMMA EmplaceSimulates ==
  ASSUME TableInv, NEW k \in Keys, NEW e \in Entries,
         EmplaceExisting(k, e) \/ InsertNew("emplace", k, e)
  PROVE  Dictionary!Emplace(k, e)
<1>1. pc = "ready" /\ Answer' = NULL
  BY DEF EmplaceExisting, InsertNew, Answer, Result
<1>2. Contents' = {q \in Contents : q.key # k} \cup {[key |-> k, entry |-> e]}
  BY <1>1, EmplaceContents, InsertContents
<1>3. \A l \in Keys : EntryOf(l)' = IF l = k THEN e ELSE EntryOf(l)
  BY <1>2, WritePair
<1>4. QED
  BY <1>1, <1>3 DEF Dictionary!Emplace

LEMMA DeleteSimulates ==
  ASSUME TableInv, NEW k \in Keys, DeleteExisting(k) \/ DeleteMissing(k)
  PROVE  Dictionary!Delete(k)
<1>1. pc = "ready" /\ Answer' = NULL
  BY DEF DeleteExisting, DeleteMissing, Answer, Result
<1>2. \A l \in Keys : EntryOf(l)' = IF l = k THEN NULL ELSE EntryOf(l)
  <2>1. CASE DeleteExisting(k)
    BY <1>1, <2>1, DeleteContents, DropPair
  <2>2. CASE DeleteMissing(k)
    <3>1. EntryOf(k) = NULL
      BY <1>1, <2>2, MissedEntry DEF DeleteMissing
    <3>2. \A l \in Keys : EntryOf(l)' = EntryOf(l)
      BY <2>2, QuietContents, SameContents DEF DeleteMissing, memory
    <3>3. QED
      BY <3>1, <3>2
  <2>3. QED
    BY <2>1, <2>2
<1>3. QED
  BY <1>1, <1>2 DEF Dictionary!Delete

LEMMA CallSimulates ==
  ASSUME TableInv, Call
  PROVE  Dictionary!Next \/ UNCHANGED Dictionary!vars
<1>1. CASE WrongArgument
  <2>1. \A k \in Keys : EntryOf(k)' = EntryOf(k)
    BY <1>1, QuietContents, SameContents DEF WrongArgument, memory
  <2>2. Answer' = NULL
    BY <1>1 DEF WrongArgument, Answer, Result
  <2>3. Dictionary!Other
    BY <2>1, <2>2 DEF Dictionary!Other
  <2>4. QED
    BY <2>3 DEF Dictionary!Next
<1>2. ASSUME NEW k \in Keys, Search(k) \/ DeleteExisting(k) \/ DeleteMissing(k)
      PROVE  Dictionary!Next
  BY <1>2, SearchSimulates, DeleteSimulates DEF Dictionary!Next
<1>3. ASSUME NEW k \in Keys, NEW e \in Entries,
             \/ InsertExisting(k, e)
             \/ EmplaceExisting(k, e)
             \/ \E op \in {"insert", "emplace"} : InsertNew(op, k, e)
      PROVE  Dictionary!Next
  <2>1. Dictionary!Insert(k, e) \/ Dictionary!Emplace(k, e)
    BY <1>3, InsertSimulates, EmplaceSimulates
  <2>2. QED
    BY <2>1 DEF Dictionary!Next
<1>4. ASSUME NEW k \in Keys, Hang(k)
      PROVE  UNCHANGED Dictionary!vars
  <2>1. \A l \in Keys : EntryOf(l)' = EntryOf(l)
    BY <1>4, QuietContents, SameContents DEF Hang, memory
  <2>2. Answer' = Answer
    BY <1>4 DEF Hang, memory, Answer
  <2>3. QED
    BY <2>1, <2>2 DEF Dictionary!vars
<1>5. QED
  BY <1>1, <1>2, <1>3, <1>4 DEF Call

LEMMA QuietSimulates ==
  ASSUME IndInv, ResizerInv, ResizeStep \/ UNCHANGED vars
  PROVE  UNCHANGED Dictionary!vars
<1>1. \A k \in Keys : EntryOf(k)' = EntryOf(k)
  BY ResizeContents, QuietContents, SameContents DEF IndInv, vars, memory
<1>2. Answer' = Answer
  <2>1. CASE ResizeStep
    <3>1. /\ pc \in {"grow", "shrink", "rehash"}
          /\ ret'.op = ret.op /\ ret'.key = ret.key /\ ret'.hit = ret.hit
      BY <2>1 DEF ResizeStep, ResizeFails, StartRehash, MovePair, EndRehash, IndInv, TypeOK, RetType
    <3>2. ret.op # "search"
      BY <3>1 DEF ResizerInv
    <3>3. QED
      BY <3>1, <3>2 DEF Answer
  <2>2. CASE UNCHANGED vars
    BY <2>2 DEF vars, memory, Answer
  <2>3. QED
    BY <2>1, <2>2
<1>3. QED
  BY <1>1, <1>2 DEF Dictionary!vars

(***************************************************************************)
(* The flat table answers as a dictionary does, whatever its probes meet,  *)
(* its resizes move and its allocations fail to get.                       *)
(***************************************************************************)
THEOREM FlatIsDictionary == Spec => ImplementsHashMap
<1>1. Init => Dictionary!Init /\ ResizerInv
  BY InitSimulates DEF Init, ResizerInv
<1>2. IndInv /\ ResizerInv /\ [Next]_vars => ResizerInv'
  BY NextKeepsResizer DEF IndInv, TypeOK
<1>3. IndInv /\ ResizerInv /\ [Next]_vars => [Dictionary!Next]_(Dictionary!vars)
  BY LifetimeSimulates, CallSimulates, QuietSimulates DEF Next, Spin, IndInv
<1>4. QED
  BY <1>1, <1>2, <1>3, Soundness, PTL DEF Spec, ImplementsHashMap, Dictionary!Spec

=============================================================================
