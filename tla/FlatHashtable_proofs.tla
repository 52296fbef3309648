------------------------ MODULE FlatHashtable_proofs ------------------------
(***************************************************************************)
(* Theorems about the flat table, for all keys, hashes, group sizes and    *)
(* table sizes.                                                            *)
(***************************************************************************)
EXTENDS FlatHashtable, Words_proofs

(***************************************************************************)
(* ht_flat_create and ht_node_create make a power of two of groups, and    *)
(* two at least.                                                           *)
(***************************************************************************)
LEMMA InitialGroupsArePower ==
  ASSUME NEW hint \in Nat
  PROVE  InitialGroups(hint) \in Nat \ {0, 1} /\ IsPowerOfTwo(InitialGroups(hint))
<1>1. GROUP_SIZE \in Nat \ {0} /\ IsPowerOfTwo(GROUP_SIZE)
  BY CommonAssumption
<1>2. CASE hint > 2 * GROUP_SIZE
  <2> DEFINE m == NextPowerOfTwo(hint)
  <2>1. hint \in Nat \ {0}
    BY <1>1, <1>2
  <2>2. m \in Nat /\ m >= hint /\ IsPowerOfTwo(m)
    BY <2>1, NextPowerIsLeast
  <2> HIDE DEF m
  <2>3. PICK q \in Nat \ {0} : m = GROUP_SIZE * q /\ IsPowerOfTwo(q)
    BY <1>1, <1>2, <2>2, PowerDivides
  <2>4. m \div GROUP_SIZE = q
    BY <1>1, <2>3
  <2>5. q > 2
    BY <1>1, <1>2, <2>2, <2>3
  <2>6. InitialGroups(hint) = q
    BY <1>2, <2>4 DEF InitialGroups, m
  <2>7. QED
    BY <2>3, <2>5, <2>6
<1>3. CASE ~(hint > 2 * GROUP_SIZE)
  <2>1. IsPowerOfTwo(2 * 1)
    BY OneIsPower, DoublePower
  <2>2. QED
    BY <1>3, <2>1 DEF InitialGroups
<1>4. QED
  BY <1>2, <1>3

-----------------------------------------------------------------------------
(***************************************************************************)
(* Hashes, control bytes and probes.                                       *)
(***************************************************************************)
LEMMA HashParts ==
  ASSUME NEW k \in Keys
  PROVE  H1(k) \in Nat /\ H2(k) \in Tags
BY CommonAssumption DEF H1, H2, Tags

LEMMA ProbeInTable ==
  ASSUME NEW n \in Nat \ {0}, NEW k \in Keys, NEW j \in Nat
  PROVE  ProbeGroup(k, j, n) \in 0 .. (n - 1)
<1>1. H1(k) + j \in Int /\ H1(k) + (j * (j + 1)) \div 2 \in Int
  BY HashParts
<1>2. \A x \in Int : x % n \in 0 .. (n - 1)
  OBVIOUS
<1>3. QED
  BY <1>1, <1>2 DEF ProbeGroup

(***************************************************************************)
(* After as many turns as there are groups a probe has seen all of them:   *)
(* no two turns lead to the same group.                                    *)
(***************************************************************************)
LEMMA ProbesReachEveryGroup ==
  ASSUME NEW n \in Nat, IsPowerOfTwo(n), NEW k \in Keys, NEW g \in 0 .. (n - 1)
  PROVE  \E j \in 0 .. (n - 1) : ProbeGroup(k, j, n) = g
<1> DEFINE Turns == 0 .. (n - 1)
<1> DEFINE visit == [j \in Turns |-> ProbeGroup(k, j, n)]
<1>1. n \in Nat \ {0} /\ H1(k) \in Nat
  BY HashParts DEF IsPowerOfTwo
<1>2. visit \in [Turns -> Turns]
  BY <1>1, ProbeInTable
<1>3. ASSUME NEW i \in Turns, NEW j \in Turns, i < j
      PROVE  visit[i] # visit[j]
  <2>1. CASE SPARSE_LIN_PROBE
    BY <1>1, <1>3, <2>1, LinearDistinct DEF ProbeGroup
  <2>2. CASE ~SPARSE_LIN_PROBE
    BY <1>1, <1>3, <2>2, TriangularDistinct DEF ProbeGroup
  <2>3. QED
    BY <2>1, <2>2
<1>4. visit \in Injection(Turns, Turns)
  <2>1. ASSUME NEW i \in Turns, NEW j \in Turns, visit[i] = visit[j]
        PROVE  i = j
    <3>1. ~(i < j) /\ ~(j < i)
      <4> HIDE DEF visit
      <4>1. QED
        BY <1>3, <2>1
    <3>2. QED
      BY <3>1
  <2> HIDE DEF visit
  <2>2. QED
    BY <1>2, <2>1 DEF Injection, IsInjective
<1>5. visit \in Surjection(Turns, Turns)
  <2>1. IsFiniteSet(Turns)
    BY FS_Interval
  <2>2. QED
    BY <1>4, <2>1, FS_Injection
<1>6. PICK j \in Turns : visit[j] = g
  <2> HIDE DEF visit
  <2>1. QED
    BY <1>5 DEF Surjection
<1>7. QED
  BY <1>6

(* A slot is in use when its byte is a tag. *)
LEMMA UsedIsTagged ==
  ASSUME MemoryOK, NEW g \in Groups, NEW p \in Positions
  PROVE  /\ <<g, p>> \in UsedSlots <=> bitmap[g][p] \in Tags
         /\ p \in AndMask(bitmap[g]) <=> bitmap[g][p] \notin Tags
<1>1. bitmap[g][p] \in Ctrl
  BY DEF MemoryOK
<1>2. bitmap[g][p] \in Tags <=> ~(bitmap[g][p] >= HIGH_BIT_MASK)
  BY <1>1 DEF Ctrl, Tags, ENTRY_DELETED, ENTRY_EMPTY, HIGH_BIT_MASK
<1>3. QED
  BY <1>2 DEF UsedSlots, ValidMask, AndMask

(* A key whose slot is reachable stays so as long as no group gets its first empty slot. *)
LEMMA ReachableStays ==
  ASSUME group_num \in Nat \ {0}, group_num' = group_num,
         \A h \in Groups : HasEmpty(bitmap'[h]) => HasEmpty(bitmap[h]),
         NEW k \in Keys, NEW g \in Groups, Reachable(k, g)
  PROVE  Reachable(k, g)'
<1>1. PICK j \in Groups :
        /\ ProbeGroup(k, j, group_num) = g
        /\ \A i \in 0 .. (j - 1) :
             /\ ProbeGroup(k, i, group_num) # g
             /\ ~HasEmpty(bitmap[ProbeGroup(k, i, group_num)])
  BY DEF Reachable
<1>2. \A i \in 0 .. (j - 1) : ProbeGroup(k, i, group_num) \in Groups
  <2>1. \A i \in 0 .. (j - 1) : i \in Nat
    BY DEF Groups
  <2>2. QED
    BY <2>1, ProbeInTable DEF Groups
<1>3. \A i \in 0 .. (j - 1) : ~HasEmpty(bitmap'[ProbeGroup(k, i, group_num)])
  BY <1>1, <1>2
<1>4. j \in Groups'
  BY DEF Groups
<1>5. QED
  BY <1>1, <1>3, <1>4 DEF Reachable

(***************************************************************************)
(* What a store and a deletion do to the slots.                            *)
(***************************************************************************)
LEMMA PutChangesOneSlot ==
  ASSUME MemoryOK, group_num' = group_num,
         NEW g \in Groups, NEW p \in Positions, NEW pair \in Pairs,
         p \in AndMask(bitmap[g]), Put(pair, g, p)
  PROVE  /\ bitmap' \in [Groups -> [Positions -> Ctrl]]
         /\ table' \in [Groups -> [Positions -> Pairs \cup {JUNK}]]
         /\ <<g, p>> \notin UsedSlots
         /\ UsedSlots' = UsedSlots \cup {<<g, p>>}
         /\ table'[g][p] = pair /\ bitmap'[g][p] = H2(pair.key)
         /\ \A s \in UsedSlots : /\ table'[s[1]][s[2]] = table[s[1]][s[2]]
                                 /\ bitmap'[s[1]][s[2]] = bitmap[s[1]][s[2]]
         /\ \A h \in Groups : HasEmpty(bitmap'[h]) => HasEmpty(bitmap[h])
<1>1. H2(pair.key) \in Tags
  BY HashParts DEF Pairs
<1>2. H2(pair.key) \in Ctrl /\ H2(pair.key) # ENTRY_EMPTY
  BY <1>1 DEF Ctrl, Tags, ENTRY_EMPTY
<1>3. bitmap' = [bitmap EXCEPT ![g][p] = H2(pair.key)] /\ table' = [table EXCEPT ![g][p] = pair]
  BY DEF Put
<1>4. /\ bitmap' \in [Groups -> [Positions -> Ctrl]]
      /\ table' \in [Groups -> [Positions -> Pairs \cup {JUNK}]]
  BY <1>2, <1>3 DEF MemoryOK
<1>5. <<g, p>> \notin UsedSlots
  BY UsedIsTagged
<1>6. table'[g][p] = pair /\ bitmap'[g][p] = H2(pair.key)
  BY <1>3 DEF MemoryOK
<1>7. \A h \in Groups, q \in Positions :
        <<h, q>> # <<g, p>> => /\ table'[h][q] = table[h][q]
                               /\ bitmap'[h][q] = bitmap[h][q]
  BY <1>3 DEF MemoryOK
<1>8. UsedSlots' = UsedSlots \cup {<<g, p>>}
  <2>1. Groups' = Groups
    BY DEF Groups
  <2>2. \A h \in Groups, q \in Positions :
          q \in ValidMask(bitmap'[h]) <=> q \in ValidMask(bitmap[h]) \/ <<h, q>> = <<g, p>>
    BY <1>1, <1>6, <1>7 DEF ValidMask, AndMask, Tags, HIGH_BIT_MASK
  <2>3. \A s \in Groups \X Positions :
          s[2] \in ValidMask(bitmap'[s[1]]) <=> s[2] \in ValidMask(bitmap[s[1]]) \/ s = <<g, p>>
    BY <2>2
  <2>4. <<g, p>> \in Groups \X Positions
    OBVIOUS
  <2>5. UsedSlots' = {s \in Groups \X Positions : s[2] \in ValidMask(bitmap'[s[1]])}
    BY <2>1 DEF UsedSlots
  <2>6. QED
    BY <2>3, <2>4, <2>5 DEF UsedSlots
<1>9. \A s \in UsedSlots : /\ table'[s[1]][s[2]] = table[s[1]][s[2]]
                           /\ bitmap'[s[1]][s[2]] = bitmap[s[1]][s[2]]
  BY <1>5, <1>7 DEF UsedSlots
<1>10. \A h \in Groups : HasEmpty(bitmap'[h]) => HasEmpty(bitmap[h])
  BY <1>2, <1>6, <1>7 DEF HasEmpty, EqMask
<1>11. QED
  BY <1>4, <1>5, <1>6, <1>8, <1>9, <1>10

LEMMA DeleteChangesOneSlot ==
  ASSUME MemoryOK, group_num' = group_num,
         NEW g \in Groups, NEW p \in Positions, <<g, p>> \in UsedSlots,
         bitmap' = [bitmap EXCEPT ![g][p] = Tombstone(g)]
  PROVE  /\ bitmap' \in [Groups -> [Positions -> Ctrl]]
         /\ UsedSlots' = UsedSlots \ {<<g, p>>}
         /\ \A s \in UsedSlots' : bitmap'[s[1]][s[2]] = bitmap[s[1]][s[2]]
         /\ \A h \in Groups : HasEmpty(bitmap'[h]) => HasEmpty(bitmap[h])
<1>1. Tombstone(g) \in Ctrl /\ Tombstone(g) >= HIGH_BIT_MASK
  BY DEF Tombstone, Ctrl, ENTRY_EMPTY, ENTRY_DELETED, HIGH_BIT_MASK
<1>2. bitmap' \in [Groups -> [Positions -> Ctrl]]
  BY <1>1 DEF MemoryOK
<1>3. bitmap'[g][p] = Tombstone(g)
  BY DEF MemoryOK
<1>4. \A h \in Groups, q \in Positions :
        <<h, q>> # <<g, p>> => bitmap'[h][q] = bitmap[h][q]
  BY DEF MemoryOK
<1>5. UsedSlots' = UsedSlots \ {<<g, p>>}
  <2>1. Groups' = Groups
    BY DEF Groups
  <2>2. \A h \in Groups, q \in Positions :
          q \in ValidMask(bitmap'[h]) <=> q \in ValidMask(bitmap[h]) /\ <<h, q>> # <<g, p>>
    BY <1>1, <1>3, <1>4 DEF ValidMask, AndMask
  <2>3. \A s \in Groups \X Positions :
          s[2] \in ValidMask(bitmap'[s[1]]) <=> s[2] \in ValidMask(bitmap[s[1]]) /\ s # <<g, p>>
    BY <2>2
  <2>4. UsedSlots' = {s \in Groups \X Positions : s[2] \in ValidMask(bitmap'[s[1]])}
    BY <2>1 DEF UsedSlots
  <2>5. QED
    BY <2>3, <2>4 DEF UsedSlots
<1>6. \A s \in UsedSlots' : bitmap'[s[1]][s[2]] = bitmap[s[1]][s[2]]
  BY <1>4, <1>5 DEF UsedSlots
<1>7. \A h \in Groups : HasEmpty(bitmap'[h]) => HasEmpty(bitmap[h])
  <2>1. Tombstone(g) = ENTRY_EMPTY => HasEmpty(bitmap[g])
    BY DEF Tombstone, ENTRY_EMPTY, ENTRY_DELETED
  <2>2. QED
    BY <1>3, <1>4, <2>1 DEF HasEmpty, EqMask
<1>8. QED
  BY <1>2, <1>5, <1>6, <1>7

(* There are finitely many slots to count. *)
LEMMA UsedIsFinite ==
  ASSUME group_num \in Nat
  PROVE  IsFiniteSet(UsedSlots)
<1>1. IsFiniteSet(Groups) /\ IsFiniteSet(Positions)
  BY CommonAssumption, FS_Interval DEF Groups, Positions
<1>2. IsFiniteSet(Groups \X Positions)
  BY <1>1, FS_Product
<1>3. QED
  BY <1>2, FS_Subset DEF UsedSlots

(***************************************************************************)
(* A table that was just allocated has no slot in use.                     *)
(***************************************************************************)
LEMMA EmptyTable ==
  ASSUME group_num' \in Nat, bitmap' = EmptyBitmap(group_num'), table' = JunkTable(group_num')
  PROVE  /\ bitmap' \in [Groups' -> [Positions -> Ctrl]]
         /\ table' \in [Groups' -> [Positions -> Pairs \cup {JUNK}]]
         /\ UsedSlots' = {}
<1>1. /\ bitmap' \in [Groups' -> [Positions -> Ctrl]]
      /\ table' \in [Groups' -> [Positions -> Pairs \cup {JUNK}]]
  BY DEF EmptyBitmap, JunkTable, Groups, Ctrl
<1>2. \A g \in Groups' : ValidMask(bitmap'[g]) = {}
  BY DEF EmptyBitmap, Groups, ValidMask, AndMask, ENTRY_EMPTY, HIGH_BIT_MASK
<1>3. QED
  BY <1>1, <1>2 DEF UsedSlots

(***************************************************************************)
(* A key that no slot in use holds is put where its probe finds it.        *)
(***************************************************************************)
LEMMA PutKeepsSound ==
  ASSUME TableInv, group_num' = group_num, group_num > 0,
         NEW g \in Groups, NEW p \in Positions, NEW pair \in Pairs,
         FreeAt(pair.key, g, p), Put(pair, g, p),
         \A s \in UsedSlots : table[s[1]][s[2]].key # pair.key,
         old_table' = old_table, left' \subseteq left,
         \A s \in left' : old_table[s[1]][s[2]].key # pair.key
  PROVE  /\ bitmap' \in [Groups' -> [Positions -> Ctrl]]
         /\ table' \in [Groups' -> [Positions -> Pairs \cup {JUNK}]]
         /\ entries' \in Int
         /\ SlotsAreSound' /\ KeysStoredOnce' /\ EntriesCounted'
<1>1. MemoryOK /\ group_num \in Nat \ {0} /\ Groups' = Groups /\ pair.key \in Keys
  BY DEF TableInv, MemoryOK, Groups, Pairs
<1>2. p \in AndMask(bitmap[g])
  BY DEF FreeAt, IsFirstSetBit
<1>3. /\ bitmap' \in [Groups -> [Positions -> Ctrl]]
      /\ table' \in [Groups -> [Positions -> Pairs \cup {JUNK}]]
      /\ <<g, p>> \notin UsedSlots
      /\ UsedSlots' = UsedSlots \cup {<<g, p>>}
      /\ table'[g][p] = pair /\ bitmap'[g][p] = H2(pair.key)
      /\ \A s \in UsedSlots : /\ table'[s[1]][s[2]] = table[s[1]][s[2]]
                              /\ bitmap'[s[1]][s[2]] = bitmap[s[1]][s[2]]
      /\ \A h \in Groups : HasEmpty(bitmap'[h]) => HasEmpty(bitmap[h])
  BY <1>1, <1>2, PutChangesOneSlot
<1>4. Reachable(pair.key, g)'
  <2>1. PICK j \in Groups :
          /\ ProbeGroup(pair.key, j, group_num) = g
          /\ \A i \in 0 .. (j - 1) : AndMask(bitmap[ProbeGroup(pair.key, i, group_num)]) = {}
    BY DEF FreeAt
  <2>2. ASSUME NEW i \in 0 .. (j - 1)
        PROVE  /\ ProbeGroup(pair.key, i, group_num) # g
               /\ ~HasEmpty(bitmap'[ProbeGroup(pair.key, i, group_num)])
    <3>1. ProbeGroup(pair.key, i, group_num) # g
      BY <1>2, <2>1
    <3>2. ProbeGroup(pair.key, i, group_num) \in Groups
      <4>1. i \in Nat
        BY DEF Groups
      <4>2. QED
        BY <4>1, <1>1, ProbeInTable DEF Groups
    <3>3. ~HasEmpty(bitmap[ProbeGroup(pair.key, i, group_num)])
      BY <2>1 DEF HasEmpty, EqMask, AndMask, ENTRY_EMPTY, HIGH_BIT_MASK
    <3>4. QED
      BY <1>3, <3>1, <3>2, <3>3
  <2>3. QED
    BY <1>1, <2>1, <2>2 DEF Reachable
<1>5. SlotsAreSound'
  <2>1. SUFFICES ASSUME NEW s \in UsedSlots'
                 PROVE  SlotIsSound(s[1], s[2])'
    BY DEF SlotsAreSound
  <2>2. CASE s = <<g, p>>
    BY <1>3, <1>4, <2>2 DEF SlotIsSound
  <2>3. CASE s # <<g, p>>
    <3>1. s \in UsedSlots /\ SlotIsSound(s[1], s[2])
      BY <1>3, <2>3 DEF TableInv, SlotsAreSound
    <3>2. s[1] \in Groups /\ table[s[1]][s[2]].key \in Keys
      BY <3>1 DEF UsedSlots, SlotIsSound, Pairs
    <3>3. Reachable(table[s[1]][s[2]].key, s[1])'
      BY <1>1, <1>3, <3>1, <3>2, ReachableStays DEF SlotIsSound
    <3>4. QED
      BY <1>3, <3>1, <3>3 DEF SlotIsSound
  <2>4. QED
    BY <2>2, <2>3
<1>6. KeysStoredOnce'
  <2>1. ASSUME NEW s \in UsedSlots', NEW t \in UsedSlots',
               table'[s[1]][s[2]].key = table'[t[1]][t[2]].key
        PROVE  s = t
    <3>1. \A u \in UsedSlots : table'[u[1]][u[2]].key # pair.key
      BY <1>3
    <3>2. s = <<g, p>> <=> table'[s[1]][s[2]].key = pair.key
      BY <1>3, <3>1
    <3>3. t = <<g, p>> <=> table'[t[1]][t[2]].key = pair.key
      BY <1>3, <3>1
    <3>4. CASE s # <<g, p>>
      <4>1. s \in UsedSlots /\ t \in UsedSlots
        BY <1>3, <2>1, <3>2, <3>3, <3>4
      <4>2. table[s[1]][s[2]].key = table[t[1]][t[2]].key
        BY <1>3, <2>1, <4>1
      <4>3. QED
        BY <4>1, <4>2 DEF TableInv, KeysStoredOnce
    <3>5. QED
      BY <2>1, <3>2, <3>3, <3>4
  <2>2. ASSUME NEW s \in left', NEW t \in left',
               old_table'[s[1]][s[2]].key = old_table'[t[1]][t[2]].key
        PROVE  s = t
    BY <2>2 DEF TableInv, KeysStoredOnce
  <2>3. ASSUME NEW s \in UsedSlots', NEW t \in left'
        PROVE  table'[s[1]][s[2]].key # old_table'[t[1]][t[2]].key
    BY <1>3, <2>3 DEF TableInv, KeysStoredOnce
  <2>4. QED
    BY <2>1, <2>2, <2>3 DEF KeysStoredOnce
<1>7. EntriesCounted' /\ entries' \in Int
  <2>1. Cardinality(UsedSlots') = Cardinality(UsedSlots) + 1
    BY <1>1, <1>3, UsedIsFinite, FS_AddElement
  <2>2. QED
    BY <2>1, <1>1 DEF TableInv, EntriesCounted, Put, MemoryOK
<1>8. QED
  BY <1>1, <1>3, <1>5, <1>6, <1>7

(* A deletion cuts no probe off. *)
LEMMA DeleteKeepsSound ==
  ASSUME TableInv, group_num' = group_num, group_num > 0,
         NEW g \in Groups, NEW p \in Positions, <<g, p>> \in UsedSlots,
         bitmap' = [bitmap EXCEPT ![g][p] = Tombstone(g)],
         entries' = entries - 1, table' = table, old_table' = old_table, left' = left
  PROVE  /\ bitmap' \in [Groups' -> [Positions -> Ctrl]]
         /\ entries' \in Int
         /\ SlotsAreSound' /\ KeysStoredOnce' /\ EntriesCounted'
<1>1. MemoryOK /\ group_num \in Nat \ {0} /\ Groups' = Groups
  BY DEF TableInv, MemoryOK, Groups
<1>2. /\ bitmap' \in [Groups -> [Positions -> Ctrl]]
      /\ UsedSlots' = UsedSlots \ {<<g, p>>}
      /\ \A s \in UsedSlots' : bitmap'[s[1]][s[2]] = bitmap[s[1]][s[2]]
      /\ \A h \in Groups : HasEmpty(bitmap'[h]) => HasEmpty(bitmap[h])
  BY <1>1, DeleteChangesOneSlot
<1>3. SlotsAreSound'
  <2>1. SUFFICES ASSUME NEW s \in UsedSlots'
                 PROVE  SlotIsSound(s[1], s[2])'
    BY DEF SlotsAreSound
  <2>2. s \in UsedSlots /\ SlotIsSound(s[1], s[2])
    BY <1>2 DEF TableInv, SlotsAreSound
  <2>3. s[1] \in Groups /\ table[s[1]][s[2]].key \in Keys
    BY <2>2 DEF UsedSlots, SlotIsSound, Pairs
  <2>4. Reachable(table[s[1]][s[2]].key, s[1])'
    BY <1>1, <1>2, <2>2, <2>3, ReachableStays DEF SlotIsSound
  <2>5. QED
    BY <1>2, <2>2, <2>4 DEF SlotIsSound
<1>4. KeysStoredOnce'
  BY <1>2 DEF TableInv, KeysStoredOnce
<1>5. EntriesCounted' /\ entries' \in Int
  <2>1. Cardinality(UsedSlots') = Cardinality(UsedSlots) - 1
    BY <1>1, <1>2, UsedIsFinite, FS_RemoveElement
  <2>2. QED
    BY <2>1, <1>1 DEF TableInv, EntriesCounted, MemoryOK
<1>6. QED
  BY <1>1, <1>2, <1>3, <1>4, <1>5

(* An emplace changes an entry and no key. *)
LEMMA EmplaceKeepsSound ==
  ASSUME TableInv, group_num > 0,
         NEW g \in Groups, NEW p \in Positions, <<g, p>> \in UsedSlots, NEW e \in Entries,
         table' = [table EXCEPT ![g][p].entry = e],
         UNCHANGED <<group_num, bitmap, entries, old_table, left>>
  PROVE  /\ table' \in [Groups' -> [Positions -> Pairs \cup {JUNK}]]
         /\ SlotsAreSound' /\ KeysStoredOnce' /\ EntriesCounted'
<1>1. Groups' = Groups /\ UsedSlots' = UsedSlots
  BY DEF Groups, UsedSlots
<1>2. MemoryOK /\ table[g][p] \in Pairs
  BY DEF TableInv, SlotsAreSound, SlotIsSound
<1>3. [table[g][p] EXCEPT !.entry = e] \in Pairs
  BY <1>2 DEF Pairs
<1>4. table' = [table EXCEPT ![g] = [table[g] EXCEPT ![p] = [table[g][p] EXCEPT !.entry = e]]]
  OBVIOUS
<1>5. table' \in [Groups -> [Positions -> Pairs \cup {JUNK}]]
  BY <1>2, <1>3, <1>4 DEF MemoryOK
<1>6. \A h \in Groups, q \in Positions :
        table'[h][q] = IF h = g /\ q = p THEN [table[g][p] EXCEPT !.entry = e] ELSE table[h][q]
  BY <1>2, <1>4 DEF MemoryOK
<1>7. [table[g][p] EXCEPT !.entry = e].key = table[g][p].key
  BY <1>2 DEF Pairs
<1>8. \A s \in UsedSlots : /\ table'[s[1]][s[2]] \in Pairs
                           /\ table'[s[1]][s[2]].key = table[s[1]][s[2]].key
  BY <1>3, <1>6, <1>7 DEF UsedSlots, TableInv, SlotsAreSound, SlotIsSound
<1>9. SlotsAreSound'
  <2>1. SUFFICES ASSUME NEW s \in UsedSlots
                 PROVE  SlotIsSound(s[1], s[2])'
    BY <1>1 DEF SlotsAreSound
  <2>2. SlotIsSound(s[1], s[2])
    BY DEF TableInv, SlotsAreSound
  <2>3. Reachable(table[s[1]][s[2]].key, s[1])'
    BY <1>1, <1>8, <2>2 DEF SlotIsSound, Reachable
  <2>4. QED
    BY <1>8, <2>2, <2>3 DEF SlotIsSound
<1>10. KeysStoredOnce'
  BY <1>1, <1>8 DEF TableInv, KeysStoredOnce
<1>11. EntriesCounted'
  BY <1>1 DEF TableInv, EntriesCounted
<1>12. QED
  BY <1>1, <1>5, <1>9, <1>10, <1>11

-----------------------------------------------------------------------------
(***************************************************************************)
(* Lookups.                                                                *)
(***************************************************************************)
LEMMA MatchIsUsed ==
  ASSUME MemoryOK, NEW k \in Keys, NEW g \in Groups, NEW p \in Matches(k, g)
  PROVE  p \in Positions /\ <<g, p>> \in UsedSlots /\ table[g][p].key = k
<1>1. p \in Positions /\ bitmap[g][p] = H2(k) /\ table[g][p].key = k
  BY DEF Matches, EqMask
<1>2. QED
  BY <1>1, HashParts, UsedIsTagged

LEMMA FoundIsUsed ==
  ASSUME MemoryOK, NEW k \in Keys, NEW g \in Groups, NEW p \in Positions, FindsAt(k, g, p)
  PROVE  <<g, p>> \in UsedSlots /\ table[g][p].key = k
BY MatchIsUsed DEF FindsAt, IsFirstSetBit

LEMMA StoredMatches ==
  ASSUME TableInv, NEW s \in UsedSlots
  PROVE  s[2] \in Matches(table[s[1]][s[2]].key, s[1])
BY DEF TableInv, SlotsAreSound, SlotIsSound, UsedSlots, Matches, EqMask

(***************************************************************************)
(* A search that gives up at a group with an empty slot is right.          *)
(***************************************************************************)
LEMMA MissedIsAbsent ==
  ASSUME TableInv, NEW k \in Keys, Misses(k), NEW s \in UsedSlots
  PROVE  table[s[1]][s[2]].key # k
<1>1. SUFFICES ASSUME table[s[1]][s[2]].key = k
               PROVE  FALSE
  OBVIOUS
<1>2. PICK m \in Groups :
        /\ \A i \in 0 .. (m - 1) : PassesBy(k, ProbeGroup(k, i, group_num))
        /\ Matches(k, ProbeGroup(k, m, group_num)) = {}
        /\ HasEmpty(bitmap[ProbeGroup(k, m, group_num)])
  BY DEF Misses
<1>3. PICK j \in Groups :
        /\ ProbeGroup(k, j, group_num) = s[1]
        /\ \A i \in 0 .. (j - 1) : ~HasEmpty(bitmap[ProbeGroup(k, i, group_num)])
  BY <1>1 DEF TableInv, SlotsAreSound, SlotIsSound, Reachable
<1>4. Matches(k, s[1]) # {}
  BY <1>1, StoredMatches
<1>5. CASE j < m
  BY <1>2, <1>3, <1>4, <1>5 DEF PassesBy, Groups
<1>6. CASE j = m
  BY <1>2, <1>3, <1>4, <1>6
<1>7. CASE j > m
  BY <1>2, <1>3, <1>7 DEF Groups
<1>8. QED
  BY <1>5, <1>6, <1>7 DEF Groups

(***************************************************************************)
(* The search for a stored key stops at its slot.                          *)
(***************************************************************************)
LEMMA StoredIsFound ==
  ASSUME TableInv
  PROVE  StoredKeyIsFound
<1>1. SUFFICES ASSUME NEW s \in UsedSlots
               PROVE  FindsAt(table[s[1]][s[2]].key, s[1], s[2])
  BY DEF StoredKeyIsFound
<1>2. PICK k \in Keys : k = table[s[1]][s[2]].key
  BY DEF TableInv, SlotsAreSound, SlotIsSound, Pairs
<1>3. s \in Groups \X Positions /\ MemoryOK
  BY DEF UsedSlots, TableInv
<1>4. PICK j \in Groups :
        /\ ProbeGroup(k, j, group_num) = s[1]
        /\ \A i \in 0 .. (j - 1) :
             /\ ProbeGroup(k, i, group_num) # s[1]
             /\ ~HasEmpty(bitmap[ProbeGroup(k, i, group_num)])
  BY <1>2 DEF TableInv, SlotsAreSound, SlotIsSound, Reachable
<1>5. ASSUME NEW g \in Groups, NEW p \in Matches(k, g)
      PROVE  <<g, p>> = s
  <2>1. <<g, p>> \in UsedSlots /\ table[g][p].key = k
    BY <1>3, MatchIsUsed
  <2>2. \A t \in UsedSlots : table[t[1]][t[2]].key = table[s[1]][s[2]].key => t = s
    BY DEF TableInv, KeysStoredOnce
  <2>3. QED
    BY <1>2, <2>1, <2>2
<1>6. ASSUME NEW i \in 0 .. (j - 1)
      PROVE  PassesBy(k, ProbeGroup(k, i, group_num))
  <2>1. ProbeGroup(k, i, group_num) \in Groups
    <3>1. group_num \in Nat \ {0} /\ i \in Nat
      BY <1>3 DEF MemoryOK, Groups
    <3>2. QED
      BY <3>1, ProbeInTable DEF Groups
  <2>2. Matches(k, ProbeGroup(k, i, group_num)) = {}
    BY <1>4, <1>5, <2>1
  <2>3. QED
    BY <1>4, <2>2 DEF PassesBy
<1>7. IsFirstSetBit(s[2], Matches(k, s[1]))
  <2>1. s[2] \in Matches(k, s[1])
    BY <1>2, StoredMatches
  <2>2. \A q \in Matches(k, s[1]) : q = s[2]
    BY <1>3, <1>5
  <2>3. QED
    BY <1>3, <2>1, <2>2 DEF IsFirstSetBit, Positions
<1>8. QED
  BY <1>2, <1>4, <1>6, <1>7 DEF FindsAt

-----------------------------------------------------------------------------
(***************************************************************************)
(* The inductive invariant.                                                *)
(***************************************************************************)
LEMMA InitIsSound ==
  ASSUME Init
  PROVE  TableInv
<1>1. Groups = {} /\ UsedSlots = {}
  BY DEF Init, Groups, UsedSlots
<1>2. MemoryOK
  <2>1. bitmap \in [Groups -> [Positions -> Ctrl]]
    BY <1>1 DEF Init, EmptyBitmap
  <2>2. table \in [Groups -> [Positions -> Pairs \cup {JUNK}]]
    BY <1>1 DEF Init, JunkTable
  <2>3. old_table \in [DOMAIN old_table -> [Positions -> Pairs \cup {JUNK}]]
    BY DEF Init, JunkTable
  <2>4. left \in SUBSET ((DOMAIN old_table) \X Positions)
    BY DEF Init
  <2>5. pc \in {"null"} /\ group_num \in Nat /\ entries \in Int
    BY DEF Init
  <2>6. QED
    BY <2>1, <2>2, <2>3, <2>4, <2>5 DEF MemoryOK
<1>3. SizeInv /\ OldTableInv
  BY DEF Init, SizeInv, OldTableInv
<1>4. SlotsAreSound /\ KeysStoredOnce
  BY <1>1 DEF Init, SlotsAreSound, KeysStoredOnce
<1>5. EntriesCounted
  BY <1>1, FS_EmptySet DEF Init, EntriesCounted
<1>6. QED
  BY <1>2, <1>3, <1>4, <1>5 DEF TableInv

(* A step that leaves the tables alone. *)
LEMMA QuietStep ==
  ASSUME TableInv, UNCHANGED memory,
         pc' \in {"null", "ready", "grow", "shrink", "hung"},
         pc # "rehash", pc' = "null" <=> pc = "null", pc' = "shrink" => group_num # 2
  PROVE  TableInv'
<1>1. Groups' = Groups /\ UsedSlots' = UsedSlots
  BY DEF memory, Groups, UsedSlots
<1>2. MemoryOK'
  BY <1>1 DEF TableInv, MemoryOK, memory
<1>3. SizeInv' /\ OldTableInv'
  BY DEF TableInv, SizeInv, OldTableInv, memory
<1>4. SlotsAreSound'
  BY <1>1 DEF TableInv, SlotsAreSound, SlotIsSound, Reachable, memory
<1>5. KeysStoredOnce' /\ EntriesCounted'
  BY <1>1 DEF TableInv, KeysStoredOnce, EntriesCounted, memory
<1>6. QED
  BY <1>2, <1>3, <1>4, <1>5 DEF TableInv

(* A table that was just allocated, by a creation or for a resize. *)
LEMMA FreshTable ==
  ASSUME group_num' \in Nat, bitmap' = EmptyBitmap(group_num'), table' = JunkTable(group_num'),
         entries' = 0,
         \A s, t \in left' : old_table'[s[1]][s[2]].key = old_table'[t[1]][t[2]].key => s = t
  PROVE  /\ bitmap' \in [Groups' -> [Positions -> Ctrl]]
         /\ table' \in [Groups' -> [Positions -> Pairs \cup {JUNK}]]
         /\ SlotsAreSound' /\ KeysStoredOnce' /\ EntriesCounted'
<1>1. /\ bitmap' \in [Groups' -> [Positions -> Ctrl]]
      /\ table' \in [Groups' -> [Positions -> Pairs \cup {JUNK}]]
      /\ UsedSlots' = {}
  BY EmptyTable
<1>2. SlotsAreSound' /\ KeysStoredOnce'
  BY <1>1 DEF SlotsAreSound, KeysStoredOnce
<1>3. EntriesCounted'
  BY <1>1, FS_EmptySet DEF EntriesCounted
<1>4. QED
  BY <1>1, <1>2, <1>3

LEMMA LifetimeStep ==
  ASSUME TableInv, Lifetime
  PROVE  TableInv'
<1>1. ASSUME NEW hint \in Hints, Create(hint)
      PROVE  TableInv'
  <2>1. group_num' \in Nat \ {0, 1} /\ IsPowerOfTwo(group_num')
    BY <1>1, FlatAssumption, InitialGroupsArePower DEF Create
  <2>2. group_num' \in Nat /\ group_num' > 1 /\ left' = {}
    BY <1>1, <2>1 DEF Create, TableInv, OldTableInv
  <2>3. /\ bitmap' \in [Groups' -> [Positions -> Ctrl]]
        /\ table' \in [Groups' -> [Positions -> Pairs \cup {JUNK}]]
        /\ SlotsAreSound' /\ KeysStoredOnce' /\ EntriesCounted'
    BY <1>1, <2>2, FreshTable DEF Create
  <2>4. MemoryOK'
    <3>1. pc' \in {"null", "ready"} /\ entries' \in Int /\ group_num' \in Nat
      BY <1>1, <2>2 DEF Create
    <3>2. /\ old_table' \in [DOMAIN old_table' -> [Positions -> Pairs \cup {JUNK}]]
          /\ left' \in SUBSET ((DOMAIN old_table') \X Positions)
      BY <1>1 DEF Create, TableInv, MemoryOK
    <3>3. QED
      BY <2>2, <2>3, <3>1, <3>2 DEF MemoryOK
  <2>5. SizeInv' /\ OldTableInv'
    BY <1>1, <2>1, <2>2 DEF Create, SizeInv, OldTableInv
  <2>6. QED
    BY <2>3, <2>4, <2>5 DEF TableInv
<1>2. ASSUME NEW hint \in Hints, CreateFails(hint)
      PROVE  TableInv'
  <2>1. pc = "null" /\ UNCHANGED <<pc, memory>>
    BY <1>2 DEF CreateFails, TableInv, SizeInv
  <2>2. QED
    BY <2>1, QuietStep
<1>3. ASSUME Free
      PROVE  TableInv'
  <2>1. group_num' = 0 /\ left' = {}
    BY <1>3 DEF Free, TableInv, OldTableInv
  <2>2. /\ bitmap' \in [Groups' -> [Positions -> Ctrl]]
        /\ table' \in [Groups' -> [Positions -> Pairs \cup {JUNK}]]
        /\ SlotsAreSound' /\ KeysStoredOnce' /\ EntriesCounted'
    BY <1>3, <2>1, FreshTable DEF Free
  <2>3. MemoryOK'
    <3>1. pc' \in {"null", "ready"} /\ entries' \in Int /\ group_num' \in Nat
      BY <1>3, <2>1 DEF Free
    <3>2. /\ old_table' \in [DOMAIN old_table' -> [Positions -> Pairs \cup {JUNK}]]
          /\ left' \in SUBSET ((DOMAIN old_table') \X Positions)
      BY <1>3 DEF Free, TableInv, MemoryOK
    <3>3. QED
      BY <2>1, <2>2, <3>1, <3>2 DEF MemoryOK
  <2>4. SizeInv' /\ OldTableInv'
    BY <1>3, <2>1 DEF Free, SizeInv, OldTableInv
  <2>5. QED
    BY <2>2, <2>3, <2>4 DEF TableInv
<1>4. QED
  BY <1>1, <1>2, <1>3 DEF Lifetime

LEMMA CallStep ==
  ASSUME TableInv, Call
  PROVE  TableInv'
<1>1. MemoryOK /\ OldTableInv /\ SizeInv
  BY DEF TableInv
<1>2. pc = "ready" => group_num > 1 /\ left = {}
  BY <1>1 DEF SizeInv, OldTableInv
<1>3. CASE WrongArgument
  BY <1>3, QuietStep DEF WrongArgument
<1>4. ASSUME NEW k \in Keys, Search(k)
      PROVE  TableInv'
  BY <1>4, QuietStep DEF Search
<1>5. ASSUME NEW k \in Keys, NEW e \in Entries, InsertExisting(k, e)
      PROVE  TableInv'
  BY <1>5, QuietStep DEF InsertExisting, CheckUpper
<1>6. ASSUME NEW k \in Keys, DeleteMissing(k)
      PROVE  TableInv'
  <2>1. pc' = "shrink" => group_num # 2
    BY <1>6 DEF DeleteMissing, CheckLower
  <2>2. QED
    BY <1>6, <2>1, QuietStep DEF DeleteMissing, CheckLower
<1>7. ASSUME NEW k \in Keys, Hang(k)
      PROVE  TableInv'
  BY <1>7, QuietStep DEF Hang
<1>8. ASSUME NEW k \in Keys, NEW e \in Entries, EmplaceExisting(k, e)
      PROVE  TableInv'
  <2>1. PICK g \in Groups, p \in Positions :
          FindsAt(k, g, p) /\ table' = [table EXCEPT ![g][p].entry = e]
    BY <1>8 DEF EmplaceExisting
  <2>2. <<g, p>> \in UsedSlots
    BY <1>1, <2>1, FoundIsUsed
  <2>3. /\ UNCHANGED <<group_num, bitmap, entries, old_table, left>>
        /\ pc = "ready" /\ pc' \in {"ready", "grow"}
    BY <1>8 DEF EmplaceExisting, CheckUpper
  <2>4. /\ table' \in [Groups' -> [Positions -> Pairs \cup {JUNK}]]
        /\ SlotsAreSound' /\ KeysStoredOnce' /\ EntriesCounted'
    <3>1. group_num > 0
      BY <1>1, <1>2, <2>3 DEF MemoryOK
    <3>2. QED
      BY <2>1, <2>2, <2>3, <3>1, EmplaceKeepsSound
  <2>5. MemoryOK'
    BY <1>1, <2>3, <2>4 DEF MemoryOK, Groups
  <2>6. SizeInv' /\ OldTableInv'
    BY <1>1, <2>3 DEF SizeInv, OldTableInv
  <2>7. QED
    BY <2>4, <2>5, <2>6 DEF TableInv
<1>9. ASSUME NEW k \in Keys, NEW e \in Entries, NEW op \in {"insert", "emplace"}, InsertNew(op, k, e)
      PROVE  TableInv'
  <2> DEFINE pair == [key |-> k, entry |-> e]
  <2>1. PICK g \in Groups, p \in Positions : FreeAt(k, g, p) /\ Put(pair, g, p)
    BY <1>9 DEF InsertNew
  <2>2. pair \in Pairs /\ pair.key = k
    BY DEF Pairs
  <2>3. /\ UNCHANGED <<group_num, old_table, left>>
        /\ pc = "ready" /\ pc' \in {"ready", "grow"}
    BY <1>9 DEF InsertNew, CheckUpper
  <2>4. \A s \in UsedSlots : table[s[1]][s[2]].key # k
    BY <1>9, MissedIsAbsent DEF InsertNew
  <2>5. /\ bitmap' \in [Groups' -> [Positions -> Ctrl]]
        /\ table' \in [Groups' -> [Positions -> Pairs \cup {JUNK}]]
        /\ entries' \in Int
        /\ SlotsAreSound' /\ KeysStoredOnce' /\ EntriesCounted'
    <3> HIDE DEF pair
    <3>1. group_num > 0 /\ left' = {}
      BY <1>1, <1>2, <2>3 DEF MemoryOK
    <3>2. QED
      BY <2>1, <2>2, <2>3, <2>4, <3>1, PutKeepsSound
  <2>6. MemoryOK'
    BY <1>1, <2>3, <2>5 DEF MemoryOK
  <2>7. SizeInv' /\ OldTableInv'
    BY <1>1, <2>3 DEF SizeInv, OldTableInv
  <2>8. QED
    BY <2>5, <2>6, <2>7 DEF TableInv
<1>10. ASSUME NEW k \in Keys, DeleteExisting(k)
       PROVE  TableInv'
  <2>1. PICK g \in Groups, p \in Positions :
          FindsAt(k, g, p) /\ bitmap' = [bitmap EXCEPT ![g][p] = Tombstone(g)]
    BY <1>10 DEF DeleteExisting
  <2>2. <<g, p>> \in UsedSlots
    BY <1>1, <2>1, FoundIsUsed
  <2>3. /\ UNCHANGED <<group_num, table, old_table, left>>
        /\ entries' = entries - 1
        /\ pc = "ready" /\ pc' \in {"ready", "shrink"} /\ (pc' = "shrink" => group_num # 2)
    BY <1>10 DEF DeleteExisting, CheckLower
  <2>4. /\ bitmap' \in [Groups' -> [Positions -> Ctrl]]
        /\ entries' \in Int
        /\ SlotsAreSound' /\ KeysStoredOnce' /\ EntriesCounted'
    <3>1. group_num > 0
      BY <1>1, <1>2, <2>3 DEF MemoryOK
    <3>2. QED
      BY <2>1, <2>2, <2>3, <3>1, DeleteKeepsSound
  <2>5. MemoryOK'
    BY <1>1, <2>3, <2>4 DEF MemoryOK, Groups
  <2>6. SizeInv' /\ OldTableInv'
    BY <1>1, <2>3 DEF SizeInv, OldTableInv
  <2>7. QED
    BY <2>4, <2>5, <2>6 DEF TableInv
<1>11. QED
  BY <1>3, <1>4, <1>5, <1>6, <1>7, <1>8, <1>9, <1>10 DEF Call

(* A rehash moves pairs with distinct keys, so that none needs a search. *)
LEMMA ResizeKeepsSound ==
  ASSUME TableInv, ResizeStep
  PROVE  TableInv'
<1>1. MemoryOK /\ OldTableInv /\ SizeInv /\ KeysStoredOnce
  BY DEF TableInv
<1>2. CASE ResizeFails
  BY <1>2, QuietStep DEF ResizeFails
<1>3. CASE StartRehash
  <2>1. /\ pc \in {"grow", "shrink"} /\ pc' = "rehash"
        /\ group_num' = NewGroups
        /\ bitmap' = EmptyBitmap(group_num') /\ table' = JunkTable(group_num')
        /\ entries' = 0 /\ old_table' = table /\ left' = UsedSlots
    BY <1>3 DEF StartRehash
  <2>2. group_num' \in Nat /\ group_num' > 1 /\ IsPowerOfTwo(group_num')
    <3>1. group_num \in Nat /\ group_num > 1 /\ IsPowerOfTwo(group_num)
      BY <1>1, <2>1 DEF MemoryOK, SizeInv
    <3>2. CASE pc = "grow"
      BY <2>1, <3>1, <3>2, DoublePower DEF NewGroups
    <3>3. CASE pc = "shrink"
      <4>1. group_num # 2 /\ group_num' = group_num \div 2
        BY <1>1, <2>1, <3>3 DEF SizeInv, NewGroups
      <4>2. group_num' \in Nat \ {0} /\ group_num = 2 * group_num' /\ IsPowerOfTwo(group_num')
        BY <3>1, <4>1, HalfPower
      <4>3. QED
        BY <4>1, <4>2
    <3>4. QED
      BY <2>1, <3>2, <3>3
  <2>3. \A s, t \in left' : old_table'[s[1]][s[2]].key = old_table'[t[1]][t[2]].key => s = t
    BY <1>1, <2>1 DEF KeysStoredOnce
  <2>4. /\ bitmap' \in [Groups' -> [Positions -> Ctrl]]
        /\ table' \in [Groups' -> [Positions -> Pairs \cup {JUNK}]]
        /\ SlotsAreSound' /\ KeysStoredOnce' /\ EntriesCounted'
    BY <2>1, <2>2, <2>3, FreshTable
  <2>5. /\ old_table' \in [DOMAIN old_table' -> [Positions -> Pairs \cup {JUNK}]]
        /\ left' \in SUBSET ((DOMAIN old_table') \X Positions)
    <3>1. table \in [Groups -> [Positions -> Pairs \cup {JUNK}]]
      BY <1>1 DEF MemoryOK
    <3>2. DOMAIN table = Groups /\ UsedSlots \subseteq Groups \X Positions
      BY <3>1 DEF UsedSlots
    <3>3. QED
      BY <2>1, <3>1, <3>2
  <2>6. MemoryOK'
    BY <1>1, <2>1, <2>2, <2>4, <2>5 DEF MemoryOK
  <2>7. SizeInv'
    BY <2>1, <2>2 DEF SizeInv
  <2>8. OldTableInv'
    BY <2>1 DEF OldTableInv, TableInv, SlotsAreSound, SlotIsSound
  <2>9. QED
    BY <2>4, <2>6, <2>7, <2>8 DEF TableInv
<1>4. CASE MovePair
  <2> DEFINE pair(s) == old_table[s[1]][s[2]]
  <2>1. PICK s \in left, g \in Groups, p \in Positions :
          left' = left \ {s} /\ FreeAt(pair(s).key, g, p) /\ Put(pair(s), g, p)
    BY <1>4 DEF MovePair
  <2>2. pair(s) \in Pairs
    BY <1>1 DEF OldTableInv
  <2>3. pc = "rehash" /\ UNCHANGED <<pc, group_num, old_table>>
    BY <1>4 DEF MovePair
  <2>4. /\ \A t \in UsedSlots : table[t[1]][t[2]].key # pair(s).key
        /\ \A t \in left' : pair(t).key # pair(s).key
    BY <1>1, <2>1 DEF KeysStoredOnce
  <2>5. /\ bitmap' \in [Groups' -> [Positions -> Ctrl]]
        /\ table' \in [Groups' -> [Positions -> Pairs \cup {JUNK}]]
        /\ entries' \in Int
        /\ SlotsAreSound' /\ KeysStoredOnce' /\ EntriesCounted'
    <3>1. group_num > 0 /\ left' \subseteq left
      BY <1>1, <2>1, <2>3 DEF MemoryOK, SizeInv
    <3>2. QED
      BY <2>1, <2>2, <2>3, <2>4, <3>1, PutKeepsSound
  <2>6. MemoryOK'
    BY <1>1, <2>1, <2>3, <2>5 DEF MemoryOK
  <2>7. SizeInv' /\ OldTableInv'
    BY <1>1, <2>1, <2>3 DEF SizeInv, OldTableInv
  <2>8. QED
    BY <2>5, <2>6, <2>7 DEF TableInv
<1>5. CASE EndRehash
  <2>1. /\ pc = "rehash" /\ pc' = "ready" /\ left = {} /\ left' = {}
        /\ UNCHANGED <<group_num, bitmap, table, entries>>
        /\ old_table' = JunkTable(0)
    BY <1>5 DEF EndRehash
  <2>2. /\ old_table' \in [DOMAIN old_table' -> [Positions -> Pairs \cup {JUNK}]]
        /\ left' \in SUBSET ((DOMAIN old_table') \X Positions)
    BY <2>1 DEF JunkTable
  <2>3. Groups' = Groups /\ UsedSlots' = UsedSlots
    BY <2>1 DEF Groups, UsedSlots
  <2>4. MemoryOK'
    BY <1>1, <2>1, <2>2, <2>3 DEF MemoryOK
  <2>5. SizeInv' /\ OldTableInv'
    BY <1>1, <2>1 DEF SizeInv, OldTableInv
  <2>6. SlotsAreSound'
    BY <2>1, <2>3 DEF TableInv, SlotsAreSound, SlotIsSound, Reachable
  <2>7. KeysStoredOnce' /\ EntriesCounted'
    BY <2>1, <2>3 DEF TableInv, KeysStoredOnce, EntriesCounted
  <2>8. QED
    BY <2>4, <2>5, <2>6, <2>7 DEF TableInv
<1>6. QED
  BY <1>2, <1>3, <1>4, <1>5 DEF ResizeStep

(* The invariant does not look at a step that changes nothing. *)
LEMMA StutterKeepsSound ==
  ASSUME TableInv, UNCHANGED <<pc, memory>>
  PROVE  TableInv'
<1>1. UNCHANGED <<pc, group_num, bitmap, table, entries, old_table, left>>
  BY DEF memory
<1>2. Groups' = Groups /\ UsedSlots' = UsedSlots
  BY <1>1 DEF Groups, UsedSlots
<1>3. MemoryOK' /\ SizeInv' /\ OldTableInv'
  BY <1>1, <1>2 DEF TableInv, MemoryOK, SizeInv, OldTableInv
<1>4. SlotsAreSound' /\ KeysStoredOnce' /\ EntriesCounted'
  BY <1>1, <1>2
     DEF TableInv, SlotsAreSound, SlotIsSound, Reachable, KeysStoredOnce, EntriesCounted
<1>5. QED
  BY <1>3, <1>4 DEF TableInv

LEMMA NextKeepsSound ==
  ASSUME TableInv, [Next]_vars
  PROVE  TableInv'
BY LifetimeStep, CallStep, ResizeKeepsSound, StutterKeepsSound DEF Next, Spin, vars

LEMMA SlotIsPointer ==
  ASSUME NEW g \in Groups, NEW p \in Positions
  PROVE  <<g, p>> \in {NULL, FREED} \cup (Nat \X Positions)
BY DEF Groups

(* The result of a call. *)
LEMMA ResultOf ==
  ASSUME NEW op \in Operations, NEW key \in Keys \cup {NULL},
         NEW code \in {HASH_OK, HASH_WRONG_ARGUMENT, HASH_ENTRY_NOT_EXISTS},
         NEW pointer \in {NULL, FREED} \cup (Nat \X Positions)
  PROVE  /\ Result(op, key, TRUE, code, pointer) \in RetType
         /\ Result(op, key, FALSE, code, pointer) \in RetType
BY DEF Result, RetType, HASH_OK, HASH_WRONG_ARGUMENT, HASH_ENTRY_NOT_EXISTS

(* The table writes no index and no mask into the iterator. *)
LEMMA NextKeepsIterator ==
  ASSUME iterator \in IterType, [Next]_vars
  PROVE  iterator' \in IterType
<1>1. CASE Lifetime
  <2> DEFINE Fresh == [iter_state |-> FALSE, cur_group |-> JUNK, cur_group_mask |-> JUNK]
  <2>1. iterator' = iterator \/ iterator' = Fresh
    BY <1>1 DEF Lifetime, Create, CreateFails, Free
  <2>2. Fresh \in IterType
    BY DEF IterType
  <2> HIDE DEF Fresh
  <2>3. QED
    BY <2>1, <2>2
<1>2. CASE Call
  <2>1. iterator' = iterator
    BY <1>2 DEF Call, WrongArgument, Search, DeleteExisting, DeleteMissing, Hang, InsertExisting,
                EmplaceExisting, InsertNew
  <2>2. QED
    BY <2>1
<1>3. CASE ResizeStep
  BY <1>3 DEF ResizeStep, ResizeFails, StartRehash, MovePair, EndRehash, IterType
<1>4. CASE Spin \/ UNCHANGED vars
  BY <1>4 DEF Spin, vars
<1>5. QED
  BY <1>1, <1>2, <1>3, <1>4 DEF Next

(* Every call returns what its description allows, resized or not. *)
LEMMA NextKeepsResult ==
  ASSUME ret \in RetType, [Next]_vars
  PROVE  ret' \in RetType
<1>1. CASE Lifetime
  <2>1. ASSUME NEW hint \in Hints, CreateFails(hint)
        PROVE  ret' \in RetType
    <3>1. PICK code \in {HASH_WRONG_ARGUMENT, HASH_CREATE_MEM_ALLOC} :
            ret' = Result("create", NULL, FALSE, code, NULL)
      BY <2>1 DEF CreateFails
    <3>2. code \in 0 .. 5
      BY DEF HASH_WRONG_ARGUMENT, HASH_CREATE_MEM_ALLOC
    <3>3. QED
      BY <3>1, <3>2 DEF Result, RetType, Operations
  <2>2. CASE Free \/ \E hint \in Hints : Create(hint)
    BY <2>2, ResultOf DEF Create, Free, Operations
  <2>3. QED
    BY <1>1, <2>1, <2>2 DEF Lifetime
<1>2. CASE Call
  <2>1. CASE WrongArgument
    BY <2>1, ResultOf DEF WrongArgument, Operations
  <2>2. ASSUME NEW k \in Keys, Search(k)
        PROVE  ret' \in RetType
    BY <2>2, ResultOf, SlotIsPointer DEF Search, Operations
  <2>3. ASSUME NEW k \in Keys, DeleteExisting(k) \/ DeleteMissing(k) \/ Hang(k)
        PROVE  ret' \in RetType
    BY <2>3, ResultOf DEF DeleteExisting, DeleteMissing, Hang, Operations
  <2>4. ASSUME NEW k \in Keys, NEW e \in Entries, InsertExisting(k, e)
        PROVE  ret' \in RetType
    BY <2>4, ResultOf, SlotIsPointer DEF InsertExisting, Operations
  <2>5. ASSUME NEW k \in Keys, NEW e \in Entries, EmplaceExisting(k, e)
        PROVE  ret' \in RetType
    BY <2>5, ResultOf DEF EmplaceExisting, Operations
  <2>6. ASSUME NEW k \in Keys, NEW e \in Entries, NEW op \in {"insert", "emplace"},
               InsertNew(op, k, e)
        PROVE  ret' \in RetType
    BY <2>6, ResultOf DEF InsertNew, Operations
  <2>7. QED
    BY <1>2, <2>1, <2>2, <2>3, <2>4, <2>5, <2>6 DEF Call
<1>3. CASE ResizeFails \/ StartRehash \/ MovePair
  BY <1>3 DEF ResizeFails, StartRehash, MovePair, RetType, HASH_REHASH_MEM_ALLOC
<1>4. CASE EndRehash
  <2>1. PICK x \in {NULL, FREED} : ret' = [ret EXCEPT !.code = 0, !.pointer = x]
    BY <1>4 DEF EndRehash, HASH_OK
  <2> DEFINE r == [ret EXCEPT !.code = 0]
  <2>2. r \in RetType
    BY DEF RetType
  <2>3. ret' = [r EXCEPT !.pointer = x]
    BY <2>1
  <2> HIDE DEF r
  <2>4. QED
    BY <2>2, <2>3 DEF RetType
<1>5. CASE Spin \/ UNCHANGED vars
  BY <1>5 DEF Spin, vars
<1>6. QED
  BY <1>1, <1>2, <1>3, <1>4, <1>5 DEF Next, ResizeStep

(* What the invariant says of the table needs nothing of iterators and results. *)
LEMMA TableInvariant == Spec => []TableInv
<1>1. Init => TableInv
  BY InitIsSound
<1>2. TableInv /\ [Next]_vars => TableInv'
  BY NextKeepsSound
<1>3. QED
  BY <1>1, <1>2, PTL DEF Spec

(***************************************************************************)
(* The inductive invariant holds whatever the client calls, in any order,  *)
(* and whether or not malloc succeeds.                                     *)
(***************************************************************************)
THEOREM Soundness == Spec => []IndInv
<1>1. Init => iterator \in IterType /\ ret \in RetType
  BY DEF Init, Result, IterType, RetType, Operations, HASH_OK
<1>2. iterator \in IterType /\ ret \in RetType /\ [Next]_vars
        => (iterator \in IterType /\ ret \in RetType)'
  BY NextKeepsIterator, NextKeepsResult
<1>3. TableInv /\ iterator \in IterType /\ ret \in RetType => IndInv
  BY DEF IndInv, TypeOK, TableInv
<1>4. QED
  BY <1>1, <1>2, <1>3, TableInvariant, PTL DEF Spec

(* Type correctness, and a table of a positive number of groups. *)
THEOREM TypeCorrect == Spec => []TypeOK
<1>1. IndInv => TypeOK
  BY DEF IndInv
<1>2. QED
  BY <1>1, Soundness, PTL

(* No stored key is ever lost to a lookup: deletions and resizes cut no probe off. *)
THEOREM NoFalseMiss == Spec => []StoredKeyIsFound
<1>1. TableInv => StoredKeyIsFound
  BY StoredIsFound
<1>2. QED
  BY <1>1, TableInvariant, PTL

(* No key is stored twice, during a resize either. *)
THEOREM NoDuplicates == Spec => []KeysStoredOnce
<1>1. TableInv => KeysStoredOnce
  BY DEF TableInv
<1>2. QED
  BY <1>1, TableInvariant, PTL

(* The counter on which resizes depend is exact. *)
THEOREM CounterExact == Spec => []EntriesCounted
<1>1. TableInv => EntriesCounted
  BY DEF TableInv
<1>2. QED
  BY <1>1, TableInvariant, PTL

(* Masking an index with group_num - 1 is taking it modulo group_num. *)
THEOREM MaskIsModulo == Spec => []MaskingIsModulo
<1>1. TableInv => MaskingIsModulo
  BY DEF TableInv, SizeInv, MaskingIsModulo
<1>2. QED
  BY <1>1, TableInvariant, PTL

=============================================================================
