---------------------------- MODULE FlatIterator ----------------------------
(***************************************************************************)
(* The iterator inside the flat table: ht_flat_start_it, ht_flat_next_it,  *)
(* ht_flat_prev_it and ht_flat_end_it, called between the operations of    *)
(* FlatHashtable.  A tuple that is returned is the slot it points to.      *)
(*                                                                         *)
(* walk records, for the properties, what a client has been given since it *)
(* began to iterate or last turned round, as long as nobody changes the    *)
(* table.                                                                  *)
(***************************************************************************)
EXTENDS FlatHashtable

(* What was never written is none of the indices and masks the code writes. *)
ASSUME IteratorAssumption == JUNK \notin Int /\ \A mask \in SUBSET Positions : JUNK # mask

VARIABLE walk

iterVars == <<vars, walk>>

(* SIZE_MAX, the predecessor of 0, as an index of a group. *)
WRAPPED == -1

(***************************************************************************)
(* _ht_iter_valid_group: the first group with a pair at or after (before)  *)
(* group g; the loop stops when the index is out of the table.             *)
(***************************************************************************)
IsValidGroup(g) == g \in Groups /\ ValidMask(bitmap[g]) # {}

(* Fault: the search for a group starts one group too far. *)
GroupsAfter(g, direction) ==
  {h \in Groups : IF direction = 1 THEN h > g ELSE h < g}

GroupsFrom(g, direction) ==
  {h \in Groups : IF direction = 1 THEN h >= g ELSE h <= g}

IsNextValidGroup(g, direction, h) ==
  /\ g \in Groups
  /\ h \in GroupsFrom(g, direction)
  /\ IsValidGroup(h)
  /\ \A i \in GroupsFrom(g, direction) :
       IsValidGroup(i) => IF direction = 1 THEN h <= i ELSE i <= h

NoValidGroup(g, direction) ==
  g \in Groups => \A h \in GroupsFrom(g, direction) : ~IsValidGroup(h)

(* Where the index is left when no group is found. *)
PastEnd(g, direction) ==
  IF g \notin Groups THEN g ELSE IF direction = 1 THEN group_num ELSE WRAPPED

(***************************************************************************)
(* The end of every iterator call: the lowest bit of the mask is returned  *)
(* and cleared.                                                            *)
(***************************************************************************)
Yield(op, g, mask) ==
  \E p \in mask :
    /\ IsFirstSetBit(p, mask)
    /\ iterator' = [iter_state |-> TRUE, cur_group |-> g, cur_group_mask |-> mask \ {p}]
    /\ ret' = Result(op, NULL, TRUE, HASH_OK, <<g, p>>)

(***************************************************************************)
(* The same on an empty mask, which no caller checks for when it goes      *)
(* backward: the position of the first bit is undefined.  Counted from the *)
(* wrapped index, the tuple is any slot of the table (where the position   *)
(* of no bit is the width of the word, slot 16) or a pointer outside it,   *)
(* here JUNK, but not NULL; the mask is any mask.                          *)
(***************************************************************************)
YieldGarbage(op, g) ==
  \E mask \in SUBSET Positions, slot \in (Groups \X Positions) \cup {JUNK} :
    /\ iterator' = [iter_state |-> FALSE, cur_group |-> g, cur_group_mask |-> mask]
    /\ ret' = Result(op, NULL, TRUE, HASH_OK, slot)

YieldNull(op) == ret' = Result(op, NULL, FALSE, HASH_OK, NULL)

(* cur_group and cur_group_mask when they are read, possibly as malloc left them. *)
CurGroups == IF iterator.cur_group = JUNK THEN 0 .. MAX_GROUPS ELSE {iterator.cur_group}
CurMasks  ==
  IF iterator.cur_group_mask = JUNK THEN SUBSET Positions ELSE {iterator.cur_group_mask}

-----------------------------------------------------------------------------
StartIt ==
  \/ /\ entries # 0
     /\ \E h \in Groups :
          IsNextValidGroup(0, 1, h) /\ Yield("start", h, ValidMask(bitmap[h]))
  \/ /\ entries = 0
     /\ iterator' = [iterator EXCEPT !.iter_state = FALSE]
     /\ YieldNull("start")

NextIt ==
  \/ /\ ~iterator.iter_state
     /\ YieldNull("next")
     /\ UNCHANGED iterator
  \/ /\ iterator.iter_state
     /\ \E g \in CurGroups, mask \in CurMasks :
          \/ mask # {} /\ Yield("next", g, mask)
          \/ /\ mask = {}
             /\ \E h \in Groups :
                  /\ IsNextValidGroup(g + 1, 1, h)
                  /\ Yield("next", h, ValidMask(bitmap[h]))
          \/ /\ mask = {}
             /\ NoValidGroup(g + 1, 1)
             /\ iterator' = [iter_state |-> FALSE, cur_group |-> PastEnd(g + 1, 1),
                             cur_group_mask |-> {}]
             /\ YieldNull("next")

(* At group 0 the iterator stays valid. *)
PrevIt ==
  \/ /\ ~iterator.iter_state
     /\ YieldNull("prev")
     /\ UNCHANGED iterator
  \/ /\ iterator.iter_state
     /\ \E g \in CurGroups, mask \in CurMasks :
          \/ mask # {} /\ Yield("prev", g, mask)
          \/ /\ mask = {} /\ g = 0
             /\ iterator' = [iter_state |-> TRUE, cur_group |-> 0, cur_group_mask |-> {}]
             /\ YieldNull("prev")
          \/ /\ mask = {} /\ g # 0
             /\ \E h \in Groups :
                  /\ IsNextValidGroup(g - 1, -1, h)
                  /\ Yield("prev", h, ValidMask(bitmap[h]))
          \/ /\ mask = {} /\ g # 0
             /\ NoValidGroup(g - 1, -1)
             /\ YieldGarbage("prev", PastEnd(g - 1, -1))

(* Bound of the model: an index may leave the tables by no more than one step. *)
IndexIsBounded ==
  iterator.cur_group = JUNK \/ iterator.cur_group \in WRAPPED .. MAX_GROUPS

(***************************************************************************)
(* Without entries the iterator is valid, at no position in particular, so *)
(* that ht_flat_prev_it may return a tuple after this NULL, although       *)
(* flat_sparse_hashtable.h:201 says "when the return value is set to NULL  *)
(* then iteration stops".                                                  *)
(***************************************************************************)
EndIt ==
  \/ /\ entries # 0
     /\ \E h \in Groups :
          IsNextValidGroup(group_num - 1, -1, h) /\ Yield("end", h, ValidMask(bitmap[h]))
  \/ /\ entries = 0
     /\ IndexIsBounded
     /\ iterator' = [iterator EXCEPT !.iter_state = TRUE]
     /\ YieldNull("end")

-----------------------------------------------------------------------------
(* Without a walk; a walk that has just begun; one that goes on or turns round. *)
NoWalk == [op |-> "none", seen |-> {}, again |-> FALSE, done |-> FALSE, changed |-> FALSE,
           turned |-> FALSE]

Given == IF ret'.pointer = NULL THEN {} ELSE {ret'.pointer}

BeginWalk(op) == walk' = [NoWalk EXCEPT !.op = op, !.seen = Given, !.done = Given = {}]

Turned(op) ==
  IF walk.op = op THEN walk
  ELSE IF walk.op = "none" \/ walk.changed THEN NoWalk
  ELSE [NoWalk EXCEPT !.op = op, !.turned = TRUE]

GoOn(op) ==
  LET w == Turned(op)
  IN  walk' = IF w.op = "none" \/ w.changed THEN w
              ELSE [w EXCEPT !.seen = w.seen \cup Given,
                             !.again = w.again \/ Given \cap w.seen # {}
                                               \/ (w.done /\ Given # {}),
                             !.done = w.done \/ Given = {}]

IterInit == Init /\ walk = NoWalk

Iterate ==
  /\ pc = "ready"
  /\ \/ StartIt /\ BeginWalk("next")
     \/ NextIt /\ GoOn("next")
     \/ PrevIt /\ GoOn("prev")
     \/ EndIt /\ BeginWalk("prev")
  /\ UNCHANGED <<pc, memory>>

(* Of a walk over a table that changes only its direction is known. *)
Operate ==
  /\ Next
  /\ walk' = IF bitmap' = bitmap /\ iterator' = iterator THEN walk
             ELSE IF walk.op = "next" /\ ~walk.turned THEN [NoWalk EXCEPT !.op = "next", !.changed = TRUE]
             ELSE NoWalk

IterNext == Iterate \/ Operate

IterSpec == IterInit /\ [][IterNext]_iterVars

-----------------------------------------------------------------------------
(* Every pair once, and all of them by the time of NULL; since it turned    *)
(* round, a walk has been given some of the pairs, none of them twice.     *)
WalkIsExact ==
  /\ ~walk.again
  /\ walk.seen \subseteq UsedSlots
  /\ walk.done /\ ~walk.turned => walk.seen = UsedSlots

(***************************************************************************)
(* Forward iteration over a table nobody changes returns every pair once,  *)
(* then NULL, and then NULL again.  One that turns round, even at the NULL *)
(* before group 0 that leaves the iterator valid, is given pairs of the    *)
(* table only, and none of them again, unless there are none (see EndIt).  *)
(***************************************************************************)
ForwardWalkIsExact ==
  walk.op = "next" /\ ~walk.changed /\ (walk.turned => UsedSlots # {}) => WalkIsExact

(***************************************************************************)
(* The same backward, as test_int.c:545 counts, for a table with pairs.    *)
(* It fails when the first groups of the table are empty: ht_flat_prev_it  *)
(* does not look at the result of _ht_iter_valid_group and returns a       *)
(* pointer all the same.                                                   *)
(***************************************************************************)
BackwardWalkIsExact ==
  walk.op = "prev" /\ ~walk.turned /\ UsedSlots # {} => WalkIsExact

(***************************************************************************)
(* A pair in group 0 is enough for backward iteration to be exact, and one *)
(* that has turned round to be sound: the walk ends there and never looks  *)
(* for a group before it.                                                  *)
(***************************************************************************)
BackwardWalkIsExactToGroup0 ==
  walk.op = "prev" /\ IsValidGroup(0) => WalkIsExact

(***************************************************************************)
(* Whatever is done to the table between the calls, a forward iteration    *)
(* returns tuples of the current table: a resize makes the iterator        *)
(* invalid.                                                                *)
(***************************************************************************)
ForwardStaysInTable ==
  walk.op = "next" /\ ~walk.turned /\ ret.op \in {"start", "next"} =>
    ret.pointer \in (Groups \X Positions) \cup {NULL}

=============================================================================
