---------------------------- MODULE NodeIterator ----------------------------
(***************************************************************************)
(* The iterator inside the node table: ht_node_start_it, ht_node_next_it,  *)
(* ht_node_prev_it and ht_node_end_it, called between the operations of    *)
(* NodeHashtable.  It holds the rest of the mask of a group, taken when    *)
(* the group was reached, so that a deletion can leave it with the bit of  *)
(* an object that the client's destructor has destroyed.                   *)
(*                                                                         *)
(* A tuple that is returned is the object it refers to.  walk records, for *)
(* the properties, what happened since a client began to iterate, as long  *)
(* as it only goes on in the same direction.                               *)
(***************************************************************************)
EXTENDS NodeHashtable

VARIABLE walk

iterVars == <<vars, walk>>

(* _ht_iter_valid_group is the flat table's, line by line. *)
I == INSTANCE FlatIterator WITH Entries <- Objects, SPARSE_LIN_PROBE <- TRUE

IsNextValidGroup(g, direction, h) == I!IsNextValidGroup(g, direction, h)
NoValidGroup(g, direction)        == I!NoValidGroup(g, direction)

(* Fault: only the empty slots are left out. *)
GroupMaskWithTombstones(g) == {p \in Positions : bitmap[g][p] # ENTRY_EMPTY}

GroupMask(g) == ValidMask(bitmap[g])

(* Fault: the rest of the group is given up. *)
YieldClearsMask(op, g, mask) ==
  \E p \in mask :
    /\ IsFirstSetBit(p, mask)
    /\ iterator' = [iter_state |-> TRUE, cur_group |-> g, cur_group_mask |-> {}]
    /\ ret' = Result(op, NULL, T!HASH_OK, EntryAt(<<g, p>>))

(***************************************************************************)
(* The end of every iterator call: the lowest bit of the mask is returned  *)
(* and cleared.                                                            *)
(***************************************************************************)
Yield(op, g, mask) ==
  \E p \in mask :
    /\ IsFirstSetBit(p, mask)
    /\ iterator' = [iter_state |-> TRUE, cur_group |-> g, cur_group_mask |-> mask \ {p}]
    /\ ret' = Result(op, NULL, T!HASH_OK, EntryAt(<<g, p>>))

(***************************************************************************)
(* The same on an empty mask, whose first bit is undefined, in a group     *)
(* that the table does not have: the slot that is read may be any slot of  *)
(* the table, or none.  Its reference may be to an object that has been    *)
(* returned, or destroyed, it may be NULL, or to no object at all (JUNK).  *)
(***************************************************************************)
YieldGarbage(op, g) ==
  \E mask \in SUBSET Positions, o \in Objects \cup {NULL, JUNK} :
    /\ iterator' = [iter_state |-> FALSE, cur_group |-> g, cur_group_mask |-> mask]
    /\ ret' = Result(op, NULL, T!HASH_OK, o)

YieldNull(op) == ret' = Result(op, NULL, T!HASH_OK, NULL)

-----------------------------------------------------------------------------
StartIt ==
  \/ /\ entries # 0
     /\ \E h \in T!Groups : IsNextValidGroup(0, 1, h) /\ Yield("start", h, GroupMask(h))
  \/ /\ entries = 0
     /\ iterator' = [iterator EXCEPT !.iter_state = FALSE]
     /\ YieldNull("start")

NextIt ==
  LET g == iterator.cur_group
      mask == iterator.cur_group_mask IN
  \/ /\ ~iterator.iter_state
     /\ YieldNull("next")
     /\ UNCHANGED iterator
  \/ /\ iterator.iter_state /\ mask # {}
     /\ Yield("next", g, mask)
  \/ /\ iterator.iter_state /\ mask = {}
     /\ \E h \in T!Groups : IsNextValidGroup(g + 1, 1, h) /\ Yield("next", h, GroupMask(h))
  \/ /\ iterator.iter_state /\ mask = {}
     /\ NoValidGroup(g + 1, 1)
     /\ iterator' = [iter_state |-> FALSE, cur_group |-> I!PastEnd(g + 1, 1), cur_group_mask |-> {}]
     /\ YieldNull("next")

(* At group 0 the iterator stays valid. *)
PrevIt ==
  LET g == iterator.cur_group
      mask == iterator.cur_group_mask IN
  \/ /\ ~iterator.iter_state
     /\ YieldNull("prev")
     /\ UNCHANGED iterator
  \/ /\ iterator.iter_state /\ mask # {}
     /\ Yield("prev", g, mask)
  \/ /\ iterator.iter_state /\ mask = {} /\ g = 0
     /\ YieldNull("prev")
     /\ UNCHANGED iterator
  \/ /\ iterator.iter_state /\ mask = {} /\ g # 0
     /\ \E h \in T!Groups : IsNextValidGroup(g - 1, -1, h) /\ Yield("prev", h, GroupMask(h))
  \/ /\ iterator.iter_state /\ mask = {} /\ g # 0
     /\ NoValidGroup(g - 1, -1)
     /\ YieldGarbage("prev", I!PastEnd(g - 1, -1))

(* Fault: the iterator is made valid before the table is known to hold an object. *)
EndItValidFirst ==
  \/ /\ entries # 0
     /\ \E h \in T!Groups :
          IsNextValidGroup(group_num - 1, -1, h) /\ Yield("end", h, GroupMask(h))
  \/ /\ entries = 0
     /\ iterator' = [iter_state |-> TRUE, cur_group |-> group_num - 1, cur_group_mask |-> {}]
     /\ YieldNull("end")

EndIt ==
  \/ /\ entries # 0
     /\ \E h \in T!Groups :
          IsNextValidGroup(group_num - 1, -1, h) /\ Yield("end", h, GroupMask(h))
  \/ /\ entries = 0
     /\ iterator' = [iterator EXCEPT !.iter_state = FALSE]
     /\ YieldNull("end")

-----------------------------------------------------------------------------
(***************************************************************************)
(* due: objects that are in the table since the walk began and have not    *)
(* been returned; given: objects that have, and are still there; lost:     *)
(* objects that the client deleted before they were returned; again: an    *)
(* object was returned twice, and was never lost; late: one was returned   *)
(* after NULL; resized: there is another table now; fell: the last step    *)
(* was one before the first group, and its result was made up.             *)
(***************************************************************************)
NoWalk ==
  [op |-> "none", due |-> {}, given |-> {}, lost |-> {}, again |-> FALSE,
   done |-> FALSE, late |-> FALSE, resized |-> FALSE, fell |-> FALSE]

Given == {ret'.pointer} \ {NULL}

BeginWalk(op) ==
  walk' = [NoWalk EXCEPT !.op = op, !.due = Held \ Given, !.given = Given, !.done = Given = {}]

(* Before the first group a backward walk is not stopped: it makes up a result. *)
FallsOff(op) == op = "prev" /\ iterator.iter_state /\ ~iterator'.iter_state

ContinueWalk(op) ==
  walk' = IF walk.op # op THEN NoWalk
          ELSE [walk EXCEPT !.due = @ \ Given,
                            !.given = @ \cup Given,
                            !.again = @ \/ (Given \cap walk.given) \ walk.lost # {},
                            !.late = @ \/ (walk.done /\ Given # {}),
                            !.done = @ \/ Given = {},
                            !.fell = @ \/ FallsOff(op)]

(* What an operation of the table does to the walk. *)
Disturb ==
  LET gone == {o \in Objects : owner[o] = "table" /\ owner'[o] # "table"} IN
  walk' = IF walk.op = "none" \/ pc' = "free" THEN NoWalk
          ELSE [walk EXCEPT !.due = @ \ gone,
                            !.given = @ \ gone,
                            !.lost = @ \cup (gone \ walk.given),
                            !.resized = @ \/ pc' = "rehash"]

IterInit == Init /\ walk = NoWalk

Iterate ==
  /\ pc = "ready"
  /\ \/ StartIt /\ BeginWalk("next")
     \/ NextIt /\ ContinueWalk("next")
     \/ PrevIt /\ ContinueWalk("prev")
     \/ EndIt /\ BeginWalk("prev")
  /\ UNCHANGED <<pc, memory, owner>>

Operate == Next /\ Disturb

IterNext == Iterate \/ Operate

IterSpec == IterInit /\ [][IterNext]_iterVars

-----------------------------------------------------------------------------
(***************************************************************************)
(* Whatever the client inserts and deletes on its way, in both directions: *)
(* an object that stays in the table from the beginning of a walk to its   *)
(* end is returned, unless a resize has ended the walk before, and no      *)
(* object that is there is returned twice.  The exception is one that the  *)
(* client destroyed before its turn and inserted again: a group's mask may *)
(* still lead to its old slot, too.  When ht_node_prev_it makes up its     *)
(* last result, which may be any object once more, everything that stays   *)
(* has been returned.  README.md:47 promises nothing of the kind.          *)
(***************************************************************************)
StayingSeenOnce ==
  /\ walk.again => walk.fell
  /\ (walk.done \/ walk.fell) /\ ~walk.resized => walk.due = {}

(***************************************************************************)
(* A client that deletes only what it has been given, such as one that     *)
(* empties the table while it iterates, is never given an object that its  *)
(* destructor has destroyed, up to the result that ht_node_prev_it makes   *)
(* up: that one may be such an object, see EndIsNull.                      *)
(***************************************************************************)
GivenIsLive ==
  /\ walk.op # "none" /\ walk.lost = {} /\ ~walk.fell
  /\ ret.op \in {"start", "next", "end", "prev"} /\ ret.pointer \in Objects
  => owner[ret.pointer] = "table"

(***************************************************************************)
(* node_sparse_hashtable.h:122, "When the return value is set to NULL then *)
(* iteration stops": after NULL a walk returns NULL, also when the table   *)
(* has been filled since.                                                  *)
(***************************************************************************)
NullEndsWalk == ~walk.late

(***************************************************************************)
(* node_sparse_hashtable.h:122-124 goes on: "we reached the end (either    *)
(* before the start of the table or the after the end of the table)", so   *)
(* that a backward walk that finds no group before the current one returns *)
(* NULL.  Violated: ht_node_prev_it does not look at what                  *)
(* _ht_iter_valid_group returns.                                           *)
(***************************************************************************)
EndIsNull == walk.fell /\ ret.op = "prev" => ret.pointer = NULL

=============================================================================
