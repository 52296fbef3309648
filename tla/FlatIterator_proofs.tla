------------------------ MODULE FlatIterator_proofs ------------------------
(***************************************************************************)
(* Theorems about the iterator of the flat table, for all sizes of groups  *)
(* and tables and whatever a client does between two calls.                *)
(***************************************************************************)
EXTENDS FlatIterator, FlatHashtable_proofs

(***************************************************************************)
(* The pairs that a walk has passed when it is at group g and mask is left *)
(* of it: those of the groups on its way to g, and of g those that are not *)
(* in the mask.                                                            *)
(***************************************************************************)
IsPassed(h, direction, g) == IF direction = 1 THEN h < g ELSE h > g

Passed(direction, g, mask) ==
  {s \in UsedSlots : IsPassed(s[1], direction, g) \/ (s[1] = g /\ s[2] \notin mask)}

(***************************************************************************)
(* The inductive invariant.  A walk that is not over has been given what   *)
(* it has passed, of which one that turned round was given a part, and it  *)
(* can still be given what is left of the mask; the rest says how the      *)
(* iterator and the results may look at all.                               *)
(***************************************************************************)
Progress(w, direction) ==
  /\ iterator.cur_group \in Groups
  /\ iterator.cur_group_mask \in SUBSET ValidMask(bitmap[iterator.cur_group])
  /\ w.seen \subseteq Passed(direction, iterator.cur_group, iterator.cur_group_mask)
  /\ ~w.turned => w.seen = Passed(direction, iterator.cur_group, iterator.cur_group_mask)

ForwardGoes(w) ==
  /\ ~w.again
  /\ iterator.iter_state => ~w.done /\ Progress(w, 1)
  /\ ~iterator.iter_state => /\ w.seen \subseteq UsedSlots
                             /\ ~w.turned => w.done /\ w.seen = UsedSlots

BackwardGoes(w) ==
  /\ iterator.iter_state =>
       /\ ~w.again /\ Progress(w, -1)
       /\ w.done => iterator.cur_group = 0 /\ iterator.cur_group_mask = {}
  /\ ~iterator.iter_state /\ IsValidGroup(0) => ~w.again /\ w.turned /\ w.seen = {}

ForwardInv ==
  walk.op = "next" /\ ~walk.changed /\ (walk.turned => UsedSlots # {}) => ForwardGoes(walk)

BackwardInv ==
  walk.op = "prev" => ~walk.changed /\ (UsedSlots # {} => BackwardGoes(walk))

(* Only a resize moves the groups under a valid iterator, and makes it invalid. *)
PositionInv ==
  walk.op = "next" /\ ~walk.turned /\ pc # "rehash" /\ iterator.iter_state =>
    /\ iterator.cur_group \in Groups
    /\ iterator.cur_group_mask \in SUBSET Positions

(* A call that resizes has replaced the result of the iterator. *)
ResultInv ==
  /\ "op" \in DOMAIN ret
  /\ pc \notin {"ready", "hung"} => ret.op \notin {"start", "next"}
  /\ ForwardStaysInTable

WalkType ==
  [op : {"none", "next", "prev"}, seen : SUBSET ((Int \X Positions) \cup {JUNK}),
   again : BOOLEAN, done : BOOLEAN, changed : BOOLEAN, turned : BOOLEAN]

IterInv ==
  /\ TableInv
  /\ iterator \in IterType /\ walk \in WalkType
  /\ PositionInv /\ ResultInv
  /\ ForwardInv /\ BackwardInv

-----------------------------------------------------------------------------
(***************************************************************************)
(* What a walk passes.                                                     *)
(***************************************************************************)
LEMMA UsedParts ==
  ASSUME NEW s \in UsedSlots
  PROVE  s = <<s[1], s[2]>> /\ s[1] \in Groups /\ s[2] \in ValidMask(bitmap[s[1]]) /\ IsValidGroup(s[1])
BY DEF UsedSlots, IsValidGroup

LEMMA ValidIsUsed ==
  ASSUME NEW g \in Groups, NEW p \in ValidMask(bitmap[g])
  PROVE  <<g, p>> \in UsedSlots /\ p \in Positions
BY DEF UsedSlots, ValidMask

LEMMA PassInGroup ==
  ASSUME NEW d \in {1, -1}, NEW g \in Groups, NEW mask \in SUBSET ValidMask(bitmap[g]), NEW p \in mask
  PROVE  /\ Passed(d, g, mask \ {p}) = Passed(d, g, mask) \cup {<<g, p>>}
         /\ <<g, p>> \notin Passed(d, g, mask)
<1>1. <<g, p>> \in UsedSlots /\ g \in Int
  BY ValidIsUsed DEF Groups
<1>2. \A s \in UsedSlots : s[1] = g /\ s[2] = p => s = <<g, p>>
  BY UsedParts
<1>3. ~IsPassed(g, d, g)
  BY <1>1 DEF IsPassed
<1>4. <<g, p>> \notin Passed(d, g, mask)
  BY <1>3 DEF Passed
<1>5. ASSUME NEW s
      PROVE  s \in Passed(d, g, mask \ {p}) <=> s \in Passed(d, g, mask) \cup {<<g, p>>}
  <2>1. CASE s = <<g, p>>
    BY <1>1, <2>1 DEF Passed
  <2>2. CASE s # <<g, p>>
    BY <1>2, <2>2 DEF Passed
  <2>3. QED
    BY <2>1, <2>2
<1>6. QED
  BY <1>4, <1>5

(* No valid group lies between a group and the next valid one. *)
LEMMA PassToNextGroup ==
  ASSUME NEW d \in {1, -1}, group_num \in Nat, NEW g \in Groups, NEW h \in Groups,
         IsNextValidGroup(g + d, d, h), NEW p \in ValidMask(bitmap[h])
  PROVE  /\ Passed(d, h, ValidMask(bitmap[h]) \ {p}) = Passed(d, g, {}) \cup {<<h, p>>}
         /\ <<h, p>> \notin Passed(d, g, {})
<1>1. /\ g + d \in Groups /\ h \in GroupsFrom(g + d, d)
      /\ \A i \in GroupsFrom(g + d, d) : IsValidGroup(i) => IF d = 1 THEN h <= i ELSE i <= h
  BY DEF IsNextValidGroup
<1>2. <<h, p>> \in UsedSlots /\ g \in Int /\ h \in Int
  BY ValidIsUsed DEF Groups
<1>3. IF d = 1 THEN g < h ELSE h < g
  BY <1>1, <1>2 DEF GroupsFrom
<1>4. <<h, p>> \notin Passed(d, g, {})
  BY <1>2, <1>3 DEF Passed, IsPassed
<1>5. ASSUME NEW s \in UsedSlots, s[1] # h
      PROVE  IsPassed(s[1], d, h) <=> IsPassed(s[1], d, g) \/ s[1] = g
  <2>1. s[1] \in Groups /\ s[1] \in Int /\ IsValidGroup(s[1])
    BY <1>5, UsedParts DEF Groups
  <2>2. CASE d = 1
    <3>1. s[1] > g => s[1] \in GroupsFrom(g + d, d)
      BY <1>2, <2>1, <2>2 DEF GroupsFrom
    <3>2. s[1] > g => h <= s[1]
      BY <1>1, <2>1, <2>2, <3>1
    <3>3. QED
      BY <1>2, <1>3, <1>5, <2>1, <2>2, <3>2 DEF IsPassed
  <2>3. CASE d = -1
    <3>1. s[1] < g => s[1] \in GroupsFrom(g + d, d)
      BY <1>2, <2>1, <2>3 DEF GroupsFrom
    <3>2. s[1] < g => s[1] <= h
      BY <1>1, <2>1, <2>3, <3>1
    <3>3. QED
      BY <1>2, <1>3, <1>5, <2>1, <2>3, <3>2 DEF IsPassed
  <2>4. QED
    BY <2>2, <2>3
<1>6. ASSUME NEW s \in UsedSlots, s[1] = h
      PROVE  /\ s[2] \notin ValidMask(bitmap[h]) \ {p} <=> s = <<h, p>>
             /\ ~IsPassed(s[1], d, h) /\ ~IsPassed(s[1], d, g) /\ s[1] # g
  BY <1>2, <1>3, <1>6, UsedParts DEF IsPassed
<1>7. ASSUME NEW s
      PROVE  s \in Passed(d, h, ValidMask(bitmap[h]) \ {p}) <=> s \in Passed(d, g, {}) \cup {<<h, p>>}
  <2>1. CASE s \notin UsedSlots
    BY <1>2, <2>1 DEF Passed
  <2>2. CASE s \in UsedSlots /\ s[1] # h
    BY <1>5, <2>2 DEF Passed
  <2>3. CASE s \in UsedSlots /\ s[1] = h
    BY <1>6, <2>3 DEF Passed
  <2>4. QED
    BY <2>1, <2>2, <2>3
<1>8. QED
  BY <1>4, <1>7

(* A walk begins at the first valid group: nothing is left behind it. *)
LEMMA PassFirst ==
  ASSUME NEW d \in {1, -1}, group_num \in Nat, NEW first,
         first = (IF d = 1 THEN 0 ELSE group_num - 1), NEW h \in Groups,
         IsNextValidGroup(first, d, h), NEW p \in ValidMask(bitmap[h])
  PROVE  Passed(d, h, ValidMask(bitmap[h]) \ {p}) = {<<h, p>>}
<1>1. /\ first \in Groups /\ h \in GroupsFrom(first, d)
      /\ \A i \in GroupsFrom(first, d) : IsValidGroup(i) => IF d = 1 THEN h <= i ELSE i <= h
  BY DEF IsNextValidGroup
<1>2. <<h, p>> \in UsedSlots /\ h \in Int
  BY ValidIsUsed DEF Groups
<1>3. GroupsFrom(first, d) = Groups
  BY DEF GroupsFrom, Groups
<1>4. ASSUME NEW s \in UsedSlots
      PROVE  ~IsPassed(s[1], d, h)
  <2>1. s[1] \in Groups /\ s[1] \in Int /\ IsValidGroup(s[1])
    BY <1>4, UsedParts DEF Groups
  <2>2. IF d = 1 THEN h <= s[1] ELSE s[1] <= h
    BY <1>1, <1>3, <2>1
  <2>3. QED
    BY <1>2, <2>1, <2>2 DEF IsPassed
<1>5. ASSUME NEW s
      PROVE  s \in Passed(d, h, ValidMask(bitmap[h]) \ {p}) <=> s = <<h, p>>
  <2>1. s \in UsedSlots /\ s[1] = h => (s[2] \notin ValidMask(bitmap[h]) \ {p} <=> s = <<h, p>>)
    BY UsedParts
  <2>2. QED
    BY <1>2, <1>4, <2>1 DEF Passed
<1>6. QED
  BY <1>5

(* Where no valid group follows, everything is passed. *)
LEMMA PassAll ==
  ASSUME group_num \in Nat, NEW g \in Groups, NoValidGroup(g + 1, 1)
  PROVE  Passed(1, g, {}) = UsedSlots
<1>1. ASSUME NEW s \in UsedSlots
      PROVE  s[1] <= g
  <2>1. s[1] \in Groups /\ s[1] \in Int /\ g \in Int /\ IsValidGroup(s[1])
    BY <1>1, UsedParts DEF Groups
  <2>2. s[1] > g => g + 1 \in Groups /\ s[1] \in GroupsFrom(g + 1, 1)
    BY <2>1 DEF Groups, GroupsFrom
  <2>3. QED
    BY <2>1, <2>2 DEF NoValidGroup
<1>2. \A s \in UsedSlots : s[1] \in Int /\ g \in Int
  BY UsedParts DEF Groups
<1>3. QED
  BY <1>1, <1>2 DEF Passed, IsPassed

-----------------------------------------------------------------------------
(***************************************************************************)
(* What is recorded of a walk.                                             *)
(***************************************************************************)
LEMMA BeginWalkParts ==
  ASSUME NEW op \in {"next", "prev"}, BeginWalk(op)
  PROVE  /\ walk'.op = op /\ walk'.seen = Given
         /\ walk'.again = FALSE /\ walk'.changed = FALSE /\ walk'.done = (Given = {})
         /\ walk'.turned = FALSE
         /\ Given \subseteq (Int \X Positions) \cup {JUNK} => walk' \in WalkType
BY DEF BeginWalk, NoWalk, WalkType

LEMMA TurnedParts ==
  ASSUME walk \in WalkType, NEW op \in {"next", "prev"}
  PROVE  /\ Turned(op) \in WalkType
         /\ \/ walk.op = op /\ Turned(op) = walk
            \/ Turned(op).op = "none" /\ Turned(op) = NoWalk
            \/ /\ walk.op \in {"next", "prev"} \ {op} /\ ~walk.changed
               /\ Turned(op).op = op /\ Turned(op).turned = TRUE /\ Turned(op).seen = {}
               /\ Turned(op).again = FALSE /\ Turned(op).done = FALSE
               /\ Turned(op).changed = FALSE
<1>1. CASE walk.op = op
  BY <1>1 DEF Turned
<1>2. CASE walk.op # op /\ (walk.op = "none" \/ walk.changed)
  BY <1>2 DEF Turned, NoWalk, WalkType
<1>3. CASE walk.op # op /\ ~(walk.op = "none" \/ walk.changed)
  <2>1. walk.op \in {"next", "prev"} \ {op} /\ ~walk.changed
    BY <1>3 DEF WalkType
  <2>2. Turned(op) = [op |-> op, seen |-> {}, again |-> FALSE, done |-> FALSE, changed |-> FALSE,
                      turned |-> TRUE]
    BY <1>3 DEF Turned, NoWalk
  <2>3. QED
    BY <2>1, <2>2 DEF WalkType
<1>4. QED
  BY <1>1, <1>2, <1>3

LEMMA GoOnParts ==
  ASSUME NEW w \in WalkType, NEW op \in {"next", "prev"}, w = Turned(op), GoOn(op)
  PROVE  /\ walk'.op = w.op /\ walk'.changed = w.changed /\ walk'.turned = w.turned
         /\ w.op # "none" /\ ~w.changed =>
              /\ walk'.seen = w.seen \cup Given
              /\ walk'.again = (w.again \/ Given \cap w.seen # {} \/ (w.done /\ Given # {}))
              /\ walk'.done = (w.done \/ Given = {})
         /\ Given \subseteq (Int \X Positions) \cup {JUNK} => walk' \in WalkType
<1>1. CASE w.op = "none" \/ w.changed
  BY <1>1 DEF GoOn, WalkType
<1>2. CASE ~(w.op = "none" \/ w.changed)
  <2> DEFINE again == w.again \/ Given \cap w.seen # {} \/ (w.done /\ Given # {})
             done  == w.done \/ Given = {}
  <2>1. walk' = [w EXCEPT !.seen = w.seen \cup Given, !.again = again, !.done = done]
    BY <1>2 DEF GoOn
  <2>2. again \in BOOLEAN /\ done \in BOOLEAN
    BY DEF WalkType
  <2> HIDE DEF again, done
  <2>3. /\ walk'.op = w.op /\ walk'.changed = w.changed /\ walk'.turned = w.turned
        /\ walk'.seen = w.seen \cup Given /\ walk'.again = again /\ walk'.done = done
        /\ Given \subseteq (Int \X Positions) \cup {JUNK} => walk' \in WalkType
    BY <2>1, <2>2 DEF WalkType
  <2>4. QED
    BY <2>3 DEF again, done
<1>3. QED
  BY <1>1, <1>2

(* What is known of a walk that goes on, in the same direction or not. *)
LEMMA ForwardGoesOn ==
  ASSUME IterInv, NEW w \in WalkType, w = Turned("next"), w.op = "next", ~w.changed,
         w.turned => UsedSlots # {}
  PROVE  ForwardGoes(w)
<1>1. CASE walk.op = "next" /\ w = walk
  BY <1>1 DEF IterInv, ForwardInv
<1>2. CASE /\ walk.op = "prev" /\ ~walk.changed
           /\ w.turned = TRUE /\ w.seen = {} /\ w.again = FALSE /\ w.done = FALSE
  <2>1. BackwardGoes(walk)
    BY <1>2 DEF IterInv, BackwardInv
  <2>2. QED
    BY <1>2, <2>1 DEF BackwardGoes, ForwardGoes, Progress
<1>3. QED
  BY <1>1, <1>2, TurnedParts DEF IterInv

LEMMA BackwardGoesOn ==
  ASSUME IterInv, NEW w \in WalkType, w = Turned("prev"), w.op = "prev"
  PROVE  ~w.changed /\ (UsedSlots # {} => BackwardGoes(w))
<1>1. CASE walk.op = "prev" /\ w = walk
  BY <1>1 DEF IterInv, BackwardInv
<1>2. CASE /\ walk.op = "next" /\ ~walk.changed /\ w.changed = FALSE
           /\ w.turned = TRUE /\ w.seen = {} /\ w.again = FALSE /\ w.done = FALSE
  <2>1. SUFFICES ASSUME UsedSlots # {}
                 PROVE  BackwardGoes(w)
    BY <1>2
  <2>2. ForwardGoes(walk)
    BY <1>2, <2>1 DEF IterInv, ForwardInv
  <2>3. QED
    BY <1>2, <2>2 DEF BackwardGoes, ForwardGoes, Progress
<1>3. QED
  BY <1>1, <1>2, TurnedParts DEF IterInv

(***************************************************************************)
(* What a walk passes depends on the control bytes alone.                  *)
(***************************************************************************)
LEMMA SameBitmap ==
  ASSUME MemoryOK, MemoryOK', bitmap' = bitmap
  PROVE  /\ Groups' = Groups /\ UsedSlots' = UsedSlots
         /\ \A d, g, mask : Passed(d, g, mask)' = Passed(d, g, mask)
         /\ \A g : IsValidGroup(g)' <=> IsValidGroup(g)
<1>1. Groups' = Groups
  <2>1. DOMAIN bitmap = Groups /\ DOMAIN bitmap' = Groups'
    BY DEF MemoryOK
  <2>2. QED
    BY <2>1
<1>2. UsedSlots' = UsedSlots
  BY <1>1 DEF UsedSlots
<1>3. QED
  BY <1>1, <1>2 DEF Passed, IsValidGroup

(***************************************************************************)
(* An operation of the table.                                              *)
(***************************************************************************)
LEMMA TableKeepsResult ==
  ASSUME ResultInv, Next
  PROVE  /\ "op" \in DOMAIN ret'
         /\ ret'.op \in {"start", "next"} =>
              /\ pc' \in {"ready", "hung"}
              /\ ret' = ret /\ group_num' = group_num
<1>1. CASE Lifetime
  BY <1>1 DEF Lifetime, Create, CreateFails, Free, Result
<1>2. CASE Call
  <2>1. CASE WrongArgument
    BY <2>1 DEF WrongArgument, Result
  <2>2. ASSUME NEW k \in Keys, Search(k) \/ DeleteExisting(k) \/ DeleteMissing(k)
        PROVE  /\ "op" \in DOMAIN ret'
               /\ ret'.op \notin {"start", "next"}
    BY <2>2 DEF Search, DeleteExisting, DeleteMissing, Result
  <2>3. ASSUME NEW k \in Keys, Hang(k)
        PROVE  pc' = "hung" /\ ret' = ret /\ group_num' = group_num
    BY <2>3 DEF Hang, memory
  <2>4. ASSUME NEW k \in Keys, NEW e \in Entries,
               \/ InsertExisting(k, e)
               \/ EmplaceExisting(k, e)
               \/ \E op \in {"insert", "emplace"} : InsertNew(op, k, e)
        PROVE  /\ "op" \in DOMAIN ret'
               /\ ret'.op \notin {"start", "next"}
    BY <2>4 DEF InsertExisting, EmplaceExisting, InsertNew, Result
  <2>5. "op" \in DOMAIN ret
    BY DEF ResultInv
  <2>6. QED
    BY <1>2, <2>1, <2>2, <2>3, <2>4, <2>5 DEF Call
<1>3. CASE ResizeStep
  <2>1. pc \notin {"ready", "hung"}
    BY <1>3 DEF ResizeStep, ResizeFails, StartRehash, MovePair, EndRehash
  <2>2. "op" \in DOMAIN ret /\ ret.op \notin {"start", "next"}
    BY <2>1 DEF ResultInv
  <2>3. CASE ret' = ret
    BY <2>2, <2>3
  <2>4. CASE ResizeFails \/ EndRehash
    <3>1. \A x : "op" \in DOMAIN [ret EXCEPT !.code = x] /\ [ret EXCEPT !.code = x].op = ret.op
      BY <2>2
    <3>2. \A x, y : /\ "op" \in DOMAIN [ret EXCEPT !.code = x, !.pointer = y]
                    /\ [ret EXCEPT !.code = x, !.pointer = y].op = ret.op
      BY <2>2
    <3>3. "op" \in DOMAIN ret' /\ ret'.op = ret.op
      <4>1. CASE ResizeFails
        BY <3>1, <4>1 DEF ResizeFails
      <4>2. CASE EndRehash
        <5>1. PICK x, y : ret' = [ret EXCEPT !.code = x, !.pointer = y]
          BY <4>2 DEF EndRehash
        <5>2. QED
          BY <3>2, <5>1
      <4>3. QED
        BY <2>4, <4>1, <4>2
    <3>4. QED
      BY <2>2, <3>3
  <2>5. QED
    BY <1>3, <2>3, <2>4 DEF ResizeStep, StartRehash, MovePair
<1>4. CASE Spin
  BY <1>4 DEF Spin, vars, memory, ResultInv
<1>5. QED
  BY <1>1, <1>2, <1>3, <1>4 DEF Next

LEMMA TableKeepsPosition ==
  ASSUME iterator \in IterType, Next, iterator'.iter_state, pc' # "rehash"
  PROVE  pc # "rehash" /\ iterator' = iterator /\ group_num' = group_num
<1>1. CASE Lifetime
  <2>1. ASSUME NEW hint \in Hints, CreateFails(hint)
        PROVE  pc # "rehash" /\ iterator' = iterator /\ group_num' = group_num
    BY <2>1 DEF CreateFails, memory
  <2> DEFINE Fresh == [iter_state |-> FALSE, cur_group |-> JUNK, cur_group_mask |-> JUNK]
  <2>2. Fresh.iter_state = FALSE
    OBVIOUS
  <2>3. Free \/ (\E hint \in Hints : Create(hint)) => iterator' = Fresh
    BY DEF Free, Create
  <2> HIDE DEF Fresh
  <2>4. QED
    BY <1>1, <2>1, <2>2, <2>3 DEF Lifetime
<1>2. CASE Call
  BY <1>2 DEF Call, WrongArgument, Search, DeleteExisting, DeleteMissing, Hang, InsertExisting,
              EmplaceExisting, InsertNew, memory
<1>3. CASE ResizeStep
  <2>1. ~EndRehash
    <3>1. EndRehash => ~iterator'.iter_state
      BY DEF EndRehash, IterType
    <3>2. QED
      BY <3>1
  <2>2. QED
    BY <1>3, <2>1 DEF ResizeStep, ResizeFails, StartRehash, MovePair, memory
<1>4. CASE Spin
  BY <1>4 DEF Spin, vars, memory
<1>5. QED
  BY <1>1, <1>2, <1>3, <1>4 DEF Next

LEMMA OperateStep ==
  ASSUME IterInv, Operate
  PROVE  IterInv'
<1>1. Next /\ iterator \in IterType
  BY DEF Operate, IterInv
<1>2. TableInv' /\ iterator' \in IterType
  BY <1>1, NextKeepsSound, NextKeepsIterator DEF IterInv
<1>3. /\ walk' \in WalkType
      /\ walk'.op = "next" => walk.op = "next"
      /\ \/ walk' = walk /\ bitmap' = bitmap /\ iterator' = iterator
         \/ walk'.op # "prev" /\ (walk'.op = "next" => walk'.changed /\ ~walk.turned)
  BY DEF Operate, IterInv, WalkType, NoWalk
<1>4. PositionInv'
  <2>1. SUFFICES ASSUME walk'.op = "next", ~walk'.turned, pc' # "rehash", iterator'.iter_state
                 PROVE  /\ iterator'.cur_group \in Groups'
                        /\ iterator'.cur_group_mask \in SUBSET Positions
    BY DEF PositionInv
  <2>2. pc # "rehash" /\ iterator' = iterator /\ Groups' = Groups
    BY <1>1, <2>1, TableKeepsPosition DEF Groups
  <2>3. QED
    BY <1>3, <2>1, <2>2 DEF IterInv, PositionInv
<1>5. ResultInv'
  <2>1. /\ "op" \in DOMAIN ret'
        /\ ret'.op \in {"start", "next"} =>
             pc' \in {"ready", "hung"} /\ ret' = ret /\ group_num' = group_num
    BY <1>1, TableKeepsResult DEF IterInv
  <2>2. ForwardStaysInTable'
    BY <1>3, <2>1 DEF IterInv, ResultInv, ForwardStaysInTable, Groups
  <2>3. QED
    BY <2>1, <2>2 DEF ResultInv
<1>6. ForwardInv' /\ BackwardInv'
  <2>1. CASE walk' = walk /\ bitmap' = bitmap /\ iterator' = iterator
    <3>1. /\ Groups' = Groups /\ UsedSlots' = UsedSlots
          /\ \A d, g, mask : Passed(d, g, mask)' = Passed(d, g, mask)
          /\ \A g : IsValidGroup(g)' <=> IsValidGroup(g)
      BY <1>2, <2>1, SameBitmap DEF IterInv, TableInv
    <3>2. \A d : Progress(walk, d)' <=> Progress(walk, d)
      BY <2>1, <3>1 DEF Progress
    <3>3. ForwardInv'
      BY <2>1, <3>1, <3>2 DEF IterInv, ForwardInv, ForwardGoes
    <3>4. BackwardInv'
      BY <2>1, <3>1, <3>2 DEF IterInv, BackwardInv, BackwardGoes
    <3>5. QED
      BY <3>3, <3>4
  <2>2. CASE walk'.op # "prev" /\ (walk'.op = "next" => walk'.changed /\ ~walk.turned)
    BY <2>2 DEF ForwardInv, BackwardInv
  <2>3. QED
    BY <1>3, <2>1, <2>2
<1>7. QED
  BY <1>2, <1>3, <1>4, <1>5, <1>6 DEF IterInv

-----------------------------------------------------------------------------
(***************************************************************************)
(* A call of the iterator.                                                 *)
(***************************************************************************)
LEMMA IterateKeepsTable ==
  ASSUME TableInv, UNCHANGED <<pc, memory>>
  PROVE  /\ TableInv' /\ UNCHANGED <<pc, bitmap, group_num>>
         /\ Groups' = Groups /\ UsedSlots' = UsedSlots
         /\ \A d, g, mask : Passed(d, g, mask)' = Passed(d, g, mask)
         /\ \A g : IsValidGroup(g)' <=> IsValidGroup(g)
<1>1. TableInv' /\ UNCHANGED <<pc, bitmap, group_num>>
  BY StutterKeepsSound DEF memory
<1>2. QED
  BY <1>1, SameBitmap DEF TableInv

LEMMA PointerIsNotNull ==
  ASSUME NEW g \in Groups, NEW p \in Positions
  PROVE  <<g, p>> # NULL
BY FlatAssumption, CommonAssumption DEF Groups, Positions

LEMMA YieldParts ==
  ASSUME NEW call, NEW g \in Int, NEW mask \in SUBSET Positions, Yield(call, g, mask)
  PROVE  \E p \in mask :
           /\ iterator' \in IterType
           /\ iterator'.iter_state = TRUE /\ iterator'.cur_group = g
           /\ iterator'.cur_group_mask = mask \ {p}
           /\ "op" \in DOMAIN ret' /\ ret'.op = call /\ ret'.pointer = <<g, p>>
           /\ Given \subseteq (Int \X Positions) \cup {JUNK}
           /\ g \in Groups => Given = {<<g, p>>}
<1>1. PICK p \in mask :
        /\ iterator' = [iter_state |-> TRUE, cur_group |-> g, cur_group_mask |-> mask \ {p}]
        /\ ret' = Result(call, NULL, TRUE, HASH_OK, <<g, p>>)
  BY DEF Yield
<1>2. /\ iterator'.iter_state = TRUE /\ iterator'.cur_group = g
      /\ iterator'.cur_group_mask = mask \ {p}
  BY <1>1
<1>3. "op" \in DOMAIN ret' /\ ret'.op = call /\ ret'.pointer = <<g, p>>
  BY <1>1 DEF Result
<1>4. iterator' \in IterType
  BY <1>1 DEF IterType
<1>5. /\ Given \subseteq (Int \X Positions) \cup {JUNK}
      /\ g \in Groups => Given = {<<g, p>>}
  BY <1>3, PointerIsNotNull DEF Given
<1>6. QED
  BY <1>2, <1>3, <1>4, <1>5

LEMMA YieldNullParts ==
  ASSUME NEW call, YieldNull(call)
  PROVE  "op" \in DOMAIN ret' /\ ret'.op = call /\ ret'.pointer = NULL /\ Given = {}
BY DEF YieldNull, Result, Given

(* The positions of a call are in the mask of its group. *)
LEMMA MaskOfGroup ==
  ASSUME NEW g
  PROVE  ValidMask(bitmap[g]) \in SUBSET Positions
BY DEF ValidMask

LEMMA NoEntriesNoSlots ==
  ASSUME TableInv, entries = 0
  PROVE  UsedSlots = {}
<1>1. IsFiniteSet(UsedSlots) /\ Cardinality(UsedSlots) = 0
  BY UsedIsFinite DEF TableInv, MemoryOK, EntriesCounted
<1>2. QED
  BY <1>1, FS_EmptySet

LEMMA StartStep ==
  ASSUME IterInv, pc = "ready", UNCHANGED <<pc, memory>>, StartIt, BeginWalk("next")
  PROVE  IterInv'
<1>1. /\ TableInv' /\ pc' = "ready" /\ bitmap' = bitmap
      /\ Groups' = Groups /\ UsedSlots' = UsedSlots
      /\ \A d, g, mask : Passed(d, g, mask)' = Passed(d, g, mask)
  BY IterateKeepsTable DEF IterInv
<1>2. /\ walk'.op = "next" /\ walk'.seen = Given
      /\ walk'.again = FALSE /\ walk'.changed = FALSE /\ walk'.done = (Given = {})
      /\ walk'.turned = FALSE
      /\ Given \subseteq (Int \X Positions) \cup {JUNK} => walk' \in WalkType
  BY BeginWalkParts
<1>3. BackwardInv'
  BY <1>2 DEF BackwardInv
<1>4. ASSUME NEW h \in Groups, IsNextValidGroup(0, 1, h), Yield("start", h, ValidMask(bitmap[h]))
      PROVE  IterInv'
  <2>1. h \in Int /\ group_num \in Nat /\ ValidMask(bitmap[h]) \in SUBSET Positions
    BY MaskOfGroup DEF Groups, IterInv, TableInv, MemoryOK
  <2>2. PICK p \in ValidMask(bitmap[h]) :
          /\ iterator' \in IterType
          /\ iterator'.iter_state = TRUE /\ iterator'.cur_group = h
          /\ iterator'.cur_group_mask = ValidMask(bitmap[h]) \ {p}
          /\ "op" \in DOMAIN ret' /\ ret'.op = "start" /\ ret'.pointer = <<h, p>>
          /\ Given \subseteq (Int \X Positions) \cup {JUNK} /\ Given = {<<h, p>>}
    BY <1>4, <2>1, YieldParts
  <2>3. Passed(1, h, ValidMask(bitmap[h]) \ {p}) = {<<h, p>>}
    BY <1>4, <2>1, PassFirst
  <2>4. PositionInv' /\ ResultInv'
    BY <1>1, <2>1, <2>2 DEF PositionInv, ResultInv, ForwardStaysInTable
  <2>5. Progress(walk, 1)'
    BY <1>1, <1>2, <2>2, <2>3 DEF Progress
  <2>6. ForwardInv'
    BY <1>2, <2>2, <2>5 DEF ForwardInv, ForwardGoes
  <2>7. QED
    BY <1>1, <1>2, <1>3, <2>2, <2>4, <2>6 DEF IterInv
<1>5. ASSUME entries = 0, iterator' = [iterator EXCEPT !.iter_state = FALSE], YieldNull("start")
      PROVE  IterInv'
  <2>1. "op" \in DOMAIN ret' /\ ret'.op = "start" /\ ret'.pointer = NULL /\ Given = {}
    BY <1>5, YieldNullParts
  <2>2. iterator' \in IterType /\ iterator'.iter_state = FALSE
    BY <1>5 DEF IterInv, IterType
  <2>3. UsedSlots' = {}
    BY <1>1, <1>5, NoEntriesNoSlots DEF IterInv
  <2>4. PositionInv' /\ ResultInv'
    BY <1>1, <2>1, <2>2 DEF PositionInv, ResultInv, ForwardStaysInTable
  <2>5. ForwardInv'
    BY <1>2, <2>1, <2>2, <2>3 DEF ForwardInv, ForwardGoes
  <2>6. QED
    BY <1>1, <1>2, <1>3, <2>1, <2>2, <2>4, <2>5 DEF IterInv
<1>6. QED
  BY <1>4, <1>5 DEF StartIt

LEMMA EndStep ==
  ASSUME IterInv, pc = "ready", UNCHANGED <<pc, memory>>, EndIt, BeginWalk("prev")
  PROVE  IterInv'
<1>1. /\ TableInv' /\ pc' = "ready" /\ bitmap' = bitmap
      /\ Groups' = Groups /\ UsedSlots' = UsedSlots
      /\ \A d, g, mask : Passed(d, g, mask)' = Passed(d, g, mask)
      /\ \A g : IsValidGroup(g)' <=> IsValidGroup(g)
  BY IterateKeepsTable DEF IterInv
<1>2. /\ walk'.op = "prev" /\ walk'.seen = Given
      /\ walk'.again = FALSE /\ walk'.changed = FALSE /\ walk'.done = (Given = {})
      /\ walk'.turned = FALSE
      /\ Given \subseteq (Int \X Positions) \cup {JUNK} => walk' \in WalkType
  BY BeginWalkParts
<1>3. PositionInv' /\ ForwardInv'
  BY <1>2 DEF PositionInv, ForwardInv
<1>4. ASSUME NEW h \in Groups, IsNextValidGroup(group_num - 1, -1, h),
             Yield("end", h, ValidMask(bitmap[h]))
      PROVE  IterInv'
  <2>1. h \in Int /\ group_num \in Nat /\ ValidMask(bitmap[h]) \in SUBSET Positions
    BY MaskOfGroup DEF Groups, IterInv, TableInv, MemoryOK
  <2>2. PICK p \in ValidMask(bitmap[h]) :
          /\ iterator' \in IterType
          /\ iterator'.iter_state = TRUE /\ iterator'.cur_group = h
          /\ iterator'.cur_group_mask = ValidMask(bitmap[h]) \ {p}
          /\ "op" \in DOMAIN ret' /\ ret'.op = "end"
          /\ Given \subseteq (Int \X Positions) \cup {JUNK} /\ Given = {<<h, p>>}
    BY <1>4, <2>1, YieldParts
  <2>3. Passed(-1, h, ValidMask(bitmap[h]) \ {p}) = {<<h, p>>}
    <3>1. -1 \in {1, -1} /\ group_num - 1 = (IF -1 = 1 THEN 0 ELSE group_num - 1)
      OBVIOUS
    <3>2. QED
      BY <1>4, <2>1, <3>1, PassFirst
  <2>4. ResultInv'
    BY <1>1, <2>2 DEF ResultInv, ForwardStaysInTable
  <2>5. Progress(walk, -1)'
    BY <1>1, <1>2, <2>2, <2>3 DEF Progress
  <2>6. BackwardInv'
    BY <1>2, <2>2, <2>5 DEF BackwardInv, BackwardGoes
  <2>7. QED
    BY <1>1, <1>2, <1>3, <2>2, <2>4, <2>6 DEF IterInv
<1>5. ASSUME entries = 0, iterator' = [iterator EXCEPT !.iter_state = TRUE], YieldNull("end")
      PROVE  IterInv'
  <2>1. "op" \in DOMAIN ret' /\ ret'.op = "end" /\ ret'.pointer = NULL /\ Given = {}
    BY <1>5, YieldNullParts
  <2>2. iterator' \in IterType
    BY <1>5 DEF IterInv, IterType
  <2>3. UsedSlots' = {}
    BY <1>1, <1>5, NoEntriesNoSlots DEF IterInv
  <2>4. ResultInv'
    BY <1>1, <2>1 DEF ResultInv, ForwardStaysInTable
  <2>5. BackwardInv'
    BY <1>2, <2>3 DEF BackwardInv
  <2>6. QED
    BY <1>1, <1>2, <1>3, <2>1, <2>2, <2>4, <2>5 DEF IterInv
<1>6. QED
  BY <1>4, <1>5 DEF EndIt

LEMMA CurParts ==
  ASSUME iterator \in IterType, NEW g \in CurGroups, NEW mask \in CurMasks
  PROVE  /\ g \in Int /\ mask \in SUBSET Positions
         /\ iterator.cur_group \in Groups => g = iterator.cur_group
         /\ iterator.cur_group_mask \in SUBSET Positions => mask = iterator.cur_group_mask
BY FlatAssumption, IteratorAssumption DEF CurGroups, CurMasks, IterType, Groups

LEMMA NextStep ==
  ASSUME IterInv, pc = "ready", UNCHANGED <<pc, memory>>, NextIt, GoOn("next")
  PROVE  IterInv'
<1>1. /\ TableInv' /\ pc' = "ready" /\ bitmap' = bitmap
      /\ Groups' = Groups /\ UsedSlots' = UsedSlots
      /\ \A d, g, mask : Passed(d, g, mask)' = Passed(d, g, mask)
  BY IterateKeepsTable DEF IterInv
<1> DEFINE w == Turned("next")
<1>0. /\ w \in WalkType /\ w.op \in {"next", "none"}
      /\ w.op = "next" /\ ~w.turned => walk.op = "next" /\ ~walk.turned
      /\ w.op = "next" /\ ~w.changed /\ (w.turned => UsedSlots # {}) => ForwardGoes(w)
  <2>1. w \in WalkType
    BY TurnedParts DEF IterInv
  <2>2. w.op = "next" /\ ~w.changed /\ (w.turned => UsedSlots # {}) => ForwardGoes(w)
    BY <2>1, ForwardGoesOn
  <2>3. /\ w.op \in {"next", "none"}
        /\ w.op = "next" /\ ~w.turned => walk.op = "next" /\ ~walk.turned
    BY TurnedParts DEF IterInv
  <2>4. QED
    BY <2>1, <2>2, <2>3
<1>2. /\ walk'.op = w.op /\ walk'.changed = w.changed /\ walk'.turned = w.turned
      /\ w.op # "none" /\ ~w.changed =>
           /\ walk'.seen = w.seen \cup Given
           /\ walk'.again = (w.again \/ Given \cap w.seen # {} \/ (w.done /\ Given # {}))
           /\ walk'.done = (w.done \/ Given = {})
      /\ Given \subseteq (Int \X Positions) \cup {JUNK} => walk' \in WalkType
  BY <1>0, GoOnParts
<1> HIDE DEF w
<1>3. BackwardInv'
  BY <1>0, <1>2 DEF BackwardInv
<1>4. ASSUME ~iterator.iter_state, YieldNull("next"), UNCHANGED iterator
      PROVE  IterInv'
  <2>1. "op" \in DOMAIN ret' /\ ret'.op = "next" /\ ret'.pointer = NULL /\ Given = {}
    BY <1>4, YieldNullParts
  <2>2. PositionInv' /\ ResultInv'
    BY <1>1, <1>4, <2>1 DEF PositionInv, ResultInv, ForwardStaysInTable
  <2>3. ForwardInv'
    BY <1>1, <1>0, <1>2, <1>4, <2>1 DEF ForwardInv, ForwardGoes
  <2>4. QED
    BY <1>1, <1>2, <1>3, <1>4, <2>1, <2>2, <2>3 DEF IterInv
<1>5. ASSUME iterator.iter_state, NEW g \in CurGroups, NEW mask \in CurMasks,
             \/ mask # {} /\ Yield("next", g, mask)
             \/ /\ mask = {}
                /\ \E h \in Groups :
                     IsNextValidGroup(g + 1, 1, h) /\ Yield("next", h, ValidMask(bitmap[h]))
             \/ /\ mask = {}
                /\ NoValidGroup(g + 1, 1)
                /\ iterator' = [iter_state |-> FALSE, cur_group |-> PastEnd(g + 1, 1),
                                cur_group_mask |-> {}]
                /\ YieldNull("next")
      PROVE  IterInv'
  <2>1. g \in Int /\ mask \in SUBSET Positions /\ group_num \in Nat /\ 1 \in {1, -1}
    BY CurParts DEF IterInv, TableInv, MemoryOK
  <2>2. w.op = "next" /\ ~w.turned => g \in Groups
    BY <1>0, <1>5, CurParts DEF IterInv, PositionInv
  <2>3. w.op = "next" /\ ~w.changed /\ (w.turned => UsedSlots # {}) =>
          /\ ~w.again /\ ~w.done
          /\ g \in Groups /\ mask \in SUBSET ValidMask(bitmap[g])
          /\ w.seen \subseteq Passed(1, g, mask)
          /\ ~w.turned => w.seen = Passed(1, g, mask)
    <3>1. SUFFICES ASSUME Progress(w, 1)
                   PROVE  /\ g \in Groups /\ mask \in SUBSET ValidMask(bitmap[g])
                          /\ w.seen \subseteq Passed(1, g, mask)
                          /\ ~w.turned => w.seen = Passed(1, g, mask)
      BY <1>0, <1>5 DEF ForwardGoes
    <3>2. iterator.cur_group \in Groups /\ iterator.cur_group_mask \in SUBSET Positions
      BY <3>1, MaskOfGroup DEF Progress
    <3>3. g = iterator.cur_group /\ mask = iterator.cur_group_mask
      BY <3>2, CurParts DEF IterInv
    <3>4. QED
      BY <3>1, <3>3 DEF Progress
  <2>4. ASSUME Yield("next", g, mask)
        PROVE  IterInv'
    <3>1. PICK p \in mask :
            /\ iterator' \in IterType
            /\ iterator'.iter_state = TRUE /\ iterator'.cur_group = g
            /\ iterator'.cur_group_mask = mask \ {p}
            /\ "op" \in DOMAIN ret' /\ ret'.op = "next" /\ ret'.pointer = <<g, p>>
            /\ Given \subseteq (Int \X Positions) \cup {JUNK}
            /\ g \in Groups => Given = {<<g, p>>}
      BY <2>1, <2>4, YieldParts
    <3>2. PositionInv' /\ ResultInv'
      BY <1>1, <1>2, <2>1, <2>2, <3>1 DEF PositionInv, ResultInv, ForwardStaysInTable
    <3>3. ForwardInv'
      <4>1. SUFFICES ASSUME w.op = "next", ~w.changed, w.turned => UsedSlots # {}
                     PROVE  ~walk'.again /\ ~walk'.done /\ Progress(walk, 1)'
        BY <1>1, <1>2, <3>1 DEF ForwardInv, ForwardGoes
      <4>2. /\ Passed(1, g, mask \ {p}) = Passed(1, g, mask) \cup {<<g, p>>}
            /\ <<g, p>> \notin Passed(1, g, mask)
        BY <2>1, <2>3, <4>1, PassInGroup
      <4>3. g \in Groups /\ Given = {<<g, p>>} /\ w.seen \subseteq Passed(1, g, mask) /\ ~w.again
            /\ ~w.done
        BY <2>3, <3>1, <4>1
      <4>4. ~walk'.again /\ ~walk'.done
        BY <1>2, <4>1, <4>2, <4>3
      <4>5. /\ walk'.seen \subseteq Passed(1, g, mask \ {p})'
            /\ ~walk'.turned => walk'.seen = Passed(1, g, mask \ {p})'
        BY <1>1, <1>2, <2>3, <4>1, <4>2, <4>3
      <4>6. mask \ {p} \in SUBSET ValidMask(bitmap'[g])
        BY <1>1, <2>2, <2>3, <4>1
      <4>7. QED
        BY <1>1, <3>1, <4>3, <4>4, <4>5, <4>6 DEF Progress
    <3>4. QED
      BY <1>1, <1>2, <1>3, <3>1, <3>2, <3>3 DEF IterInv
  <2>5. ASSUME mask = {}, NEW h \in Groups, IsNextValidGroup(g + 1, 1, h),
               Yield("next", h, ValidMask(bitmap[h]))
        PROVE  IterInv'
    <3>1. h \in Int /\ ValidMask(bitmap[h]) \in SUBSET Positions
      BY MaskOfGroup DEF Groups
    <3>2. PICK p \in ValidMask(bitmap[h]) :
            /\ iterator' \in IterType
            /\ iterator'.iter_state = TRUE /\ iterator'.cur_group = h
            /\ iterator'.cur_group_mask = ValidMask(bitmap[h]) \ {p}
            /\ "op" \in DOMAIN ret' /\ ret'.op = "next" /\ ret'.pointer = <<h, p>>
            /\ Given \subseteq (Int \X Positions) \cup {JUNK} /\ Given = {<<h, p>>}
      BY <2>5, <3>1, YieldParts
    <3>3. PositionInv' /\ ResultInv'
      BY <1>1, <3>1, <3>2 DEF PositionInv, ResultInv, ForwardStaysInTable
    <3>4. ForwardInv'
      <4>1. SUFFICES ASSUME w.op = "next", ~w.changed, w.turned => UsedSlots # {}
                     PROVE  ~walk'.again /\ ~walk'.done /\ Progress(walk, 1)'
        BY <1>1, <1>2, <3>2 DEF ForwardInv, ForwardGoes
      <4>2. /\ Passed(1, h, ValidMask(bitmap[h]) \ {p}) = Passed(1, g, {}) \cup {<<h, p>>}
            /\ <<h, p>> \notin Passed(1, g, {})
        BY <2>1, <2>3, <2>5, <4>1, PassToNextGroup
      <4>3. g \in Groups /\ Given = {<<h, p>>} /\ w.seen \subseteq Passed(1, g, {}) /\ ~w.again
            /\ ~w.done
        BY <2>3, <2>5, <3>2, <4>1
      <4>4. ~walk'.again /\ ~walk'.done
        BY <1>2, <4>1, <4>2, <4>3
      <4>5. /\ walk'.seen \subseteq Passed(1, h, ValidMask(bitmap[h]) \ {p})'
            /\ ~walk'.turned => walk'.seen = Passed(1, h, ValidMask(bitmap[h]) \ {p})'
        BY <1>1, <1>2, <2>3, <2>5, <4>1, <4>2, <4>3
      <4>6. ValidMask(bitmap[h]) \ {p} \in SUBSET ValidMask(bitmap'[h])
        BY <1>1, <2>2, <2>3, <2>5, <4>1
      <4>7. QED
        BY <1>1, <3>2, <4>3, <4>4, <4>5, <4>6 DEF Progress
    <3>5. QED
      BY <1>1, <1>2, <1>3, <3>2, <3>3, <3>4 DEF IterInv
  <2>6. ASSUME mask = {}, NoValidGroup(g + 1, 1), YieldNull("next"),
               iterator' = [iter_state |-> FALSE, cur_group |-> PastEnd(g + 1, 1),
                            cur_group_mask |-> {}]
        PROVE  IterInv'
    <3>1. "op" \in DOMAIN ret' /\ ret'.op = "next" /\ ret'.pointer = NULL /\ Given = {}
      BY <2>6, YieldNullParts
    <3>2. iterator' \in IterType /\ iterator'.iter_state = FALSE
      <4>1. PastEnd(g + 1, 1) \in Int
        BY <2>1 DEF PastEnd
      <4>2. QED
        BY <2>6, <4>1 DEF IterType
    <3>3. PositionInv' /\ ResultInv'
      BY <1>1, <3>1, <3>2 DEF PositionInv, ResultInv, ForwardStaysInTable
    <3>4. ForwardInv'
      <4>1. SUFFICES ASSUME w.op = "next", ~w.changed, w.turned => UsedSlots # {}
                     PROVE  /\ ~walk'.again /\ walk'.done /\ walk'.seen \subseteq UsedSlots'
                            /\ ~w.turned => walk'.seen = UsedSlots'
        BY <1>1, <1>2, <3>2 DEF ForwardInv, ForwardGoes
      <4>2. Passed(1, g, {}) = UsedSlots
        BY <2>1, <2>3, <2>6, <4>1, PassAll
      <4>3. QED
        BY <1>1, <1>2, <2>3, <2>6, <3>1, <4>1, <4>2
    <3>5. QED
      BY <1>1, <1>2, <1>3, <3>1, <3>2, <3>3, <3>4 DEF IterInv
  <2>7. QED
    BY <1>5, <2>4, <2>5, <2>6
<1>6. QED
  BY <1>4, <1>5 DEF NextIt

(* A walk backward that has a pair in group 0 before it always finds a valid group. *)
LEMMA PrevStep ==
  ASSUME IterInv, pc = "ready", UNCHANGED <<pc, memory>>, PrevIt, GoOn("prev")
  PROVE  IterInv'
<1>1. /\ TableInv' /\ pc' = "ready" /\ bitmap' = bitmap
      /\ Groups' = Groups /\ UsedSlots' = UsedSlots
      /\ \A d, g, mask : Passed(d, g, mask)' = Passed(d, g, mask)
      /\ \A g : IsValidGroup(g)' <=> IsValidGroup(g)
  BY IterateKeepsTable DEF IterInv
<1> DEFINE w == Turned("prev")
<1>0. /\ w \in WalkType /\ w.op \in {"prev", "none"}
      /\ w.op = "prev" => ~w.changed /\ (UsedSlots # {} => BackwardGoes(w))
  <2>1. w \in WalkType
    BY TurnedParts DEF IterInv
  <2>2. w.op = "prev" => ~w.changed /\ (UsedSlots # {} => BackwardGoes(w))
    BY <2>1, BackwardGoesOn
  <2>3. w.op \in {"prev", "none"}
    BY TurnedParts DEF IterInv
  <2>4. QED
    BY <2>1, <2>2, <2>3
<1>2. /\ walk'.op = w.op /\ walk'.changed = w.changed /\ walk'.turned = w.turned
      /\ w.op # "none" /\ ~w.changed =>
           /\ walk'.seen = w.seen \cup Given
           /\ walk'.again = (w.again \/ Given \cap w.seen # {} \/ (w.done /\ Given # {}))
           /\ walk'.done = (w.done \/ Given = {})
      /\ Given \subseteq (Int \X Positions) \cup {JUNK} => walk' \in WalkType
  BY <1>0, GoOnParts
<1> HIDE DEF w
<1>3. PositionInv' /\ ForwardInv'
  BY <1>0, <1>2 DEF PositionInv, ForwardInv
<1>4. "op" \in DOMAIN ret' => ResultInv'
  BY <1>1, <1>0, <1>2 DEF ResultInv, ForwardStaysInTable
(* What is left to show: the part of the invariant about walks backward. *)
<1>5. ASSUME w.op = "prev" /\ UsedSlots # {} => BackwardGoes(walk)'
      PROVE  BackwardInv'
  BY <1>1, <1>0, <1>2, <1>5 DEF BackwardInv
<1>6. w.op = "prev" /\ UsedSlots # {} => BackwardGoes(w)
  BY <1>0
<1>7. ASSUME ~iterator.iter_state, YieldNull("prev"), UNCHANGED iterator
      PROVE  IterInv'
  <2>1. "op" \in DOMAIN ret' /\ Given = {}
    BY <1>7, YieldNullParts
  <2>2. BackwardInv'
    <3>1. SUFFICES ASSUME w.op = "prev", UsedSlots # {}
                   PROVE  BackwardGoes(walk)'
      BY <1>5
    <3>2. QED
      BY <1>1, <1>0, <1>2, <1>6, <1>7, <2>1, <3>1 DEF BackwardGoes
  <2>3. QED
    BY <1>1, <1>2, <1>3, <1>4, <1>7, <2>1, <2>2 DEF IterInv
<1>8. ASSUME iterator.iter_state, NEW g \in CurGroups, NEW mask \in CurMasks,
             \/ mask # {} /\ Yield("prev", g, mask)
             \/ /\ mask = {} /\ g = 0
                /\ iterator' = [iter_state |-> TRUE, cur_group |-> 0, cur_group_mask |-> {}]
                /\ YieldNull("prev")
             \/ /\ mask = {} /\ g # 0
                /\ \E h \in Groups :
                     IsNextValidGroup(g - 1, -1, h) /\ Yield("prev", h, ValidMask(bitmap[h]))
             \/ /\ mask = {} /\ g # 0
                /\ NoValidGroup(g - 1, -1)
                /\ YieldGarbage("prev", PastEnd(g - 1, -1))
      PROVE  IterInv'
  <2>1. g \in Int /\ mask \in SUBSET Positions /\ group_num \in Nat /\ -1 \in {1, -1}
    BY CurParts DEF IterInv, TableInv, MemoryOK
  <2>2. w.op = "prev" /\ UsedSlots # {} =>
          /\ g \in Groups /\ mask \in SUBSET ValidMask(bitmap[g])
          /\ ~w.again /\ w.seen \subseteq Passed(-1, g, mask)
          /\ ~w.turned => w.seen = Passed(-1, g, mask)
          /\ w.done => g = 0 /\ mask = {}
    <3>1. SUFFICES ASSUME w.op = "prev", UsedSlots # {}
                   PROVE  /\ g \in Groups /\ mask \in SUBSET ValidMask(bitmap[g])
                          /\ ~w.again /\ w.seen \subseteq Passed(-1, g, mask)
                          /\ ~w.turned => w.seen = Passed(-1, g, mask)
                          /\ w.done => g = 0 /\ mask = {}
      OBVIOUS
    <3>2. /\ ~w.again /\ Progress(w, -1)
          /\ w.done => iterator.cur_group = 0 /\ iterator.cur_group_mask = {}
      BY <1>6, <1>8, <3>1 DEF BackwardGoes
    <3>3. iterator.cur_group \in Groups /\ iterator.cur_group_mask \in SUBSET Positions
      BY <3>2, MaskOfGroup DEF Progress
    <3>4. g = iterator.cur_group /\ mask = iterator.cur_group_mask
      BY <3>3, CurParts DEF IterInv
    <3>5. QED
      BY <3>2, <3>4 DEF Progress
  <2>3. ASSUME mask # {}, Yield("prev", g, mask)
        PROVE  IterInv'
    <3>1. PICK p \in mask :
            /\ iterator' \in IterType
            /\ iterator'.iter_state = TRUE /\ iterator'.cur_group = g
            /\ iterator'.cur_group_mask = mask \ {p}
            /\ "op" \in DOMAIN ret' /\ ret'.op = "prev" /\ ret'.pointer = <<g, p>>
            /\ Given \subseteq (Int \X Positions) \cup {JUNK}
            /\ g \in Groups => Given = {<<g, p>>}
      <4>1. g \in Int /\ mask \in SUBSET Positions /\ Yield("prev", g, mask)
        BY <2>1, <2>3
      <4>2. QED
        BY <4>1, YieldParts
    <3>2. BackwardInv'
      <4>1. SUFFICES ASSUME w.op = "prev", UsedSlots # {}
                     PROVE  ~walk'.again /\ ~walk'.done /\ Progress(walk, -1)'
        BY <1>5, <3>1 DEF BackwardGoes
      <4>2. /\ Passed(-1, g, mask \ {p}) = Passed(-1, g, mask) \cup {<<g, p>>}
            /\ <<g, p>> \notin Passed(-1, g, mask)
        BY <2>1, <2>2, <4>1, PassInGroup
      <4>3. g \in Groups /\ Given = {<<g, p>>} /\ w.seen \subseteq Passed(-1, g, mask) /\ ~w.again
            /\ ~w.done
        BY <2>2, <2>3, <3>1, <4>1
      <4>4. ~walk'.again /\ ~walk'.done
        BY <1>0, <1>2, <4>1, <4>2, <4>3
      <4>5. /\ walk'.seen \subseteq Passed(-1, g, mask \ {p})'
            /\ ~walk'.turned => walk'.seen = Passed(-1, g, mask \ {p})'
        BY <1>1, <1>0, <1>2, <2>2, <4>1, <4>2, <4>3
      <4>6. mask \ {p} \in SUBSET ValidMask(bitmap'[g])
        BY <1>1, <2>2, <2>3, <4>1
      <4>7. QED
        BY <1>1, <3>1, <4>3, <4>4, <4>5, <4>6 DEF Progress
    <3>3. QED
      BY <1>1, <1>2, <1>3, <1>4, <3>1, <3>2 DEF IterInv
  <2>4. ASSUME mask = {}, g = 0, YieldNull("prev"),
               iterator' = [iter_state |-> TRUE, cur_group |-> 0, cur_group_mask |-> {}]
        PROVE  IterInv'
    <3>1. "op" \in DOMAIN ret' /\ Given = {}
      BY <2>4, YieldNullParts
    <3>2. /\ iterator' \in IterType /\ iterator'.iter_state = TRUE
          /\ iterator'.cur_group = 0 /\ iterator'.cur_group_mask = {}
      BY <2>4 DEF IterType
    <3>3. BackwardInv'
      <4>1. SUFFICES ASSUME w.op = "prev", UsedSlots # {}
                     PROVE  ~walk'.again /\ Progress(walk, -1)'
        BY <1>5, <3>2 DEF BackwardGoes
      <4>2. QED
        BY <1>1, <1>0, <1>2, <2>2, <2>4, <3>1, <3>2, <4>1 DEF Progress
    <3>4. QED
      BY <1>1, <1>2, <1>3, <1>4, <3>1, <3>2, <3>3 DEF IterInv
  <2>5. ASSUME mask = {}, g # 0, NEW h \in Groups, IsNextValidGroup(g - 1, -1, h),
               Yield("prev", h, ValidMask(bitmap[h]))
        PROVE  IterInv'
    <3>1. h \in Int /\ ValidMask(bitmap[h]) \in SUBSET Positions
      BY MaskOfGroup DEF Groups
    <3>2. PICK p \in ValidMask(bitmap[h]) :
            /\ iterator' \in IterType
            /\ iterator'.iter_state = TRUE /\ iterator'.cur_group = h
            /\ iterator'.cur_group_mask = ValidMask(bitmap[h]) \ {p}
            /\ "op" \in DOMAIN ret'
            /\ Given \subseteq (Int \X Positions) \cup {JUNK} /\ Given = {<<h, p>>}
      BY <2>5, <3>1, YieldParts
    <3>3. BackwardInv'
      <4>1. SUFFICES ASSUME w.op = "prev", UsedSlots # {}
                     PROVE  ~walk'.again /\ ~walk'.done /\ Progress(walk, -1)'
        BY <1>5, <3>2 DEF BackwardGoes
      <4>2. /\ Passed(-1, h, ValidMask(bitmap[h]) \ {p}) = Passed(-1, g, {}) \cup {<<h, p>>}
            /\ <<h, p>> \notin Passed(-1, g, {})
        <5>1. g - 1 = g + -1
          BY <2>1
        <5>2. QED
          BY <2>1, <2>2, <2>5, <4>1, <5>1, PassToNextGroup
      <4>3. g \in Groups /\ Given = {<<h, p>>} /\ w.seen \subseteq Passed(-1, g, {}) /\ ~w.again
            /\ ~w.done
        BY <2>2, <2>5, <3>2, <4>1
      <4>4. ~walk'.again /\ ~walk'.done
        BY <1>0, <1>2, <4>1, <4>2, <4>3
      <4>5. /\ walk'.seen \subseteq Passed(-1, h, ValidMask(bitmap[h]) \ {p})'
            /\ ~walk'.turned => walk'.seen = Passed(-1, h, ValidMask(bitmap[h]) \ {p})'
        BY <1>1, <1>0, <1>2, <2>2, <2>5, <4>1, <4>2, <4>3
      <4>6. ValidMask(bitmap[h]) \ {p} \in SUBSET ValidMask(bitmap'[h])
        BY <1>1, <2>2, <2>5, <4>1
      <4>7. QED
        BY <1>1, <3>2, <4>3, <4>4, <4>5, <4>6 DEF Progress
    <3>4. QED
      BY <1>1, <1>2, <1>3, <1>4, <3>2, <3>3 DEF IterInv
  <2>6. ASSUME mask = {}, g # 0, NoValidGroup(g - 1, -1), YieldGarbage("prev", PastEnd(g - 1, -1))
        PROVE  IterInv'
    <3>1. PastEnd(g - 1, -1) \in Int
      BY <2>1 DEF PastEnd, WRAPPED
    <3>2. iterator' \in IterType /\ iterator'.iter_state = FALSE
      BY <2>6, <3>1 DEF YieldGarbage, IterType
    <3>3. "op" \in DOMAIN ret' /\ Given \subseteq (Int \X Positions) \cup {JUNK}
      <4>1. PICK slot \in (Groups \X Positions) \cup {JUNK} :
              ret' = Result("prev", NULL, TRUE, HASH_OK, slot)
        BY <2>6 DEF YieldGarbage
      <4>2. slot \in (Int \X Positions) \cup {JUNK}
        BY <4>1 DEF Groups
      <4>3. QED
        BY <4>1, <4>2 DEF Result, Given
    <3>4. ~(w.op = "prev" /\ IsValidGroup(0))
      <4>1. SUFFICES ASSUME w.op = "prev", IsValidGroup(0)
                     PROVE  FALSE
        OBVIOUS
      <4>2. UsedSlots # {}
        BY <4>1, ValidIsUsed DEF IsValidGroup
      <4>3. g - 1 \in Groups /\ 0 \in Groups /\ g - 1 >= 0
        BY <2>1, <2>2, <2>6, <4>1, <4>2 DEF Groups, IsValidGroup
      <4>4. 0 \in GroupsFrom(g - 1, -1)
        BY <4>3 DEF GroupsFrom
      <4>5. QED
        BY <2>6, <4>1, <4>3, <4>4 DEF NoValidGroup
    <3>5. BackwardInv'
      BY <1>1, <1>5, <3>2, <3>4 DEF BackwardGoes
    <3>6. QED
      BY <1>1, <1>2, <1>3, <1>4, <3>2, <3>3, <3>5 DEF IterInv
  <2>7. QED
    BY <1>8, <2>3, <2>4, <2>5, <2>6
<1>9. QED
  BY <1>7, <1>8 DEF PrevIt

LEMMA IterNextKeepsInv ==
  ASSUME IterInv, [IterNext]_iterVars
  PROVE  IterInv'
<1>1. CASE Iterate
  BY <1>1, StartStep, NextStep, PrevStep, EndStep DEF Iterate
<1>2. CASE Operate
  BY <1>2, OperateStep
<1>3. CASE UNCHANGED iterVars
  <2>1. UNCHANGED <<pc, memory, bitmap, iterator, ret, walk>>
    BY <1>3 DEF iterVars, vars, memory
  <2>2. /\ TableInv' /\ Groups' = Groups /\ UsedSlots' = UsedSlots
        /\ \A d, g, mask : Passed(d, g, mask)' = Passed(d, g, mask)
        /\ \A g : IsValidGroup(g)' <=> IsValidGroup(g)
    BY <2>1, IterateKeepsTable DEF IterInv
  <2>3. \A d : Progress(walk, d)' <=> Progress(walk, d)
    BY <2>1, <2>2 DEF Progress
  <2>4. PositionInv' /\ ResultInv'
    BY <2>1, <2>2 DEF IterInv, PositionInv, ResultInv, ForwardStaysInTable
  <2>5. ForwardInv' /\ BackwardInv'
    BY <2>1, <2>2, <2>3 DEF IterInv, ForwardInv, BackwardInv, ForwardGoes, BackwardGoes
  <2>6. QED
    BY <2>1, <2>2, <2>4, <2>5 DEF IterInv
<1>4. QED
  BY <1>1, <1>2, <1>3 DEF IterNext

LEMMA IterInvariant == IterSpec => []IterInv
<1>1. IterInit => IterInv
  <2>1. SUFFICES ASSUME IterInit
                 PROVE  IterInv
    OBVIOUS
  <2>2. TableInv
    BY <2>1, InitIsSound DEF IterInit
  <2>3. walk.op = "none" /\ walk \in WalkType
    BY <2>1 DEF IterInit, NoWalk, WalkType
  <2>4. iterator \in IterType
    BY <2>1 DEF IterInit, Init, IterType
  <2>5. "op" \in DOMAIN ret /\ ret.op = "none"
    BY <2>1 DEF IterInit, Init, Result
  <2>6. QED
    BY <2>2, <2>3, <2>4, <2>5
       DEF IterInv, PositionInv, ResultInv, ForwardInv, BackwardInv, ForwardStaysInTable
<1>2. IterInv /\ [IterNext]_iterVars => IterInv'
  BY IterNextKeepsInv
<1>3. QED
  BY <1>1, <1>2, PTL DEF IterSpec

-----------------------------------------------------------------------------
(***************************************************************************)
(* ht_flat_start_it and ht_flat_next_it give every pair of a table that    *)
(* nobody changes exactly once, then NULL for ever; after a turn, pairs of *)
(* the table and none twice.                                               *)
(***************************************************************************)
THEOREM ForwardIsExact == IterSpec => []ForwardWalkIsExact
<1>1. IterInv => ForwardWalkIsExact
  <2>1. \A d, g, mask : Passed(d, g, mask) \subseteq UsedSlots
    BY DEF Passed
  <2>2. QED
    BY <2>1 DEF IterInv, ForwardInv, ForwardGoes, Progress, ForwardWalkIsExact, WalkIsExact
<1>2. QED
  BY <1>1, IterInvariant, PTL

(***************************************************************************)
(* Whatever is done to the table between two calls of ht_flat_next_it, it  *)
(* returns tuples of the current table.                                    *)
(***************************************************************************)
THEOREM ForwardIsInTable == IterSpec => []ForwardStaysInTable
<1>1. IterInv => ForwardStaysInTable
  BY DEF IterInv, ResultInv
<1>2. QED
  BY <1>1, IterInvariant, PTL

(***************************************************************************)
(* ht_flat_end_it and ht_flat_prev_it give every pair exactly once if      *)
(* there is one in group 0, where the walk ends; after a turn, pairs of    *)
(* the table and none twice.                                               *)
(***************************************************************************)
THEOREM BackwardIsExact == IterSpec => []BackwardWalkIsExactToGroup0
<1>1. IterInv => BackwardWalkIsExactToGroup0
  <2>1. SUFFICES ASSUME IterInv, walk.op = "prev", IsValidGroup(0)
                 PROVE  WalkIsExact
    BY DEF BackwardWalkIsExactToGroup0
  <2>2. UsedSlots # {}
    BY <2>1, ValidIsUsed DEF IsValidGroup
  <2>3. BackwardGoes(walk)
    BY <2>1, <2>2 DEF IterInv, BackwardInv
  <2>4. \A s \in UsedSlots : s[1] = 0 \/ s[1] > 0
    BY UsedParts DEF Groups
  <2>5. Passed(-1, 0, {}) = UsedSlots
    BY <2>4 DEF Passed, IsPassed
  <2>6. \A d, g, mask : Passed(d, g, mask) \subseteq UsedSlots
    BY DEF Passed
  <2>7. CASE iterator.iter_state
    BY <2>3, <2>5, <2>6, <2>7 DEF BackwardGoes, Progress, WalkIsExact
  <2>8. CASE ~iterator.iter_state
    BY <2>1, <2>3, <2>8 DEF BackwardGoes, WalkIsExact
  <2>9. QED
    BY <2>7, <2>8
<1>2. QED
  BY <1>1, IterInvariant, PTL

=============================================================================
