------------------------------ MODULE HashMap ------------------------------
(***************************************************************************)
(* What a table promises its client, whatever happens to its memory: a     *)
(* dictionary.  README.md (src) lines 33-63 describe the operations.       *)
(* Error codes are not part of the promise; they report on the memory of   *)
(* the table, which this specification does not have.                      *)
(***************************************************************************)
CONSTANTS Keys, Entries, NoEntry

VARIABLES
  map,   \* the entry of every key, or NoEntry
  res    \* the key of the last lookup or insertion, and what it was told, or NoEntry

vars == <<map, res>>

EmptyMap == [k \in Keys |-> NoEntry]

Init == map = EmptyMap /\ res = NoEntry

(* A lookup of k answers with the entry of k, or says there is none. *)
Search(k) == res' = <<k, map[k]>> /\ UNCHANGED map

(* An insertion leaves an entry that is already there alone, and says so. *)
Insert(k, e) ==
  /\ res' = <<k, map[k] # NoEntry>>
  /\ map' = IF map[k] = NoEntry THEN [map EXCEPT ![k] = e] ELSE map

Emplace(k, e) == map' = [map EXCEPT ![k] = e] /\ res' = NoEntry

Delete(k) == map' = [map EXCEPT ![k] = NoEntry] /\ res' = NoEntry

(* The table is created or freed, or a call changes nothing but its codes. *)
Clear == map' = EmptyMap /\ res' = NoEntry
Other == UNCHANGED map /\ res' = NoEntry

Next ==
  \/ \E k \in Keys : Search(k) \/ Delete(k)
  \/ \E k \in Keys, e \in Entries : Insert(k, e) \/ Emplace(k, e)
  \/ Clear
  \/ Other

Spec == Init /\ [][Next]_vars

=============================================================================
