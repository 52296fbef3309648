------------------------------- MODULE MCFlat -------------------------------
(***************************************************************************)
(* Small instances of FlatHashtable.  The keys of a class share their      *)
(* hash and every key has the same tag: class A starts in group 0, class B *)
(* in group StartB, modulo the number of groups.                           *)
(***************************************************************************)
EXTENDS FlatHashtable, TLC

CONSTANTS KeysA, KeysB, StartB

MCKeys == KeysA \cup KeysB
MCHash == [k \in MCKeys |-> IF k \in KeysA THEN 5 ELSE StartB * 128 + 5]
MCSymmetry == Permutations(KeysA) \cup Permutations(KeysB) \cup Permutations(Entries)

=============================================================================
