--------------------------- MODULE MCFlatIterator ---------------------------
(***************************************************************************)
(* Small instances of FlatIterator, with the hashes of MCFlat: class A     *)
(* starts in group 0, class B in group StartB.                             *)
(***************************************************************************)
EXTENDS FlatIterator, TLC

CONSTANTS KeysA, KeysB, StartB

MCKeys == KeysA \cup KeysB
MCHash == [k \in MCKeys |-> IF k \in KeysA THEN 5 ELSE StartB * 128 + 5]
MCSymmetry == Permutations(KeysA) \cup Permutations(KeysB) \cup Permutations(Entries)

=============================================================================
