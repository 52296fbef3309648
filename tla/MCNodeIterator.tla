--------------------------- MODULE MCNodeIterator ---------------------------
(***************************************************************************)
(* Small instances of NodeIterator.  One object for every key; class A     *)
(* starts in group 0 and class B in group StartB, modulo the number of     *)
(* groups.                                                                 *)
(***************************************************************************)
EXTENDS NodeIterator, TLC

CONSTANTS KeysA, KeysB, StartB

MCKeys     == KeysA \cup KeysB
MCKeyOf    == [k \in MCKeys |-> k]
MCHash     == [k \in MCKeys |-> IF k \in KeysA THEN 5 ELSE StartB * 128 + 5]
MCSymmetry == Permutations(KeysA) \cup Permutations(KeysB)

=============================================================================
