------------------------------- MODULE MCNode -------------------------------
(***************************************************************************)
(* Small instances of NodeHashtable.  The keys of a class share their      *)
(* hash and every key has the same tag: class A starts in group 3, class B *)
(* in group 1, modulo the number of groups, so that all of them collide in *)
(* a table of two.  Twin is a second object with the key of First, which   *)
(* is in class A; every other key has one object.                          *)
(***************************************************************************)
EXTENDS NodeHashtable, TLC

CONSTANTS OthersA, OthersB, First, Twin

MCKeys    == {First} \cup OthersA \cup OthersB
MCObjects == MCKeys \cup {Twin}
MCKeyOf   == [o \in MCObjects |-> IF o = Twin THEN First ELSE o]
MCHash    == [k \in MCKeys |-> IF k \in OthersB THEN 128 + 5 ELSE 3 * 128 + 5]

MCSymmetry == Permutations(OthersA) \cup Permutations(OthersB)

=============================================================================
