------------------------------- MODULE Inputs -------------------------------
(***************************************************************************)
(* The inputs of the pure functions: x is a number, a size, a mask or the  *)
(* length of a key, and runs through its values one after the other.       *)
(***************************************************************************)
EXTENDS Integers

CONSTANT LAST   \* the last input

ASSUME InputsAssumption == LAST \in Nat

VARIABLE x

Init == x = 0
Next == x < LAST /\ x' = x + 1

Spec == Init /\ [][Next]_x

=============================================================================
