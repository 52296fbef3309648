------------------------------- MODULE Words -------------------------------
(***************************************************************************)
(* Powers of two and the bitwise operators of C on numbers of any width.   *)
(* The operators are recursive functions: the last bit of the result comes *)
(* from the last bits of the operands, the others from their halves.       *)
(***************************************************************************)
EXTENDS Integers

(* 2 to the power of n. *)
Two[n \in Nat] == IF n = 0 THEN 1 ELSE 2 * Two[n - 1]

(* The numbers without an odd divisor but 1. *)
IsPowerOfTwo(n) ==
  n > 0 /\ \A d, q \in 1 .. n : n = d * q => d = 1 \/ d % 2 = 0

(***************************************************************************)
(* NextPowerOfTwo is what the bit folding of _get_next_power_of_two yields *)
(* as long as it does not overflow.                                        *)
(***************************************************************************)
NextPowerOfTwo(n) ==
  CHOOSE m \in n .. 2 * n : IsPowerOfTwo(m) /\ \A l \in n .. m - 1 : ~IsPowerOfTwo(l)

And[a \in Nat] ==
  [b \in Nat |-> IF a = 0 THEN 0
                 ELSE 2 * And[a \div 2][b \div 2] + (a % 2) * (b % 2)]

Or[a \in Nat] ==
  [b \in Nat |-> IF a = 0 THEN b
                 ELSE 2 * Or[a \div 2][b \div 2] + (IF a % 2 = 1 THEN 1 ELSE b % 2)]

Xor[a \in Nat] ==
  [b \in Nat |-> IF a = 0 THEN b ELSE 2 * Xor[a \div 2][b \div 2] + ((a + b) % 2)]

a & b  == And[a][b]
a | b  == Or[a][b]
a ^^ b == Xor[a][b]

=============================================================================
