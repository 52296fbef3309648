----------------------------- MODULE BitTricks -----------------------------
(***************************************************************************)
(* The bit-level helpers of sparse_hashtable_common.h, as the code has     *)
(* them, against what the other modules take them for.                     *)
(***************************************************************************)
EXTENDS Inputs, Words, Sequences

CONSTANTS
  SHIFTS,    \* a size_t has 2^SHIFTS bits (2^6 in the code)
  SMALL,     \* the largest size that is compared with SwissCommon's definition
  Buckets    \* the sizes of a pair that a client may ask for

ASSUME BitAssumption ==
  /\ SHIFTS \in Nat \ {0}
  /\ SMALL \in Nat
  /\ Buckets \subseteq Nat \ {0}

C == INSTANCE SwissCommon
       WITH Keys <- {}, Hash <- <<>>, GROUP_SIZE <- 16, UPPER_DIV <- 8

WIDTH == Two[SHIFTS]

(* The values of size_t and of uint16_t. *)
Sizes  == Two[WIDTH]
Masks  == Two[16]

Negate(y, values) == (values - y) % values

(* The positions of the bits of a 16-bit mask. *)
BitSet(y) == {p \in 0 .. 15 : (y \div Two[p]) % 2 = 1}

-----------------------------------------------------------------------------
(***************************************************************************)
(* _get_next_power_of_two: fold[i] is size after i of the shifts by 1, 2,  *)
(* 4, ... that are shorter than a size_t.                                  *)
(***************************************************************************)
Folded(size) ==
  LET fold[i \in 0 .. SHIFTS] ==
        IF i = 0 THEN size ELSE fold[i - 1] | (fold[i - 1] \div Two[Two[i - 1]])
  IN fold[SHIFTS]

(* Fault: a number that is a power of two already is folded, too. *)
NextPowerAlwaysFolds(size) == (Folded(size) + 1) % Sizes

NextPower(size) ==
  IF (size & ((size - 1) % Sizes)) = 0 THEN size ELSE (Folded(size) + 1) % Sizes

(***************************************************************************)
(* ht_flat_create: the slots for a hint, two groups at least, and the size *)
(* of the block that is allocated for them.                                *)
(***************************************************************************)
MinSlots == 32

Slots(hint) == IF hint > MinSlots THEN NextPower(hint) ELSE MinSlots

(* Fault: the product is a signed number of the same width. *)
BlockSigned(hint, bucket) == (Slots(hint) * bucket) % (Sizes \div 2)

Block(hint, bucket) == (Slots(hint) * bucket) % Sizes

-----------------------------------------------------------------------------
(***************************************************************************)
(* _get_first_set_bit_pos without the builtin: the product of the magic    *)
(* number and of the lowest set bit 2^p is a shift, and x >> 27 leaves its *)
(* five highest bits of 32.                                                *)
(***************************************************************************)
Magic == \h05F66A47

Decode == <<0, 1, 2, 26, 23, 3, 15, 27, 24, 21, 19, 4, 12, 16, 28, 6,
            31, 25, 22, 14, 20, 18, 11, 5, 30, 13, 17, 10, 29, 9, 8, 7>>

LowestBit(y) == y & Negate(y, Masks)

(* Fault: x >> 28. *)
HighFour(power) == (Magic \div (Two[28] \div power)) % 16

HighFive(power) == (Magic \div (Two[27] \div power)) % 32

FirstSetBitPos(y) == Decode[HighFive(LowestBit(y)) + 1]

(***************************************************************************)
(* _reverse_bits16 swaps neighbours, pairs, nibbles and bytes.             *)
(***************************************************************************)
(* Fault: the upper parts are kept where they are. *)
SwapLosesHigh(y, high, low, n) == (y & high) | ((y & low) * Two[n])

Swap(y, high, low, n) == ((y & high) \div Two[n]) | ((y & low) * Two[n])

ReverseBits16(y) ==
  Swap(Swap(Swap(Swap(y, 43690, 21845, 1), 52428, 13107, 2), 61680, 3855, 4), 65280, 255, 8)

-----------------------------------------------------------------------------
(* The least power of two that is not below n. *)
LeastPower(n) == CHOOSE m \in {Two[k] : k \in 0 .. WIDTH} : m >= n /\ m < 2 * n

(***************************************************************************)
(* The bit folding finds the next power of two, the one that SwissCommon   *)
(* takes it for, and 0 beyond the largest one: then ht_flat_create would   *)
(* make a table without groups.                                            *)
(***************************************************************************)
FoldingRoundsUp ==
  x \in 1 .. Sizes - 1 =>
    /\ NextPower(x) = LeastPower(x) % Sizes
    /\ x <= SMALL => LeastPower(x) = NextPowerOfTwo(x)

(***************************************************************************)
(* A hint whose pairs take no more than half of the address space gets a   *)
(* block with room for every slot, and a slot for every pair.  Nothing     *)
(* checks the product: with more, the block may be smaller than the table. *)
(***************************************************************************)
BlockHoldsTable ==
  \A bucket \in Buckets :
    /\ x \in 1 .. Sizes - 1 /\ 2 * x * bucket <= Sizes
    /\ MinSlots * bucket < Sizes
    => Slots(x) >= x /\ Block(x, bucket) = Slots(x) * bucket

(* The lookup by magic number finds the first element of the mask. *)
DecodeFindsFirst ==
  x \in 1 .. Masks - 1 => C!IsFirstSetBit(FirstSetBitPos(x), BitSet(x))

(* The reversal that big endian machines need turns positions round. *)
ReversalIsReflection ==
  x \in 0 .. Masks - 1 => BitSet(ReverseBits16(x)) = {15 - p : p \in BitSet(x)}

=============================================================================
