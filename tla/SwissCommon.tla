---------------------------- MODULE SwissCommon ----------------------------
(***************************************************************************)
(* The definitions both tables share: control bytes, group masks, resize   *)
(* thresholds and the probe sequence (sparse_hashtable_common.h and the    *)
(* loop heads of the two .c files).                                        *)
(*                                                                         *)
(* A 16-bit mask is the set of its set bits, a subset of Positions; the    *)
(* module BitTricks checks the bit-level code against this view.           *)
(***************************************************************************)
EXTENDS Words, FiniteSets

CONSTANTS
  Keys,        \* the keys a client may pass, told apart by comparison only
  Hash,        \* the hash of every key: H1 is Hash >> 7, H2 the low 7 bits
  GROUP_SIZE,  \* control bytes compared by one SSE instruction (16)
  UPPER_DIV    \* UPPER_LIMIT leaves 1/UPPER_DIV of the slots free (8)

ASSUME CommonAssumption ==
  /\ Hash \in [Keys -> Nat]
  /\ GROUP_SIZE \in Nat \ {0} /\ IsPowerOfTwo(GROUP_SIZE)
  /\ UPPER_DIV \in Nat \ {0}

(***************************************************************************)
(* Control bytes.  A slot in use holds the 7 bits H2 of its key.           *)
(***************************************************************************)
ENTRY_DELETED == 128
ENTRY_EMPTY   == 255
HIGH_BIT_MASK == 128
Tags          == 0 .. 127
Ctrl          == Tags \cup {ENTRY_DELETED, ENTRY_EMPTY}

Positions == 0 .. (GROUP_SIZE - 1)

(* Fault: a tag of 8 bits (GROUP_H2_MASK 0xff). *)
H2OfEightBits(k) == Hash[k] % 256

H1(k) == Hash[k] \div 128
H2(k) == Hash[k] % 128

(***************************************************************************)
(* Group masks.  group is the function of the GROUP_SIZE control bytes.    *)
(***************************************************************************)
EqMask(group, ctrl) == {p \in Positions : group[p] = ctrl}
AndMask(group)      == {p \in Positions : group[p] >= HIGH_BIT_MASK}
ValidMask(group)    == Positions \ AndMask(group)

HasEmpty(group) == EqMask(group, ENTRY_EMPTY) # {}

(* p is what _get_first_set_bit_pos returns for mask. *)
IsFirstSetBit(p, mask) == p \in mask /\ \A q \in mask : p <= q

(***************************************************************************)
(* Resize thresholds, for a table of x slots.                              *)
(***************************************************************************)
(* Fault: APPROX_70_PERCENT as lower limit. *)
LowerLimit70(x)   == (x * 717) \div 1024

UPPER_LIMIT(x) == x - (x \div UPPER_DIV)
LOWER_LIMIT(x) == (x * 409) \div 1024

(* The groups of a table that is made for a hint of this many slots. *)
InitialGroups(hint) ==
  IF hint > 2 * GROUP_SIZE THEN NextPowerOfTwo(hint) \div GROUP_SIZE ELSE 2

=============================================================================
