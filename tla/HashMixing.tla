----------------------------- MODULE HashMixing -----------------------------
(***************************************************************************)
(* What the hash functions of hash_function.h for integers and for single  *)
(* bytes compute, on words of WORD bits.  With 32 and with 64 bits they    *)
(* are what the code has for words of that width; for another width every  *)
(* shift is scaled, and every constant reduced to its low bits.  Whether a *)
(* step loses information depends on neither: a word plus or xor a shift   *)
(* of itself, or times an odd number, can be undone.                       *)
(***************************************************************************)
EXTENDS Inputs, Words, FiniteSets

CONSTANTS
  WORD,   \* bits of a word in the model, of 32 and 64 in the code
  BYTE    \* bits of a byte in the model, of 8 in the code

ASSUME MixingAssumption ==
  /\ WORD \in Nat \ {0, 1}
  /\ BYTE \in 1 .. WORD

WordValues == 0 .. (Two[WORD] - 1)
ByteValues == 0 .. (Two[BYTE] - 1)

Wrap(n) == n % Two[WORD]

(* The constants, in pieces of 16 bits; words of 16 bits have the lowest one. *)
Word32(high, low)    == IF WORD <= 16 THEN Wrap(low) ELSE Wrap(65536 * high + low)
Word64(a, b, c, low) == Word32(65536 * (65536 * a + b) + c, low)

(* A shift by n of the bits of the code. *)
Scaled(n, bits) == IF n * WORD < bits THEN 1 ELSE (n * WORD) \div bits

ShiftLeft(h, n, bits)  == Wrap(h * Two[Scaled(n, bits)])
ShiftRight(h, n, bits) == h \div Two[Scaled(n, bits)]
Times(h, m)            == Wrap(h * m)
Complement(h)          == Two[WORD] - 1 - h

(* A rotation to the left: what leaves the word comes in again on the right. *)
Rotl(h, n, bits) ==
  Wrap(h * Two[Scaled(n, bits)]) + h \div Two[WORD - Scaled(n, bits)]

(* The two steps that most functions are made of. *)
XorShiftRight(h, n, bits) == h ^^ ShiftRight(h, n, bits)
PlusShiftLeft(h, n, bits) == Wrap(h + ShiftLeft(h, n, bits))

-----------------------------------------------------------------------------
fmix32(h) ==
  LET a == Times(XorShiftRight(h, 16, 32), Word32(\h85EB, \hCA6B))
      b == Times(XorShiftRight(a, 13, 32), Word32(\hC2B2, \hAE35))
  IN XorShiftRight(b, 16, 32)

(* The flat table's hash of a key of eight bytes. *)
fmix64(k) ==
  LET a == Times(XorShiftRight(k, 33, 64), Word64(\hFF51, \hAFD7, \hED55, \h8CCD))
      b == Times(XorShiftRight(a, 33, 64), Word64(\hC4CE, \hB9FE, \h1A85, \hEC53))
  IN XorShiftRight(b, 33, 64)

ShiftMix(val) == XorShiftRight(val, 47, 64)

hash_jenkins_integer(key) ==
  LET a == Wrap(Wrap(key + Word32(\h7ED5, \h5D16)) + ShiftLeft(key, 12, 32))
      b == (a ^^ Word32(\hC761, \hC23C)) ^^ ShiftRight(a, 19, 32)
      c == Wrap(Wrap(b + Word32(\h1656, \h67B1)) + ShiftLeft(b, 5, 32))
      d == Wrap(c + Word32(\hD3A2, \h646C)) ^^ ShiftLeft(c, 9, 32)
      e == Wrap(Wrap(d + Word32(\hFD70, \h46C5)) + ShiftLeft(d, 3, 32))
  IN (e ^^ Word32(\hB55A, \h4F09)) ^^ ShiftRight(e, 16, 32)

hash_thomas_wang_integer(key) ==
  LET a == (key ^^ Wrap(61)) ^^ ShiftRight(key, 16, 32)
      b == XorShiftRight(PlusShiftLeft(a, 3, 32), 4, 32)
  IN XorShiftRight(Times(b, Word32(\h27D4, \hEB2D)), 15, 32)

hash_32shift(key) ==
  LET a == XorShiftRight(Wrap(Complement(key) + ShiftLeft(key, 15, 32)), 12, 32)
      b == XorShiftRight(PlusShiftLeft(a, 2, 32), 4, 32)
  IN XorShiftRight(Times(b, 2057), 16, 32)

(* Fault: the second multiplication takes the key it began with. *)
hash_32simpStartsAgain(key) ==
  LET a == Times(XorShiftRight(key, 16, 32), Word32(\h45D, \h9F3B))
      b == Times(ShiftRight(a, 16, 32) ^^ key, Word32(\h45D, \h9F3B))
  IN XorShiftRight(b, 16, 32)

(* The flat table's hash of a key of four bytes. *)
hash_32simp(key) ==
  LET a == Times(XorShiftRight(key, 16, 32), Word32(\h45D, \h9F3B))
      b == Times(XorShiftRight(a, 16, 32), Word32(\h45D, \h9F3B))
  IN XorShiftRight(b, 16, 32)

-----------------------------------------------------------------------------
(* One turn of the loops over the bytes of a key. *)
JenkinsByte(hash, c) ==
  XorShiftRight(PlusShiftLeft(Wrap(hash + c), 10, 64), 6, 64)

JenkinsEnd(hash) ==
  PlusShiftLeft(XorShiftRight(PlusShiftLeft(hash, 3, 64), 11, 64), 15, 64)

SdbmByte(hash, c) == Wrap(ShiftLeft(hash, 6, 64) + ShiftLeft(hash, 16, 64) - hash + c)

(* Fault: what is shifted is not taken off, so that the highest bits are lost. *)
Djb2ByteEven(hash, c) == Wrap(ShiftLeft(hash, 5, 64) + c)

(* 31 times hash, where the comment says 33. *)
Djb2Byte(hash, c) == Wrap(ShiftLeft(hash, 5, 64) - hash + c)

(* The flat table's hash of keys of other sizes. *)
MurmurOAAT64Byte(hash, c) ==
  XorShiftRight(Times(hash ^^ c, Word64(\h5BD1, \hE995, \h5BD1, \hE995)), 47, 64)

FNV1aByte(hv, c) ==
  LET h == hv ^^ c IN
  Wrap(h + ShiftLeft(h, 1, 32) + ShiftLeft(h, 4, 32) + ShiftLeft(h, 7, 32)
         + ShiftLeft(h, 8, 32) + ShiftLeft(h, 24, 32))

-----------------------------------------------------------------------------
(* One turn of the loops over the words of a key, and of CityHash's over its ends. *)
c1 == Word32(\hCC9E, \h2D51)
c2 == Word32(\h1B87, \h3593)

mur(a, h) ==
  LET b == Times(Rotl(Times(a, c1), 17, 32), c2)
  IN Wrap(Rotl(h ^^ b, 19, 32) * 5 + Word32(\hE654, \h6B64))

Murmur3Tail(hash, k1) == hash ^^ Times(Rotl(Times(k1, c1), 15, 32), c2)

Murmur3Block(hash, k1) ==
  Wrap(Rotl(Murmur3Tail(hash, k1), 13, 32) * 5 + Word32(\hE654, \h6B64))

Murmur3End(hash, len) == fmix32(hash ^^ Wrap(len))

m == Word64(\hC6A4, \hA793, \h5BD1, \hE995)

MurmurHash64ABlock(h, k) ==
  Times(h ^^ Times(XorShiftRight(Times(k, m), 47, 64), m), m)

(* What follows the last of the bytes that are left, if there are any. *)
MurmurHash64ATailEnd(h) == Times(h, m)

MurmurHash64AEnd(h) == XorShiftRight(Times(XorShiftRight(h, 47, 64), m), 47, 64)

(* The byte i of those that are left after the last word of a key. *)
TailByte(h, c, i) == h ^^ (c * Two[i * BYTE])

(* The multiplier is odd in every call. *)
HashLen16(u, v, mul) ==
  LET a == XorShiftRight(Times(u ^^ v, mul), 47, 64)
      b == XorShiftRight(Times(v ^^ a, mul), 47, 64)
  IN Times(b, mul)

Hash128to64(low, high) == HashLen16(low, high, Word64(\h9DDF, \hEA08, \hEB38, \h2D69))

-----------------------------------------------------------------------------
IsOneToOne(f) == Cardinality({f[v] : v \in DOMAIN f}) = Cardinality(DOMAIN f)

(***************************************************************************)
(* Two integer keys never have the same hash: the functions for integers   *)
(* are permutations, so that the flat table's probes start to collide only *)
(* when the hash is reduced to a group.                                    *)
(***************************************************************************)
IntegersNeverCollide ==
  x = 0 =>
    /\ IsOneToOne([key \in WordValues |-> fmix32(key)])
    /\ IsOneToOne([key \in WordValues |-> fmix64(key)])
    /\ IsOneToOne([key \in WordValues |-> ShiftMix(key)])
    /\ IsOneToOne([key \in WordValues |-> hash_jenkins_integer(key)])
    /\ IsOneToOne([key \in WordValues |-> hash_thomas_wang_integer(key)])
    /\ IsOneToOne([key \in WordValues |-> hash_32shift(key)])
    /\ IsOneToOne([key \in WordValues |-> hash_32simp(key)])

(* A step tells the values it reads apart, and keeps apart what was apart before. *)
KeepsApart(Step(_, _), values) ==
  /\ \A h \in WordValues : IsOneToOne([c \in values |-> Step(h, c)])
  /\ \A c \in values : IsOneToOne([h \in WordValues |-> Step(h, c)])

(***************************************************************************)
(* Two keys of the same length that differ in one byte, or in one word of  *)
(* the blocks of Murmur, never have the same hash, wherever that byte or   *)
(* word is: the step that reads it makes the hashes differ, and no later   *)
(* step, nor what follows the loops and the tails, brings them together.   *)
(* mur, of which CityHash for words of 32 bits is made, is such a step as  *)
(* well.  Of what CityHash reduces to one word at its end, only the low    *)
(* half is sure to decide: it is used once, the high half twice.           *)
(***************************************************************************)
OneByteDecides ==
  x = 0 =>
    /\ KeepsApart(LAMBDA h, a : mur(a, h), WordValues)
    /\ KeepsApart(Murmur3Block, WordValues) /\ KeepsApart(Murmur3Tail, WordValues)
    /\ \A len \in WordValues : IsOneToOne([h \in WordValues |-> Murmur3End(h, len)])
    /\ KeepsApart(MurmurHash64ABlock, WordValues)
    /\ \A i \in {j \in 0 .. WORD : (j + 1) * BYTE <= WORD} :
         KeepsApart(LAMBDA h, c : TailByte(h, c, i), ByteValues)
    /\ IsOneToOne([h \in WordValues |-> MurmurHash64ATailEnd(h)])
    /\ IsOneToOne([h \in WordValues |-> MurmurHash64AEnd(h)])
    /\ \A v \in WordValues : IsOneToOne([u \in WordValues |-> Hash128to64(u, v)])
    /\ KeepsApart(JenkinsByte, ByteValues) /\ IsOneToOne([h \in WordValues |-> JenkinsEnd(h)])
    /\ KeepsApart(SdbmByte, ByteValues)
    /\ KeepsApart(Djb2Byte, ByteValues)
    /\ KeepsApart(MurmurOAAT64Byte, ByteValues)
    /\ KeepsApart(FNV1aByte, ByteValues)

=============================================================================
