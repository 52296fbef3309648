--------------------------- MODULE HashFunctions ---------------------------
(***************************************************************************)
(* What the hash functions of hash_function.h read.  A table finds a key   *)
(* again only if equal keys have equal hashes, so a hash must depend on    *)
(* the bytes of the key alone; and a byte that is not read makes keys      *)
(* collide.  The functions cut a key into words by rules that change with  *)
(* its length: the words, as sets of offsets from the start of the key,    *)
(* are modelled here, what is computed from them is not.                   *)
(*                                                                         *)
(* s is the offset that a pointer stands for, len a number of bytes.       *)
(***************************************************************************)
EXTENDS Inputs

CONSTANTS
  LONGEST,   \* the longest key the properties look at
  K0         \* the constant k0, a number of 64 bits, larger than any key

(* hash_murmur3_32 counts the bytes of its blocks in an int. *)
ASSUME HashAssumption ==
  /\ LONGEST \in Nat
  /\ LONGEST <= 2147483647
  /\ K0 \in Nat
  /\ K0 > LONGEST

-----------------------------------------------------------------------------
Bytes(s, len) == s .. (s + len - 1)

Fetch32(s) == Bytes(s, 4)
Fetch64(s) == Bytes(s, 8)

getblock32(s, i) == Bytes(s + 4 * i, 4)

WeakHashLen32WithSeedsUp(s) ==
  Fetch64(s) \cup Fetch64(s + 8) \cup Fetch64(s + 16) \cup Fetch64(s + 24)

-----------------------------------------------------------------------------
(* CityHash for keys of 32-bit words, by length. *)
Hash32Len0to4(s, len) == Bytes(s, len)

(* (len >> 1) & 4 is 4 from 8 to 15, and 0 below. *)
Hash32Len5to12(s, len) ==
  Fetch32(s) \cup Fetch32(s + len - 4) \cup Fetch32(s + 4 * ((len \div 8) % 2))

Hash32Len13to24(s, len) ==
  LET half == len \div 2 IN
  Fetch32(s + half - 4) \cup Fetch32(s + 4) \cup Fetch32(s + len - 8)
    \cup Fetch32(s + half) \cup Fetch32(s) \cup Fetch32(s + len - 4)

(* Five words from the end, then chunks of 20 bytes from the start. *)
hash_cityHash32(len) ==
  IF len <= 4 THEN Hash32Len0to4(0, len)
  ELSE IF len <= 12 THEN Hash32Len5to12(0, len)
  ELSE IF len <= 24 THEN Hash32Len13to24(0, len)
  ELSE LET iters == (len - 1) \div 20 IN
       (UNION {Fetch32(len - 4 * i) : i \in 1 .. 5})
         \cup (UNION {UNION {Fetch32(20 * j + 4 * i) : i \in 0 .. 4} : j \in 0 .. (iters - 1)})

-----------------------------------------------------------------------------
(* Fault: the last eight bytes are taken of seven, too. *)
HashLen0to16EightOfSeven(s, len) ==
  IF len >= 7 THEN Fetch64(s) \cup Fetch64(s + len - 8)
  ELSE IF len >= 4 THEN Fetch32(s) \cup Fetch32(s + len - 4)
  ELSE IF len > 0 THEN {s, s + (len \div 2), s + len - 1}
  ELSE {}

HashLen0to16(s, len) ==
  IF len >= 8 THEN Fetch64(s) \cup Fetch64(s + len - 8)
  ELSE IF len >= 4 THEN Fetch32(s) \cup Fetch32(s + len - 4)
  ELSE IF len > 0 THEN {s, s + (len \div 2), s + len - 1}
  ELSE {}

HashLen17to32(s, len) ==
  Fetch64(s) \cup Fetch64(s + 8) \cup Fetch64(s + len - 8) \cup Fetch64(s + len - 16)

HashLen33to64(s, len) ==
  Fetch64(s) \cup Fetch64(s + 8) \cup Fetch64(s + len - 24) \cup Fetch64(s + len - 32)
    \cup Fetch64(s + 16) \cup Fetch64(s + 24) \cup Fetch64(s + len - 8) \cup Fetch64(s + len - 16)

(* One turn of the loops over 64 bytes. *)
Chunk64(s) ==
  Fetch64(s + 8) \cup Fetch64(s + 48) \cup Fetch64(s + 40) \cup Fetch64(s + 16)
    \cup WeakHashLen32WithSeedsUp(s) \cup WeakHashLen32WithSeedsUp(s + 32)

(* 64 bytes from the end, then chunks from the start, as many as lie before the last byte. *)
hash_cityHash64(len) ==
  IF len <= 16 THEN HashLen0to16(0, len)
  ELSE IF len <= 32 THEN HashLen17to32(0, len)
  ELSE IF len <= 64 THEN HashLen33to64(0, len)
  ELSE (UNION {Fetch64(len - o) : o \in {40, 16, 56, 48, 24}})
         \cup WeakHashLen32WithSeedsUp(len - 64) \cup WeakHashLen32WithSeedsUp(len - 32)
         \cup Fetch64(0)
         \cup (UNION {Chunk64(64 * j) : j \in 0 .. ((len - 1) \div 64 - 1)})

(* The seeds are mixed with the hash of the key. *)
hash_CityHash64WithSeeds(len) == hash_cityHash64(len)
hash_CityHash64WithSeed(len)  == hash_CityHash64WithSeeds(len)

-----------------------------------------------------------------------------
(* l is what remains after the last 16 bytes; the loop goes on as long as it is positive. *)
CityMurmur(s, len) ==
  IF len <= 16
  THEN HashLen0to16(s, len) \cup (IF len >= 8 THEN Fetch64(s) ELSE {})
  ELSE Fetch64(s + len - 8) \cup Fetch64(s + len - 16)
         \cup (UNION {Fetch64(s + 16 * j) \cup Fetch64(s + 16 * j + 8) : j \in 0 .. ((len - 17) \div 16)})

(* Fault: what is left is hashed in whole chunks of 32 bytes only. *)
EndChunksWhole(s, rest) ==
  UNION {Fetch64(s + rest - 32 * t + 16) \cup Fetch64(s + rest - 32 * t)
           \cup WeakHashLen32WithSeedsUp(s + rest - 32 * t) : t \in 1 .. (rest \div 32)}

(* Chunks of 32 bytes from the end, the last one possibly from before s. *)
EndChunks(s, rest) ==
  UNION {Fetch64(s + rest - 32 * t + 16) \cup Fetch64(s + rest - 32 * t)
           \cup WeakHashLen32WithSeedsUp(s + rest - 32 * t) : t \in 1 .. ((rest + 31) \div 32)}

(* From 128 bytes on: two chunks of 64 in every turn, then the tail. *)
hash_CityHash128WithSeed(s, len) ==
  IF len < 128 THEN CityMurmur(s, len)
  ELSE Fetch64(s) \cup Fetch64(s + 8) \cup Fetch64(s + 88)
         \cup (UNION {Chunk64(s + 64 * j) : j \in 0 .. (2 * (len \div 128) - 1)})
         \cup EndChunks(s + 128 * (len \div 128), len % 128)

(* The second word of the seed is fetched from s + 8 + k0. *)
hash_CityHash128(len) ==
  IF len >= 16
  THEN Fetch64(0) \cup Fetch64(8 + K0) \cup hash_CityHash128WithSeed(16, len - 16)
  ELSE hash_CityHash128WithSeed(0, len)

-----------------------------------------------------------------------------
(* Blocks of four bytes, counted back from the end of the last one, and up to three more. *)
hash_murmur3_32(len) ==
  LET nblocks == len \div 4 IN
  (UNION {getblock32(nblocks * 4, i) : i \in (-nblocks) .. (-1)}) \cup Bytes(nblocks * 4, len % 4)

(* Words of eight bytes, and up to seven bytes more. *)
hash_MurmurHash64A(len) ==
  (UNION {Bytes(8 * j, 8) : j \in 0 .. (len \div 8 - 1)}) \cup Bytes(8 * (len \div 8), len % 8)

(* The same, but four of the bytes that are left are read at once. *)
siphash24(len) ==
  LET in == 8 * (len \div 8)
      src_sz == len % 8 IN
  (UNION {Bytes(8 * j, 8) : j \in 0 .. (len \div 8 - 1)})
    \cup (IF src_sz >= 4 THEN Fetch32(in) \cup Bytes(in + 4, src_sz - 4) ELSE Bytes(in, src_sz))

-----------------------------------------------------------------------------
(***************************************************************************)
(* The flat table's own routines on keys, as a build without the macros    *)
(* for a fixed type of keys has them: a word for the common sizes, and     *)
(* hash_MurmurOAAT64, memcmp and memcpy for the others.                    *)
(***************************************************************************)
WordOrBytes(key_sz) ==
  CASE key_sz = 4 -> Fetch32(0)
    [] key_sz = 8 -> Fetch64(0)
    [] OTHER      -> Bytes(0, key_sz)

FlatHasher(hash_sz) == WordOrBytes(hash_sz)
CompKey(key_sz)     == WordOrBytes(key_sz)
CopyKey(key_sz)     == WordOrBytes(key_sz)

(* The functions, by name; the ones for integers and single bytes are in HashMixing. *)
BytesRead(len) ==
  [flat_hasher         |-> FlatHasher(len),
   comp_key            |-> CompKey(len),
   copy_key            |-> CopyKey(len),
   cityHash32          |-> hash_cityHash32(len),
   CityHash64WithSeed  |-> hash_CityHash64WithSeed(len),
   CityHash128WithSeed |-> hash_CityHash128WithSeed(0, len),
   murmur3_32          |-> hash_murmur3_32(len),
   MurmurHash64A       |-> hash_MurmurHash64A(len),
   siphash24           |-> siphash24(len)]

HashNames == DOMAIN BytesRead(0)

(***************************************************************************)
(* Every byte of a key has a say in its hash, whatever the key's length,   *)
(* and is copied and compared.  The exception is hash_CityHash128, which   *)
(* nothing calls: from 16 bytes on it never reads the bytes 8 to 15,       *)
(* although hash_function.h:1275 says "The key to be hashed".              *)
(***************************************************************************)
EveryByteIsRead ==
  x <= LONGEST =>
    /\ \A f \in HashNames : Bytes(0, x) \subseteq BytesRead(x)[f]
    /\ Bytes(0, x) \ hash_CityHash128(x) = IF x < 16 THEN {} ELSE Bytes(8, 8)

(***************************************************************************)
(* No hash, and no comparison, depends on anything but the key, so that    *)
(* keys that compare equal have equal hashes, wherever they are; the one   *)
(* exception is the seed of hash_CityHash128.                              *)
(***************************************************************************)
OnlyTheKeyIsRead ==
  x <= LONGEST =>
    /\ \A f \in HashNames : BytesRead(x)[f] \subseteq Bytes(0, x)
    /\ hash_CityHash128(x) \ Bytes(0, x) = IF x < 16 THEN {} ELSE Fetch64(8 + K0)

=============================================================================
