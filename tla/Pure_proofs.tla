----------------------------- MODULE Pure_proofs -----------------------------
(***************************************************************************)
(* Theorems about the pure functions: the bytes that the hash functions    *)
(* read of a key of any length; that no integer hash and no change of one  *)
(* byte of a key loses what tells two keys apart, for words of any width;  *)
(* the bit folding that rounds a size up, for a size_t of any width; and   *)
(* the two bit tricks on masks of 16 bits.                                 *)
(***************************************************************************)
EXTENDS BitTricks, HashFunctions, HashMixing, Words_proofs

(* Quotients and remainders. *)
LEMMA Division ==
  ASSUME NEW n \in Int, NEW d \in {4, 8, 16, 20, 32, 64, 128}
  PROVE  /\ n \div d \in Int /\ n % d \in 0 .. (d - 1) /\ n = d * (n \div d) + (n % d)
         /\ n >= 0 => n \div d >= 0
OBVIOUS

LEMMA WordOrBytesIsWhole ==
  ASSUME NEW len \in Nat
  PROVE  WordOrBytes(len) = Bytes(0, len)
BY DEF WordOrBytes, Bytes, Fetch32, Fetch64

-----------------------------------------------------------------------------
(***************************************************************************)
(* The pieces of CityHash.                                                 *)
(***************************************************************************)
LEMMA WeakIsWhole ==
  ASSUME NEW s \in Int
  PROVE  WeakHashLen32WithSeedsUp(s) = Bytes(s, 32)
BY DEF WeakHashLen32WithSeedsUp, Fetch64, Bytes

LEMMA ChunkIsWhole ==
  ASSUME NEW s \in Int
  PROVE  Chunk64(s) = Bytes(s, 64)
<1>1. /\ WeakHashLen32WithSeedsUp(s) = Bytes(s, 32)
      /\ WeakHashLen32WithSeedsUp(s + 32) = Bytes(s + 32, 32)
  BY WeakIsWhole
<1>2. QED
  BY <1>1 DEF Chunk64, Fetch64, Bytes

(* The chunks of 64 bytes that follow one another. *)
LEMMA ChunksAreWhole ==
  ASSUME NEW s \in Int, NEW n \in Nat
  PROVE  UNION {Chunk64(s + 64 * j) : j \in 0 .. (n - 1)} = Bytes(s, 64 * n)
<1> DEFINE Chunk(j) == Chunk64(s + 64 * j)
<1>1. \A j \in Int : Chunk(j) = Bytes(s + 64 * j, 64)
  BY ChunkIsWhole
<1>2. \A b : b \in UNION {Chunk(j) : j \in 0 .. (n - 1)} <=> \E j \in 0 .. (n - 1) : b \in Chunk(j)
  OBVIOUS
<1> HIDE DEF Chunk
<1>3. ASSUME NEW j \in 0 .. (n - 1), NEW b \in Chunk(j)
      PROVE  b \in Bytes(s, 64 * n)
  <2>1. j \in Int /\ 0 <= j /\ j <= n - 1 /\ b \in Bytes(s + 64 * j, 64)
    BY <1>1, <1>3
  <2>2. QED
    BY <2>1 DEF Bytes
<1>4. ASSUME NEW b \in Bytes(s, 64 * n)
      PROVE  \E j \in 0 .. (n - 1) : b \in Chunk(j)
  <2>1. b \in Int /\ s <= b /\ b < s + 64 * n
    BY DEF Bytes
  <2>2. PICK j \in Int : j = (b - s) \div 64
    BY <2>1, Division
  <2>3. j >= 0 /\ 64 * j <= b - s /\ b - s < 64 * j + 64
    BY <2>1, <2>2, Division
  <2>4. j \in 0 .. (n - 1) /\ b \in Bytes(s + 64 * j, 64)
    BY <2>1, <2>3 DEF Bytes
  <2>5. QED
    BY <1>1, <2>4
<1>5. UNION {Chunk(j) : j \in 0 .. (n - 1)} = Bytes(s, 64 * n)
  BY <1>2, <1>3, <1>4
<1>6. QED
  BY <1>5 DEF Chunk

(* The chunks of 32 bytes that a tail is cut into, from its end. *)
LEMMA EndChunksAreWhole ==
  ASSUME NEW s \in Int, NEW rest \in Nat, NEW n \in Nat, n = (rest + 31) \div 32
  PROVE  EndChunks(s, rest) = Bytes(s + rest - 32 * n, 32 * n)
<1> DEFINE Chunk(t) == Fetch64(s + rest - 32 * t + 16) \cup Fetch64(s + rest - 32 * t)
                     \cup WeakHashLen32WithSeedsUp(s + rest - 32 * t)
<1>1. \A t \in Int : Chunk(t) = Bytes(s + rest - 32 * t, 32)
  <2>1. \A u \in Int : Fetch64(u + 16) \cup Fetch64(u) \cup Bytes(u, 32) = Bytes(u, 32)
    BY DEF Fetch64, Bytes
  <2>2. \A t \in Int : s + rest - 32 * t \in Int
    OBVIOUS
  <2>3. QED
    BY <2>1, <2>2, WeakIsWhole
<1>2. \A b : b \in UNION {Chunk(t) : t \in 1 .. n} <=> \E t \in 1 .. n : b \in Chunk(t)
  OBVIOUS
<1>3. EndChunks(s, rest) = UNION {Chunk(t) : t \in 1 .. n}
  BY DEF EndChunks
<1> HIDE DEF Chunk
<1>4. ASSUME NEW t \in 1 .. n, NEW b \in Chunk(t)
      PROVE  b \in Bytes(s + rest - 32 * n, 32 * n)
  <2>1. t \in Int /\ 1 <= t /\ t <= n /\ b \in Bytes(s + rest - 32 * t, 32)
    BY <1>1, <1>4
  <2>2. QED
    BY <2>1 DEF Bytes
<1>5. ASSUME NEW b \in Bytes(s + rest - 32 * n, 32 * n)
      PROVE  \E t \in 1 .. n : b \in Chunk(t)
  <2>1. b \in Int /\ s + rest - 32 * n <= b /\ b < s + rest
    BY DEF Bytes
  <2> DEFINE r == s + rest - 1 - b
  <2>2. PICK q \in Int : q = r \div 32
    BY <2>1, Division
  <2>3. q >= 0 /\ 32 * q <= r /\ r < 32 * q + 32
    BY <2>1, <2>2, Division
  <2>4. q + 1 \in 1 .. n /\ b \in Bytes(s + rest - 32 * (q + 1), 32)
    BY <2>1, <2>3 DEF Bytes
  <2>5. b \in Chunk(q + 1)
    BY <1>1, <2>4
  <2>6. QED
    BY <2>4, <2>5
<1>6. QED
  BY <1>2, <1>3, <1>4, <1>5

-----------------------------------------------------------------------------
(***************************************************************************)
(* The functions, one by one.                                              *)
(***************************************************************************)
LEMMA CityHash32IsWhole ==
  ASSUME NEW len \in Nat
  PROVE  hash_cityHash32(len) = Bytes(0, len)
<1>1. CASE len <= 4
  BY <1>1 DEF hash_cityHash32, Hash32Len0to4
<1>2. CASE 4 < len /\ len <= 12
  <2>1. hash_cityHash32(len) = Fetch32(0) \cup Fetch32(len - 4) \cup Fetch32(4 * ((len \div 8) % 2))
    BY <1>2 DEF hash_cityHash32, Hash32Len5to12
  <2>2. 4 * ((len \div 8) % 2) = IF len < 8 THEN 0 ELSE 4
    BY <1>2
  <2>3. QED
    BY <1>2, <2>1, <2>2 DEF Fetch32, Bytes
<1>3. CASE 12 < len /\ len <= 24
  <2>1. PICK half \in Nat : half = len \div 2
    OBVIOUS
  <2>2. hash_cityHash32(len) =
          Fetch32(half - 4) \cup Fetch32(4) \cup Fetch32(len - 8)
            \cup Fetch32(half) \cup Fetch32(0) \cup Fetch32(len - 4)
    BY <1>3, <2>1 DEF hash_cityHash32, Hash32Len13to24
  <2>3. len = 2 * half \/ len = 2 * half + 1
    BY <2>1
  <2>4. QED
    BY <1>3, <2>2, <2>3 DEF Fetch32, Bytes
<1>4. CASE 24 < len
  <2>1. PICK iters \in Nat : iters = (len - 1) \div 20
    BY <1>4
  <2>2. 20 * iters <= len - 1 /\ len - 1 < 20 * iters + 20
    BY <2>1, Division
  <2> DEFINE Chunk(j) == UNION {Fetch32(20 * j + 4 * i) : i \in 0 .. 4}
  <2> DEFINE Last == UNION {Fetch32(len - 4 * i) : i \in 1 .. 5}
  <2>3. hash_cityHash32(len) = Last \cup (UNION {Chunk(j) : j \in 0 .. (iters - 1)})
    <3>1. hash_cityHash32(len) = Last \cup (UNION {Chunk(j) : j \in 0 .. ((len - 1) \div 20 - 1)})
      <4>1. ~(len <= 4) /\ ~(len <= 12) /\ ~(len <= 24)
        BY <1>4
      <4>2. QED
        BY <4>1, Zenon DEF hash_cityHash32
    <3> HIDE DEF Last, Chunk
    <3>2. QED
      BY <2>1, <3>1
  <2>4. Last = Bytes(len - 20, 20)
    <3>1. \A i : i \in 1 .. 5 <=> i \in {1, 2, 3, 4, 5}
      OBVIOUS
    <3>2. Last =
            Fetch32(len - 4) \cup Fetch32(len - 8) \cup Fetch32(len - 12)
              \cup Fetch32(len - 16) \cup Fetch32(len - 20)
      BY <3>1
    <3>3. QED
      BY <1>4, <3>2 DEF Fetch32, Bytes
  <2>5. \A j \in Int : Chunk(j) = Bytes(20 * j, 20)
    <3>1. SUFFICES ASSUME NEW j \in Int PROVE Chunk(j) = Bytes(20 * j, 20)
      OBVIOUS
    <3>2. \A i : i \in 0 .. 4 <=> i \in {0, 1, 2, 3, 4}
      OBVIOUS
    <3>3. Chunk(j) = Fetch32(20 * j) \cup Fetch32(20 * j + 4) \cup Fetch32(20 * j + 8)
                   \cup Fetch32(20 * j + 12) \cup Fetch32(20 * j + 16)
      BY <3>2
    <3>4. QED
      BY <3>3 DEF Fetch32, Bytes
  <2>6. \A b : b \in UNION {Chunk(j) : j \in 0 .. (iters - 1)} <=> \E j \in 0 .. (iters - 1) : b \in Chunk(j)
    OBVIOUS
  <2> HIDE DEF Chunk, Last
  <2>7. ASSUME NEW j \in 0 .. (iters - 1), NEW b \in Chunk(j)
        PROVE  b \in Bytes(0, len)
    <3>1. j \in Int /\ 0 <= j /\ j <= iters - 1 /\ b \in Bytes(20 * j, 20)
      BY <2>5, <2>7
    <3>2. QED
      BY <2>2, <3>1 DEF Bytes
  <2>8. ASSUME NEW b \in Bytes(0, len), b < len - 20
        PROVE  \E j \in 0 .. (iters - 1) : b \in Chunk(j)
    <3>1. b \in Int /\ 0 <= b
      BY DEF Bytes
    <3>2. PICK j \in Int : j = b \div 20
      BY <3>1, Division
    <3>3. j >= 0 /\ 20 * j <= b /\ b < 20 * j + 20
      BY <3>1, <3>2, Division
    <3>4. j \in 0 .. (iters - 1) /\ b \in Bytes(20 * j, 20)
      BY <2>2, <2>8, <3>1, <3>3 DEF Bytes
    <3>5. QED
      BY <2>5, <3>4
  <2>9. \A b \in Bytes(0, len) : b < len - 20 \/ b \in Bytes(len - 20, 20)
    BY DEF Bytes
  <2>10. Bytes(len - 20, 20) \subseteq Bytes(0, len)
    BY <1>4 DEF Bytes
  <2>11. hash_cityHash32(len) = Bytes(len - 20, 20) \cup (UNION {Chunk(j) : j \in 0 .. (iters - 1)})
    BY <2>3, <2>4
  <2>12. \A b : b \in hash_cityHash32(len) => b \in Bytes(0, len)
    BY <2>6, <2>7, <2>10, <2>11
  <2>13. \A b : b \in Bytes(0, len) => b \in hash_cityHash32(len)
    BY <2>6, <2>8, <2>9, <2>11
  <2>14. QED
    BY <2>12, <2>13
<1>5. QED
  BY <1>1, <1>2, <1>3, <1>4

LEMMA HashLen0to16IsWhole ==
  ASSUME NEW s \in Int, NEW len \in 0 .. 16
  PROVE  HashLen0to16(s, len) = Bytes(s, len)
<1>1. CASE len >= 8
  <2>1. HashLen0to16(s, len) = Fetch64(s) \cup Fetch64(s + len - 8)
    BY <1>1 DEF HashLen0to16
  <2>2. QED
    BY <1>1, <2>1 DEF Fetch64, Bytes
<1>2. CASE 4 <= len /\ len < 8
  <2>1. HashLen0to16(s, len) = Fetch32(s) \cup Fetch32(s + len - 4)
    BY <1>2 DEF HashLen0to16
  <2>2. QED
    BY <1>2, <2>1 DEF Fetch32, Bytes
<1>3. CASE 0 < len /\ len < 4
  <2>1. len \div 2 = IF len = 1 THEN 0 ELSE 1
    BY <1>3
  <2>2. HashLen0to16(s, len) = {s, s + (len \div 2), s + len - 1}
    BY <1>3 DEF HashLen0to16
  <2>3. QED
    BY <1>3, <2>1, <2>2 DEF Bytes
<1>4. CASE len = 0
  BY <1>4 DEF HashLen0to16, Bytes
<1>5. QED
  BY <1>1, <1>2, <1>3, <1>4

LEMMA CityHash64IsWhole ==
  ASSUME NEW len \in Nat
  PROVE  hash_cityHash64(len) = Bytes(0, len)
<1>1. CASE len <= 16
  BY <1>1, HashLen0to16IsWhole DEF hash_cityHash64
<1>2. CASE 16 < len /\ len <= 32
  <2>1. hash_cityHash64(len) = Fetch64(0) \cup Fetch64(8) \cup Fetch64(len - 8) \cup Fetch64(len - 16)
    BY <1>2 DEF hash_cityHash64, HashLen17to32
  <2>2. QED
    BY <1>2, <2>1 DEF Fetch64, Bytes
<1>3. CASE 32 < len /\ len <= 64
  <2>1. hash_cityHash64(len) =
          Fetch64(0) \cup Fetch64(8) \cup Fetch64(len - 24) \cup Fetch64(len - 32)
            \cup Fetch64(16) \cup Fetch64(24) \cup Fetch64(len - 8) \cup Fetch64(len - 16)
    BY <1>3 DEF hash_cityHash64, HashLen33to64
  <2>2. QED
    BY <1>3, <2>1 DEF Fetch64, Bytes
<1>4. CASE 64 < len
  <2>1. PICK n \in Nat : n = (len - 1) \div 64
    BY <1>4
  <2>2. 64 * n <= len - 1 /\ len - 1 < 64 * n + 64
    BY <2>1, Division
  <2>3. UNION {Chunk64(64 * j) : j \in 0 .. (n - 1)} = Bytes(0, 64 * n)
    <3>1. \A j \in 0 .. (n - 1) : 0 + 64 * j = 64 * j
      OBVIOUS
    <3>2. {Chunk64(0 + 64 * j) : j \in 0 .. (n - 1)} = {Chunk64(64 * j) : j \in 0 .. (n - 1)}
      BY <3>1
    <3>3. QED
      BY <3>2, ChunksAreWhole
  <2> DEFINE Words == UNION {Fetch64(len - o) : o \in {40, 16, 56, 48, 24}}
  <2>4. hash_cityHash64(len) =
          Words \cup WeakHashLen32WithSeedsUp(len - 64) \cup WeakHashLen32WithSeedsUp(len - 32)
            \cup Fetch64(0) \cup Bytes(0, 64 * n)
    <3>1. ~(len <= 16) /\ ~(len <= 32) /\ ~(len <= 64)
      BY <1>4
    <3>2. hash_cityHash64(len) =
            Words \cup WeakHashLen32WithSeedsUp(len - 64) \cup WeakHashLen32WithSeedsUp(len - 32)
              \cup Fetch64(0) \cup (UNION {Chunk64(64 * j) : j \in 0 .. ((len - 1) \div 64 - 1)})
      BY <3>1, Zenon DEF hash_cityHash64
    <3>3. QED
      BY <2>1, <2>3, <3>2, Zenon
  <2>5. Words =
          Fetch64(len - 40) \cup Fetch64(len - 16) \cup Fetch64(len - 56)
            \cup Fetch64(len - 48) \cup Fetch64(len - 24)
    OBVIOUS
  <2>6. /\ WeakHashLen32WithSeedsUp(len - 64) = Bytes(len - 64, 32)
        /\ WeakHashLen32WithSeedsUp(len - 32) = Bytes(len - 32, 32)
    BY WeakIsWhole
  <2>7. Words \subseteq Bytes(len - 64, 64)
    BY <1>4, <2>5 DEF Fetch64, Bytes
  <2> HIDE DEF Words
  <2>8. hash_cityHash64(len) =
          Words \cup Bytes(len - 64, 32) \cup Bytes(len - 32, 32) \cup Bytes(0, 8) \cup Bytes(0, 64 * n)
    BY <2>4, <2>6 DEF Fetch64
  <2>9. Bytes(len - 64, 32) \cup Bytes(len - 32, 32) = Bytes(len - 64, 64)
    BY DEF Bytes
  <2>10. Bytes(len - 64, 64) \cup Bytes(0, 8) \cup Bytes(0, 64 * n) = Bytes(0, len)
    BY <1>4, <2>2 DEF Bytes
  <2>11. QED
    BY <2>7, <2>8, <2>9, <2>10
<1>5. QED
  BY <1>1, <1>2, <1>3, <1>4

LEMMA CityMurmurIsWhole ==
  ASSUME NEW s \in Int, NEW len \in Nat
  PROVE  CityMurmur(s, len) = Bytes(s, len)
<1>1. CASE len <= 16
  <2>1. HashLen0to16(s, len) = Bytes(s, len)
    BY <1>1, HashLen0to16IsWhole
  <2>2. len >= 8 => Fetch64(s) \subseteq Bytes(s, len)
    BY DEF Fetch64, Bytes
  <2>3. QED
    BY <1>1, <2>1, <2>2 DEF CityMurmur
<1>2. CASE 16 < len
  <2>1. PICK n \in Nat : n = (len - 17) \div 16
    BY <1>2
  <2>2. 16 * n <= len - 17 /\ len - 17 < 16 * n + 16
    BY <1>2, <2>1, Division
  <2> DEFINE Chunk(j) == Fetch64(s + 16 * j) \cup Fetch64(s + 16 * j + 8)
  <2>3. CityMurmur(s, len) =
          Fetch64(s + len - 8) \cup Fetch64(s + len - 16) \cup (UNION {Chunk(j) : j \in 0 .. n})
    BY <1>2, <2>1 DEF CityMurmur
  <2>4. \A j \in Int : Chunk(j) = Bytes(s + 16 * j, 16)
    BY DEF Fetch64, Bytes
  <2>5. \A b : b \in UNION {Chunk(j) : j \in 0 .. n} <=> \E j \in 0 .. n : b \in Chunk(j)
    OBVIOUS
  <2>6. Fetch64(s + len - 8) \cup Fetch64(s + len - 16) = Bytes(s + len - 16, 16)
    BY DEF Fetch64, Bytes
  <2> HIDE DEF Chunk
  <2>7. ASSUME NEW j \in 0 .. n, NEW b \in Chunk(j)
        PROVE  b \in Bytes(s, len)
    <3>1. j \in Int /\ 0 <= j /\ j <= n /\ b \in Bytes(s + 16 * j, 16)
      BY <2>4, <2>7
    <3>2. QED
      BY <2>2, <3>1 DEF Bytes
  <2>8. ASSUME NEW b \in Bytes(s, len), b < s + len - 16
        PROVE  \E j \in 0 .. n : b \in Chunk(j)
    <3>1. b \in Int /\ s <= b
      BY DEF Bytes
    <3>2. PICK j \in Int : j = (b - s) \div 16
      BY <3>1, Division
    <3>3. j >= 0 /\ 16 * j <= b - s /\ b - s < 16 * j + 16
      BY <3>1, <3>2, Division
    <3>4. j \in 0 .. n /\ b \in Bytes(s + 16 * j, 16)
      BY <2>2, <2>8, <3>1, <3>3 DEF Bytes
    <3>5. QED
      BY <2>4, <3>4
  <2>9. \A b \in Bytes(s, len) : b < s + len - 16 \/ b \in Bytes(s + len - 16, 16)
    BY DEF Bytes
  <2>10. Bytes(s + len - 16, 16) \subseteq Bytes(s, len)
    BY <1>2 DEF Bytes
  <2>11. \A b : b \in CityMurmur(s, len) => b \in Bytes(s, len)
    BY <2>3, <2>5, <2>6, <2>7, <2>10
  <2>12. \A b : b \in Bytes(s, len) => b \in CityMurmur(s, len)
    BY <2>3, <2>5, <2>6, <2>8, <2>9
  <2>13. QED
    BY <2>11, <2>12
<1>3. QED
  BY <1>1, <1>2

LEMMA CityHash128IsWhole ==
  ASSUME NEW s \in Int, NEW len \in Nat
  PROVE  hash_CityHash128WithSeed(s, len) = Bytes(s, len)
<1>1. CASE len < 128
  BY <1>1, CityMurmurIsWhole DEF hash_CityHash128WithSeed
<1>2. CASE 128 <= len
  <2>1. PICK q \in Nat : q = len \div 128
    OBVIOUS
  <2>2. PICK rest \in 0 .. 127 : rest = len % 128
    OBVIOUS
  <2>3. len = 128 * q + rest /\ q >= 1
    BY <1>2, <2>1, <2>2, Division
  <2>4. PICK n \in Nat : n = (rest + 31) \div 32
    OBVIOUS
  <2>5. rest <= 32 * n /\ n <= 4
    BY <2>4, Division
  <2> DEFINE Chunks == UNION {Chunk64(s + 64 * j) : j \in 0 .. (2 * q - 1)}
  <2>6. hash_CityHash128WithSeed(s, len) =
          Fetch64(s) \cup Fetch64(s + 8) \cup Fetch64(s + 88) \cup Chunks
            \cup EndChunks(s + 128 * q, rest)
    BY <1>2, <2>1, <2>2 DEF hash_CityHash128WithSeed
  <2>7. Chunks = Bytes(s, 128 * q)
    <3>1. PICK chunks \in Nat : chunks = 2 * q
      OBVIOUS
    <3>2. 64 * chunks = 128 * q
      BY <3>1
    <3>3. UNION {Chunk64(s + 64 * j) : j \in 0 .. (chunks - 1)} = Bytes(s, 64 * chunks)
      BY ChunksAreWhole
    <3>4. QED
      BY <3>1, <3>2, <3>3
  <2>8. EndChunks(s + 128 * q, rest) = Bytes(s + len - 32 * n, 32 * n)
    <3>1. s + 128 * q \in Int /\ s + 128 * q + rest - 32 * n = s + len - 32 * n /\ rest \in Nat
      BY <2>3
    <3>2. EndChunks(s + 128 * q, rest) = Bytes(s + 128 * q + rest - 32 * n, 32 * n)
      BY <2>4, <3>1, EndChunksAreWhole
    <3>3. QED
      BY <3>1, <3>2
  <2> HIDE DEF Chunks
  <2>9. Fetch64(s) \cup Fetch64(s + 8) \cup Fetch64(s + 88) \subseteq Bytes(s, 128 * q)
    BY <2>3 DEF Fetch64, Bytes
  <2>10. Bytes(s, 128 * q) \cup Bytes(s + len - 32 * n, 32 * n) = Bytes(s, len)
    BY <2>3, <2>5 DEF Bytes
  <2>11. QED
    BY <2>6, <2>7, <2>8, <2>9, <2>10
<1>3. QED
  BY <1>1, <1>2

(* Words of eight bytes, as many as the key holds. *)
LEMMA WordsAreWhole ==
  ASSUME NEW n \in Nat
  PROVE  UNION {Bytes(8 * j, 8) : j \in 0 .. (n - 1)} = Bytes(0, 8 * n)
<1> DEFINE Chunk(j) == Bytes(8 * j, 8)
<1>1. \A b : b \in UNION {Chunk(j) : j \in 0 .. (n - 1)} <=> \E j \in 0 .. (n - 1) : b \in Chunk(j)
  OBVIOUS
<1>2. ASSUME NEW j \in 0 .. (n - 1), NEW b \in Chunk(j)
      PROVE  b \in Bytes(0, 8 * n)
  BY DEF Bytes
<1>3. ASSUME NEW b \in Bytes(0, 8 * n)
      PROVE  \E j \in 0 .. (n - 1) : b \in Chunk(j)
  <2>1. b \in Int /\ 0 <= b /\ b < 8 * n
    BY DEF Bytes
  <2>2. PICK j \in Int : j = b \div 8
    BY <2>1, Division
  <2>3. j >= 0 /\ 8 * j <= b /\ b < 8 * j + 8
    BY <2>1, <2>2, Division
  <2>4. j \in 0 .. (n - 1) /\ b \in Chunk(j)
    BY <2>1, <2>3 DEF Bytes
  <2>5. QED
    BY <2>4
<1> HIDE DEF Chunk
<1>4. UNION {Chunk(j) : j \in 0 .. (n - 1)} = Bytes(0, 8 * n)
  BY <1>1, <1>2, <1>3
<1>5. QED
  BY <1>4 DEF Chunk

LEMMA Murmur64IsWhole ==
  ASSUME NEW len \in Nat
  PROVE  hash_MurmurHash64A(len) = Bytes(0, len)
<1>1. PICK n \in Nat, r \in 0 .. 7 : n = len \div 8 /\ r = len % 8
  OBVIOUS
<1>2. len = 8 * n + r
  BY <1>1, Division
<1>3. hash_MurmurHash64A(len) = Bytes(0, 8 * n) \cup Bytes(8 * n, r)
  BY <1>1, WordsAreWhole DEF hash_MurmurHash64A
<1>4. Bytes(0, 8 * n) \cup Bytes(8 * n, r) = Bytes(0, len)
  BY <1>2 DEF Bytes
<1>5. QED
  BY <1>2, <1>3, <1>4

LEMMA SiphashIsWhole ==
  ASSUME NEW len \in Nat
  PROVE  siphash24(len) = Bytes(0, len)
<1>1. PICK n \in Nat, r \in 0 .. 7 : n = len \div 8 /\ r = len % 8
  OBVIOUS
<1>2. len = 8 * n + r
  BY <1>1, Division
<1>3. siphash24(len) =
        Bytes(0, 8 * n) \cup
          (IF r >= 4 THEN Fetch32(8 * n) \cup Bytes(8 * n + 4, r - 4) ELSE Bytes(8 * n, r))
  BY <1>1, WordsAreWhole DEF siphash24
<1>4. (IF r >= 4 THEN Fetch32(8 * n) \cup Bytes(8 * n + 4, r - 4) ELSE Bytes(8 * n, r))
        = Bytes(8 * n, r)
  <2>1. ASSUME r >= 4
        PROVE  Bytes(8 * n, 4) \cup Bytes(8 * n + 4, r - 4) = Bytes(8 * n, r)
    BY <2>1 DEF Bytes
  <2>2. QED
    BY <2>1 DEF Fetch32
<1>5. Bytes(0, 8 * n) \cup Bytes(8 * n, r) = Bytes(0, len)
  BY <1>2 DEF Bytes
<1>6. QED
  BY <1>2, <1>3, <1>4, <1>5

LEMMA Murmur32IsWhole ==
  ASSUME NEW len \in Nat
  PROVE  hash_murmur3_32(len) = Bytes(0, len)
<1>1. PICK n \in Nat, r \in 0 .. 3 : n = len \div 4 /\ r = len % 4
  OBVIOUS
<1>2. len = 4 * n + r
  BY <1>1, Division
<1> DEFINE Chunk(i) == getblock32(n * 4, i)
<1>3. \A i \in Int : Chunk(i) = Bytes(4 * n + 4 * i, 4)
  BY DEF getblock32
<1>4. hash_murmur3_32(len) = (UNION {Chunk(i) : i \in (-n) .. (-1)}) \cup Bytes(n * 4, r)
  BY <1>1 DEF hash_murmur3_32
<1>5. \A b : b \in UNION {Chunk(i) : i \in (-n) .. (-1)} <=> \E i \in (-n) .. (-1) : b \in Chunk(i)
  OBVIOUS
<1> HIDE DEF Chunk
<1>6. ASSUME NEW i \in (-n) .. (-1), NEW b \in Chunk(i)
      PROVE  b \in Bytes(0, len)
  <2>1. i \in Int /\ -n <= i /\ i <= -1 /\ b \in Bytes(4 * n + 4 * i, 4)
    BY <1>3, <1>6
  <2>2. QED
    BY <1>2, <2>1 DEF Bytes
<1>7. ASSUME NEW b \in Bytes(0, len), b < 4 * n
      PROVE  \E i \in (-n) .. (-1) : b \in Chunk(i)
  <2>1. b \in Int /\ 0 <= b
    BY DEF Bytes
  <2>2. PICK j \in Int : j = b \div 4
    BY <2>1, Division
  <2>3. j >= 0 /\ 4 * j <= b /\ b < 4 * j + 4
    BY <2>1, <2>2, Division
  <2>4. j - n \in (-n) .. (-1) /\ b \in Bytes(4 * n + 4 * (j - n), 4)
    BY <1>7, <2>1, <2>3 DEF Bytes
  <2>5. b \in Chunk(j - n)
    BY <1>3, <2>4
  <2>6. QED
    BY <2>4, <2>5
<1>8. \A b \in Bytes(0, len) : b < 4 * n \/ b \in Bytes(n * 4, r)
  BY <1>2 DEF Bytes
<1>9. Bytes(n * 4, r) \subseteq Bytes(0, len)
  BY <1>2 DEF Bytes
<1>10. \A b : b \in hash_murmur3_32(len) => b \in Bytes(0, len)
  BY <1>4, <1>5, <1>6, <1>9
<1>11. \A b : b \in Bytes(0, len) => b \in hash_murmur3_32(len)
  BY <1>4, <1>5, <1>7, <1>8
<1>12. QED
  BY <1>10, <1>11

(***************************************************************************)
(* All functions that a table uses read the key and nothing else.          *)
(***************************************************************************)
LEMMA AllAreWhole ==
  ASSUME NEW len \in Nat, NEW f \in HashNames
  PROVE  BytesRead(len)[f] = Bytes(0, len)
<1>1. HashNames = {"flat_hasher", "comp_key", "copy_key", "cityHash32", "CityHash64WithSeed",
                   "CityHash128WithSeed", "murmur3_32", "MurmurHash64A", "siphash24"}
  BY DEF HashNames, BytesRead
<1>2. /\ FlatHasher(len) = Bytes(0, len) /\ CompKey(len) = Bytes(0, len)
      /\ CopyKey(len) = Bytes(0, len)
  BY WordOrBytesIsWhole DEF FlatHasher, CompKey, CopyKey
<1>3. /\ hash_CityHash64WithSeed(len) = Bytes(0, len)
      /\ hash_CityHash128WithSeed(0, len) = Bytes(0, len)
  BY CityHash64IsWhole, CityHash128IsWhole DEF hash_CityHash64WithSeed, hash_CityHash64WithSeeds
<1>4. QED
  BY <1>1, <1>2, <1>3, CityHash32IsWhole, Murmur32IsWhole, Murmur64IsWhole, SiphashIsWhole
     DEF BytesRead

(* hash_CityHash128 leaves eight bytes out and reads eight that are not the key's. *)
LEMMA CityHash128Misreads ==
  ASSUME NEW len \in Nat, len <= LONGEST
  PROVE  /\ Bytes(0, len) \ hash_CityHash128(len) = IF len < 16 THEN {} ELSE Bytes(8, 8)
         /\ hash_CityHash128(len) \ Bytes(0, len) = IF len < 16 THEN {} ELSE Fetch64(8 + K0)
<1>1. CASE len < 16
  BY <1>1, CityHash128IsWhole DEF hash_CityHash128
<1>2. CASE 16 <= len
  <2>1. hash_CityHash128(len) = Bytes(0, 8) \cup Bytes(8 + K0, 8) \cup Bytes(16, len - 16)
    BY <1>2, CityHash128IsWhole DEF hash_CityHash128, Fetch64
  <2>2. K0 \in Nat /\ K0 > len
    BY HashAssumption
  <2>3. QED
    BY <1>2, <2>1, <2>2 DEF Fetch64, Bytes
<1>3. QED
  BY <1>1, <1>2

-----------------------------------------------------------------------------
LEMMA LengthIsNatural == Spec => [](x \in Nat)
<1>1. Init => x \in Nat
  BY DEF Init
<1>2. x \in Nat /\ [Next]_x => (x \in Nat)'
  BY DEF Next
<1>3. QED
  BY <1>1, <1>2, PTL DEF Spec

(* No byte of a key, however long, is left out by a hash, a comparison or a copy. *)
THEOREM NoByteIsIgnored == Spec => []EveryByteIsRead
<1>1. x \in Nat => EveryByteIsRead
  BY AllAreWhole, CityHash128Misreads DEF EveryByteIsRead
<1>2. QED
  BY <1>1, LengthIsNatural, PTL

(* No hash, comparison or copy of a key, however long, depends on what is outside the key. *)
THEOREM NoByteIsForeign == Spec => []OnlyTheKeyIsRead
<1>1. x \in Nat => OnlyTheKeyIsRead
  BY AllAreWhole, CityHash128Misreads DEF OnlyTheKeyIsRead
<1>2. QED
  BY <1>1, LengthIsNatural, PTL

-----------------------------------------------------------------------------
(* The words and the bytes are finitely many numbers, and bytes are words. *)
LEMMA WordsAreNumbers ==
  /\ Two[WORD] \in Nat \ {0} /\ IsPowerOfTwo(Two[WORD])
  /\ WordValues \subseteq Nat /\ IsFiniteSet(WordValues)
  /\ ByteValues \subseteq WordValues /\ IsFiniteSet(ByteValues)
<1>1. WORD \in Nat /\ BYTE \in Nat /\ BYTE <= WORD
  BY MixingAssumption
<1>2. /\ Two[WORD] \in Nat \ {0} /\ IsPowerOfTwo(Two[WORD])
      /\ Two[BYTE] \in Nat \ {0}
  BY <1>1, TwoIsPower
<1>3. Two[BYTE] <= Two[WORD]
  BY <1>1, TwoGrows
<1>4. IsFiniteSet(0 .. (Two[WORD] - 1)) /\ IsFiniteSet(0 .. (Two[BYTE] - 1))
  <2>1. 0 \in Int /\ Two[WORD] - 1 \in Int /\ Two[BYTE] - 1 \in Int
    BY <1>2
  <2>2. \A i, j \in Int : IsFiniteSet(i .. j)
    BY FS_Interval
  <2>3. QED
    BY <2>1, <2>2
<1>5. QED
  BY <1>2, <1>3, <1>4 DEF WordValues, ByteValues

(* A one-to-one function has as many values as arguments. *)
LEMMA OneToOneKeepsCount ==
  ASSUME NEW S, IsFiniteSet(S), NEW f,
         \A u, v \in S : f[u] = f[v] => u = v
  PROVE  Cardinality({f[v] : v \in S}) = Cardinality(S)
<1> DEFINE g == [v \in S |-> f[v]]
<1> DEFINE T == {f[v] : v \in S}
<1>1. g \in Bijection(S, T)
  BY DEF Bijection, Injection, Surjection, IsInjective
<1>2. Cardinality(S) = Cardinality(T)
  <2> HIDE DEF g, T
  <2>1. ExistsBijection(S, T)
    BY <1>1 DEF ExistsBijection
  <2>2. QED
    BY <2>1, FS_Bijection
<1>3. QED
  BY <1>2 DEF T

LEMMA WrapIsWord ==
  ASSUME NEW n \in Int
  PROVE  Wrap(n) \in WordValues
BY WordsAreNumbers DEF Wrap, WordValues

(* A shift is one by at least one bit, and by fewer than there are. *)
LEMMA ShiftsAreShort ==
  ASSUME NEW n \in Nat \ {0}, NEW bits \in Nat \ {0}
  PROVE  /\ Scaled(n, bits) \in Nat \ {0}
         /\ n < bits => Scaled(n, bits) < WORD
<1>1. WORD \in Nat /\ WORD > 1 /\ n * WORD \in Nat
  BY MixingAssumption
<1>2. PICK w \in Nat : w = WORD
  BY <1>1
<1>3. CASE n * w < bits
  BY <1>1, <1>2, <1>3 DEF Scaled
<1>4. CASE n * w >= bits
  <2>1. PICK q \in Nat, r \in 0 .. (bits - 1) : q = (n * w) \div bits /\ n * w = bits * q + r
    BY <1>2, Quotient
  <2>2. q # 0
    BY <1>4, <2>1
  <2>3. ASSUME n < bits, q >= w
        PROVE  FALSE
    <3>1. bits * q >= bits * w
      BY <2>3
    <3>2. n * w >= bits * w
      BY <2>1, <3>1
    <3>3. n * w < bits * w
      BY <1>1, <1>2, <2>3
    <3>4. QED
      BY <3>2, <3>3
  <2>4. Scaled(n, bits) = q
    BY <1>2, <1>4, <2>1 DEF Scaled
  <2>5. QED
    BY <1>2, <2>1, <2>2, <2>3, <2>4
<1>5. QED
  BY <1>2, <1>3, <1>4

LEMMA XorIsWord ==
  ASSUME NEW u \in WordValues, NEW v \in WordValues
  PROVE  u ^^ v \in WordValues
<1>1. WORD \in Nat
  BY MixingAssumption
<1>2. QED
  BY <1>1, XorStaysInWidth DEF WordValues, ^^

LEMMA XorWordCancels ==
  /\ \A u, v, w \in WordValues : u ^^ w = v ^^ w => u = v
  /\ \A u, v, w \in WordValues : w ^^ u = w ^^ v => u = v
<1>1. ASSUME NEW u \in WordValues, NEW v \in WordValues, NEW w \in WordValues
      PROVE  /\ u ^^ w = v ^^ w => u = v
             /\ w ^^ u = u ^^ w /\ w ^^ v = v ^^ w
  <2>1. u \in Nat /\ v \in Nat /\ w \in Nat
    BY WordsAreNumbers
  <2>2. Xor[w][u] = Xor[u][w] /\ Xor[w][v] = Xor[v][w]
    BY <2>1, XorCommutes
  <2>3. Xor[u][w] = Xor[v][w] => u = v
    BY <2>1, XorCancels
  <2>4. QED
    BY <2>2, <2>3 DEF ^^
<1>2. QED
  BY <1>1

LEMMA XorShiftRightKeeps ==
  ASSUME NEW n \in Nat \ {0}, NEW bits \in Nat \ {0}
  PROVE  /\ \A h \in WordValues : XorShiftRight(h, n, bits) \in WordValues
         /\ \A u, v \in WordValues : XorShiftRight(u, n, bits) = XorShiftRight(v, n, bits) => u = v
<1>1. PICK s \in Nat : Scaled(n, bits) = s + 1
  <2>1. Scaled(n, bits) \in Nat \ {0}
    BY ShiftsAreShort
  <2>2. Scaled(n, bits) - 1 \in Nat
    BY <2>1
  <2>3. QED
    BY <2>1, <2>2
<1>2. PICK e \in Nat \ {0} : e = Two[s] /\ Two[s + 1] = 2 * e
  BY TwoIsPower
<1>3. \A h : XorShiftRight(h, n, bits) = h ^^ (h \div (2 * e))
  BY <1>1, <1>2 DEF XorShiftRight, ShiftRight
<1>4. ASSUME NEW h \in WordValues
      PROVE  h \div (2 * e) \in WordValues
  <2>1. h \in Nat /\ 2 * e \in Nat \ {0}
    BY WordsAreNumbers
  <2>2. PICK d \in Nat \ {0} : d = 2 * e
    BY <2>1
  <2>3. PICK q \in Nat, r \in 0 .. (d - 1) : q = h \div d /\ h = d * q + r
    <3>1. /\ h \div d \in Nat /\ h % d \in 0 .. (d - 1)
          /\ h = d * (h \div d) + (h % d)
      BY <2>1, Quotient
    <3>2. QED
      BY <3>1
  <2>4. q <= h /\ q = h \div (2 * e)
    <3>1. d * q >= q
      OBVIOUS
    <3>2. QED
      BY <2>1, <2>2, <2>3, <3>1
  <2>5. QED
    BY <2>4, WordsAreNumbers DEF WordValues
<1>5. ASSUME NEW u \in WordValues, NEW v \in WordValues,
             u ^^ (u \div (2 * e)) = v ^^ (v \div (2 * e))
      PROVE  u = v
  <2>1. u \in Nat /\ v \in Nat
    BY WordsAreNumbers
  <2>2. Xor[u][u \div (2 * e)] = Xor[v][v \div (2 * e)]
    BY <1>5 DEF ^^
  <2>3. QED
    BY <2>1, <2>2, XorShiftCancels
<1>6. QED
  BY <1>3, <1>4, <1>5, XorIsWord

(* An odd factor can be undone, modulo a power of two. *)
LEMMA OddTimesCancels ==
  ASSUME NEW k \in Int, k % 2 = 1, NEW u \in WordValues, NEW v \in WordValues,
         Wrap(u * k) = Wrap(v * k)
  PROVE  u = v
<1>1. PICK n \in Nat \ {0} : n = Two[WORD] /\ IsPowerOfTwo(n)
  BY WordsAreNumbers
<1>2. u \in 0 .. (n - 1) /\ v \in 0 .. (n - 1)
  BY <1>1 DEF WordValues
<1>3. u * k \in Int /\ v * k \in Int /\ (u * k) % n = (v * k) % n
  BY <1>1, <1>2 DEF Wrap
<1>4. PICK q \in Int : v * k - u * k = n * q
  BY <1>3, SameRemainder
<1>5. v - u \in Int /\ k * (v - u) = n * q
  BY <1>2, <1>4
<1>6. IsMultiple(n, k * (v - u))
  BY <1>5 DEF IsMultiple
<1>7. IsMultiple(n, v - u)
  BY <1>1, <1>5, <1>6, OddFactorCancels
<1>8. PICK r \in Int : v - u = n * r
  BY <1>7 DEF IsMultiple
<1>9. v - u = 0
  <2>1. -n < v - u /\ v - u < n
    BY <1>2
  <2>2. QED
    BY <1>5, <1>8, <2>1, SmallMultiple
<1>10. QED
  BY <1>2, <1>9

LEMMA TimesKeeps ==
  ASSUME NEW k \in Nat, k % 2 = 1
  PROVE  /\ \A h \in WordValues : Times(h, k) \in WordValues
         /\ \A u, v \in WordValues : Times(u, k) = Times(v, k) => u = v
<1>1. \A h \in WordValues : h * k \in Int
  BY WordsAreNumbers
<1>2. QED
  BY <1>1, WrapIsWord, OddTimesCancels DEF Times

LEMMA PowersAreEven ==
  ASSUME NEW n \in Nat \ {0}
  PROVE  Two[n] \in Nat /\ Two[n] % 2 = 0
<1>1. PICK s \in Nat : n = s + 1
  <2>1. n - 1 \in Nat /\ n = (n - 1) + 1
    OBVIOUS
  <2>2. QED
    BY <2>1
<1>2. PICK e \in Nat : e = Two[s] /\ Two[s + 1] = 2 * e
  BY TwoIsPower
<1>3. (2 * e) % 2 = 0
  OBVIOUS
<1>4. QED
  BY <1>1, <1>2, <1>3

LEMMA ShiftFactorIsEven ==
  ASSUME NEW n \in Nat \ {0}, NEW bits \in Nat \ {0}
  PROVE  Two[Scaled(n, bits)] \in Nat /\ Two[Scaled(n, bits)] % 2 = 0
BY ShiftsAreShort, PowersAreEven

LEMMA WrapOfWrap ==
  ASSUME NEW a \in Int, NEW b \in Int
  PROVE  Wrap(a + Wrap(b)) = Wrap(a + b)
<1>1. PICK n \in Nat \ {0} : n = Two[WORD]
  BY WordsAreNumbers
<1>2. PICK q \in Int, r \in 0 .. (n - 1) : r = b % n /\ b = n * q + r
  OBVIOUS
<1>3. PICK p \in Int, s \in 0 .. (n - 1) : s = (a + r) % n /\ a + r = n * p + s
  OBVIOUS
<1>4. a + b = n * (p + q) + s
  <2>1. n * p \in Int /\ n * q \in Int /\ n * (p + q) = n * p + n * q
    OBVIOUS
  <2>2. b = n * q + r /\ a + r = n * p + s
    BY <1>2, <1>3
  <2>3. QED
    BY <2>1, <2>2
<1>5. (n * (p + q) + s) % n = s
  <2>1. p + q \in Int
    OBVIOUS
  <2>2. QED
    BY <2>1, QuotientIsUnique
<1>6. QED
  BY <1>1, <1>2, <1>3, <1>4, <1>5 DEF Wrap

LEMMA PlusShiftLeftKeeps ==
  ASSUME NEW n \in Nat \ {0}, NEW bits \in Nat \ {0}
  PROVE  /\ \A h \in WordValues : PlusShiftLeft(h, n, bits) \in WordValues
         /\ \A u, v \in WordValues : PlusShiftLeft(u, n, bits) = PlusShiftLeft(v, n, bits) => u = v
<1>1. PICK t \in Nat : t = Two[Scaled(n, bits)] /\ t % 2 = 0
  BY ShiftFactorIsEven
<1>2. ASSUME NEW h \in WordValues
      PROVE  PlusShiftLeft(h, n, bits) = Wrap(h * (t + 1))
  <2>1. h \in Int /\ h * t \in Int
    BY WordsAreNumbers
  <2>2. Wrap(h + Wrap(h * t)) = Wrap(h + h * t)
    BY <2>1, WrapOfWrap
  <2>3. h + h * t = h * (t + 1)
    BY <2>1
  <2>4. QED
    BY <1>1, <2>2, <2>3 DEF PlusShiftLeft, ShiftLeft
<1>3. (t + 1) % 2 = 1 /\ t + 1 \in Int
  BY <1>1
<1>4. \A h \in WordValues : h * (t + 1) \in Int
  BY WordsAreNumbers
<1>5. QED
  BY <1>2, <1>3, <1>4, WrapIsWord, OddTimesCancels

(* A constant that is added can be taken off again. *)
LEMMA WrapOfSumCancels ==
  ASSUME NEW a \in Int, NEW b \in Int, NEW k \in Int, Wrap(a + k) = Wrap(b + k)
  PROVE  Wrap(a) = Wrap(b)
<1>1. Wrap(-k + Wrap(a + k)) = Wrap(-k + Wrap(b + k))
  OBVIOUS
<1>2. /\ -k \in Int /\ a + k \in Int /\ b + k \in Int
      /\ -k + (a + k) = a /\ -k + (b + k) = b
  OBVIOUS
<1>3. Wrap(-k + Wrap(a + k)) = Wrap(a)
  BY <1>2, WrapOfWrap
<1>4. Wrap(-k + Wrap(b + k)) = Wrap(b)
  BY <1>2, WrapOfWrap
<1>5. QED
  BY <1>1, <1>3, <1>4

(* Words that are equal modulo the number of words are equal. *)
LEMMA WrapOfWord ==
  ASSUME NEW h \in WordValues
  PROVE  Wrap(h) = h
<1>1. PICK n \in Nat \ {0} : n = Two[WORD]
  BY WordsAreNumbers
<1>2. h \in 0 .. (n - 1) /\ 0 \in Int
  BY <1>1 DEF WordValues
<1>3. (n * 0 + h) % n = h
  BY <1>2, QuotientIsUnique
<1>4. n * 0 + h = h
  BY <1>2
<1>5. QED
  BY <1>1, <1>3, <1>4 DEF Wrap

(* An odd multiple and a sum: what all linear steps are. *)
LEMMA LinearCancels ==
  ASSUME NEW f \in Int, f % 2 = 1, NEW k \in Int, NEW u \in WordValues, NEW v \in WordValues,
         Wrap(u * f + k) = Wrap(v * f + k)
  PROVE  u = v
<1>1. u * f \in Int /\ v * f \in Int
  BY WordsAreNumbers
<1>2. Wrap(u * f) = Wrap(v * f)
  BY <1>1, WrapOfSumCancels
<1>3. QED
  BY <1>2, OddTimesCancels

LEMMA WrapKeepsParity ==
  ASSUME NEW a \in Int
  PROVE  Wrap(a) % 2 = a % 2
<1>1. PICK e \in Nat : Two[WORD] = 2 * e /\ 2 * e # 0
  <2>1. WORD \in Nat \ {0}
    BY MixingAssumption
  <2>2. Two[WORD] \in Nat /\ Two[WORD] % 2 = 0
    BY <2>1, PowersAreEven
  <2>3. PICK n \in Nat : n = Two[WORD] /\ n % 2 = 0
    BY <2>2
  <2>4. n \div 2 \in Nat /\ n = 2 * (n \div 2)
    BY <2>3
  <2>5. n # 0
    BY <2>3, WordsAreNumbers
  <2>6. QED
    BY <2>3, <2>4, <2>5
<1>2. PICK q \in Int, r \in Int : r = a % (2 * e) /\ a = (2 * e) * q + r
  <2>1. 2 * e \in Nat \ {0}
    BY <1>1
  <2>2. PICK d \in Nat \ {0} : d = 2 * e
    BY <2>1
  <2>3. a \div d \in Int /\ a % d \in Int /\ a = d * (a \div d) + (a % d)
    OBVIOUS
  <2>4. QED
    BY <2>2, <2>3
<1>3. PICK t \in Int : t = e * q
  OBVIOUS
<1>4. a = 2 * t + r
  <2>1. (2 * e) * q = 2 * (e * q)
    OBVIOUS
  <2>2. a = (2 * e) * q + r
    BY <1>2
  <2>3. QED
    BY <1>3, <2>1, <2>2
<1>5. a % 2 = r % 2
  BY <1>4
<1>6. QED
  BY <1>1, <1>2, <1>5 DEF Wrap

(* The constants are words, and odd if their lowest piece is. *)
LEMMA ConstantsAreWords ==
  ASSUME NEW high \in Nat, NEW low \in Nat
  PROVE  /\ Word32(high, low) \in WordValues
         /\ low % 2 = 1 => Word32(high, low) % 2 = 1
<1>1. 65536 * high + low \in Nat /\ (low % 2 = 1 => (65536 * high + low) % 2 = 1)
  OBVIOUS
<1>2. QED
  BY <1>1, WrapIsWord, WrapKeepsParity DEF Word32

LEMMA LongConstantsAreWords ==
  ASSUME NEW a \in Nat, NEW b \in Nat, NEW c \in Nat, NEW low \in Nat
  PROVE  /\ Word64(a, b, c, low) \in WordValues
         /\ low % 2 = 1 => Word64(a, b, c, low) % 2 = 1
<1>1. 65536 * (65536 * a + b) + c \in Nat
  OBVIOUS
<1>2. QED
  BY <1>1, ConstantsAreWords DEF Word64

(* A word plus a constant plus a shift of itself. *)
LEMMA SumWithShiftKeeps ==
  ASSUME NEW n \in Nat \ {0}, NEW bits \in Nat \ {0}, NEW k \in WordValues
  PROVE  /\ \A h \in WordValues : Wrap(Wrap(h + k) + ShiftLeft(h, n, bits)) \in WordValues
         /\ \A u, v \in WordValues :
              Wrap(Wrap(u + k) + ShiftLeft(u, n, bits)) = Wrap(Wrap(v + k) + ShiftLeft(v, n, bits))
                => u = v
<1>1. PICK t \in Nat : t = Two[Scaled(n, bits)] /\ t % 2 = 0
  BY ShiftFactorIsEven
<1>2. ASSUME NEW h \in WordValues
      PROVE  /\ Wrap(h + k) \in Int /\ ShiftLeft(h, n, bits) \in Int
             /\ Wrap(Wrap(h + k) + ShiftLeft(h, n, bits)) = Wrap(h * (t + 1) + k)
  <2>1. h \in Int /\ k \in Int /\ h * t \in Int /\ h + k \in Int
    BY WordsAreNumbers
  <2>2. Wrap(h + k) \in Int /\ Wrap(h * t) \in Int
    <3>1. Wrap(h + k) \in WordValues /\ Wrap(h * t) \in WordValues
      BY <2>1, WrapIsWord
    <3>2. \A w \in WordValues : w \in Int
      BY WordsAreNumbers
    <3>3. QED
      BY <3>1, <3>2
  <2>3. Wrap(Wrap(h + k) + Wrap(h * t)) = Wrap(Wrap(h + k) + h * t)
    BY <2>1, <2>2, WrapOfWrap
  <2>4. Wrap(h * t + Wrap(h + k)) = Wrap(h * t + (h + k))
    BY <2>1, WrapOfWrap
  <2>5. /\ Wrap(h + k) + h * t = h * t + Wrap(h + k)
        /\ h * t + (h + k) = h * (t + 1) + k
    BY <2>1, <2>2
  <2>6. QED
    BY <1>1, <2>2, <2>3, <2>4, <2>5 DEF ShiftLeft
<1>3. (t + 1) % 2 = 1 /\ t + 1 \in Int /\ k \in Int
  BY <1>1, WordsAreNumbers
<1>4. \A a, b \in Int : Wrap(a + b) \in WordValues
  BY WrapIsWord
<1>5. QED
  BY <1>2, <1>3, <1>4, LinearCancels

(* A word xor a constant xor a shift of itself. *)
LEMMA XorWithShiftKeeps ==
  ASSUME NEW n \in Nat \ {0}, NEW bits \in Nat \ {0}, NEW k \in WordValues
  PROVE  /\ \A h \in WordValues : (h ^^ k) ^^ ShiftRight(h, n, bits) \in WordValues
         /\ \A u, v \in WordValues :
              (u ^^ k) ^^ ShiftRight(u, n, bits) = (v ^^ k) ^^ ShiftRight(v, n, bits) => u = v
<1>1. ASSUME NEW h \in WordValues
      PROVE  /\ XorShiftRight(h, n, bits) \in WordValues
             /\ (h ^^ k) ^^ ShiftRight(h, n, bits) = XorShiftRight(h, n, bits) ^^ k
  <2>1. PICK d \in Nat \ {0} : d = Two[Scaled(n, bits)]
    BY ShiftsAreShort, TwoIsPower
  <2>2. h \in Nat /\ k \in Nat
    BY WordsAreNumbers
  <2>3. PICK s \in Nat : s = ShiftRight(h, n, bits)
    <3>1. h \div d \in Nat
      BY <2>2, Quotient
    <3>2. QED
      BY <2>1, <3>1 DEF ShiftRight
  <2>4. Xor[Xor[h][k]][s] = Xor[h][Xor[k][s]]
    BY <2>2, XorAssociates
  <2>5. Xor[Xor[h][s]][k] = Xor[h][Xor[s][k]]
    BY <2>2, XorAssociates
  <2>6. Xor[k][s] = Xor[s][k]
    BY <2>2, XorCommutes
  <2>7. QED
    BY <2>3, <2>4, <2>5, <2>6, XorShiftRightKeeps DEF XorShiftRight, ^^
<1>2. QED
  BY <1>1, XorIsWord, XorWordCancels, XorShiftRightKeeps

(* The complement of a word plus a shift of it. *)
LEMMA ComplementWithShiftKeeps ==
  ASSUME NEW n \in Nat \ {0}, NEW bits \in Nat \ {0}
  PROVE  /\ \A h \in WordValues : Wrap(Complement(h) + ShiftLeft(h, n, bits)) \in WordValues
         /\ \A u, v \in WordValues :
              Wrap(Complement(u) + ShiftLeft(u, n, bits)) = Wrap(Complement(v) + ShiftLeft(v, n, bits))
                => u = v
<1>1. PICK t \in Nat : t = Two[Scaled(n, bits)] /\ t % 2 = 0
  BY ShiftFactorIsEven
<1>2. PICK k \in Int : k = Two[WORD] - 1
  BY WordsAreNumbers
<1>3. ASSUME NEW h \in WordValues
      PROVE  Wrap(Complement(h) + ShiftLeft(h, n, bits)) = Wrap(h * (t - 1) + k)
  <2>1. h \in Int /\ h * t \in Int /\ k - h \in Int
    BY WordsAreNumbers
  <2>2. Wrap((k - h) + Wrap(h * t)) = Wrap((k - h) + h * t)
    BY <2>1, WrapOfWrap
  <2>3. (k - h) + h * t = h * (t - 1) + k
    BY <2>1
  <2>4. QED
    BY <1>1, <1>2, <2>2, <2>3 DEF ShiftLeft, Complement
<1>4. (t - 1) % 2 = 1 /\ t - 1 \in Int
  BY <1>1
<1>5. \A h \in WordValues : h * (t - 1) + k \in Int
  BY WordsAreNumbers
<1>6. QED
  BY <1>3, <1>4, <1>5, WrapIsWord, LinearCancels

LEMMA PowersBelowDivide ==
  ASSUME NEW w \in Nat, w <= WORD
  PROVE  \E q \in Nat \ {0} : Two[WORD] = Two[w] * q
<1>1. WORD - w \in Nat /\ w + (WORD - w) = WORD
  BY MixingAssumption
<1>2. Two[w + (WORD - w)] = Two[w] * Two[WORD - w]
  BY <1>1, TwoOfSum
<1>3. Two[WORD - w] \in Nat \ {0}
  BY <1>1, TwoIsPower
<1>4. QED
  BY <1>1, <1>2, <1>3

LEMMA SameModulo ==
  ASSUME NEW t \in Nat \ {0}, NEW a \in Int, NEW b \in Int, NEW p \in Int, b = a + t * p
  PROVE  a % t = b % t
<1>1. PICK q \in Int, r \in 0 .. (t - 1) : r = a % t /\ a = t * q + r
  OBVIOUS
<1>2. t * (q + p) = t * q + t * p /\ q + p \in Int /\ t * q \in Int /\ t * p \in Int
  OBVIOUS
<1>3. (t * (q + p) + r) % t = r
  BY <1>2, QuotientIsUnique
<1>4. b = t * (q + p) + r
  <2>1. a = t * q + r
    BY <1>1
  <2>2. QED
    BY <1>2, <2>1
<1>5. QED
  BY <1>1, <1>3, <1>4

(* What two words agree on in their last bits, taken modulo a power of two that divides another. *)
LEMMA RemainderOfRemainder ==
  ASSUME NEW a \in Int, NEW t \in Nat \ {0}, NEW q \in Nat \ {0}
  PROVE  (a % (t * q)) % t = a % t
<1>1. PICK d \in Nat \ {0} : d = t * q
  OBVIOUS
<1>2. PICK p \in Int, r \in 0 .. (d - 1) : r = a % d /\ a = d * p + r
  OBVIOUS
<1>3. PICK i \in Int, j \in 0 .. (t - 1) : j = r % t /\ r = t * i + j
  <2>1. r \in Nat
    OBVIOUS
  <2>2. r \div t \in Nat /\ r % t \in 0 .. (t - 1) /\ r = t * (r \div t) + (r % t)
    BY <2>1, Quotient
  <2>3. QED
    BY <2>2
<1>4. a = t * (q * p + i) + j
  <2>1. t * (q * p + i) = t * (q * p) + t * i /\ (t * q) * p = t * (q * p)
    OBVIOUS
  <2>2. a = (t * q) * p + (t * i + j)
    BY <1>1, <1>2, <1>3
  <2>3. t * (q * p) \in Int /\ t * i \in Int
    OBVIOUS
  <2>4. QED
    BY <2>1, <2>2, <2>3
<1>5. q * p + i \in Int
  OBVIOUS
<1>6. a % t = j
  BY <1>4, <1>5, QuotientIsUnique
<1>7. QED
  BY <1>1, <1>2, <1>3, <1>6

LEMMA WrapAgrees ==
  ASSUME NEW w \in Nat, w <= WORD, NEW a \in Int
  PROVE  Wrap(a) % Two[w] = a % Two[w]
<1>1. PICK t \in Nat \ {0} : t = Two[w]
  BY TwoIsPower
<1>2. PICK q \in Nat \ {0} : Two[WORD] = t * q
  BY <1>1, PowersBelowDivide
<1>3. (a % (t * q)) % t = a % t
  BY RemainderOfRemainder
<1>4. QED
  BY <1>1, <1>2, <1>3 DEF Wrap

(* The last bits of a sum are those of its last bits. *)
LEMMA SumAgrees ==
  ASSUME NEW w \in Nat, w <= WORD, NEW k \in WordValues, NEW u \in WordValues, NEW v \in WordValues,
         Wrap(u + k) % Two[w] = Wrap(v + k) % Two[w]
  PROVE  u % Two[w] = v % Two[w]
<1>1. PICK t \in Nat \ {0} : t = Two[w]
  BY TwoIsPower
<1>2. u \in Int /\ v \in Int /\ k \in Int
  BY WordsAreNumbers
<1>3. PICK a \in Int, b \in Int : a = u + k /\ b = v + k
  BY <1>2
<1>4. a % t = b % t
  <2>1. Wrap(a) % Two[w] = a % Two[w] /\ Wrap(b) % Two[w] = b % Two[w]
    BY WrapAgrees
  <2>2. QED
    BY <1>1, <1>3, <2>1
<1>5. PICK p \in Int : b - a = t * p
  BY <1>4, SameRemainder
<1>6. v = u + t * p
  BY <1>2, <1>3, <1>5
<1>7. QED
  BY <1>1, <1>2, <1>6, SameModulo

(* A shift to the left loses its highest bit at most, seen from its end. *)
LEMMA ShiftHidesHighBit ==
  ASSUME NEW w \in Nat, w + 1 <= WORD, NEW s \in Nat, NEW u \in WordValues, NEW v \in WordValues,
         u % Two[w] = v % Two[w]
  PROVE  Wrap(u * Two[s + 1]) % Two[w + 1] = Wrap(v * Two[s + 1]) % Two[w + 1]
<1>1. PICK e \in Nat \ {0} : e = Two[s] /\ Two[s + 1] = 2 * e
  BY TwoIsPower
<1>2. PICK t \in Nat \ {0} : t = Two[w] /\ Two[w + 1] = 2 * t
  BY TwoIsPower
<1>3. u \in Int /\ v \in Int
  BY WordsAreNumbers
<1>4. PICK a \in Int, b \in Int : a = u * (2 * e) /\ b = v * (2 * e)
  BY <1>3
<1>5. PICK p \in Int : v - u = t * p
  BY <1>2, <1>3, SameRemainder
<1>6. PICK d \in Nat \ {0}, i \in Int : d = 2 * t /\ i = p * e
  OBVIOUS
<1>7. b = a + d * i
  <2>1. v = u + t * p
    BY <1>3, <1>5
  <2>2. (u + t * p) * (2 * e) = u * (2 * e) + (2 * t) * (p * e)
    BY <1>3
  <2>3. QED
    BY <1>4, <1>6, <2>1, <2>2
<1>8. a % d = b % d
  BY <1>7, SameModulo
<1>9. Wrap(a) % Two[w + 1] = a % Two[w + 1] /\ Wrap(b) % Two[w + 1] = b % Two[w + 1]
  <2>1. w + 1 \in Nat
    OBVIOUS
  <2>2. QED
    BY <2>1, WrapAgrees
<1>10. QED
  BY <1>1, <1>2, <1>4, <1>6, <1>8, <1>9

(* A step of hash_jenkins_integer: the shift to the left reveals bit after bit of the word. *)
LEMMA XorWithSumKeeps ==
  ASSUME NEW n \in Nat \ {0}, NEW bits \in Nat \ {0}, NEW k \in WordValues
  PROVE  /\ \A h \in WordValues : Wrap(h + k) ^^ ShiftLeft(h, n, bits) \in WordValues
         /\ \A u, v \in WordValues :
              Wrap(u + k) ^^ ShiftLeft(u, n, bits) = Wrap(v + k) ^^ ShiftLeft(v, n, bits) => u = v
<1>1. PICK s \in Nat : Scaled(n, bits) = s + 1
  <2>1. Scaled(n, bits) \in Nat \ {0}
    BY ShiftsAreShort
  <2>2. Scaled(n, bits) - 1 \in Nat
    BY <2>1
  <2>3. QED
    BY <2>1, <2>2
<1>2. PICK e \in Nat \ {0} : e = Two[s] /\ Two[s + 1] = 2 * e
  BY TwoIsPower
<1> DEFINE L(h) == ShiftLeft(h, n, bits)
<1> DEFINE A(h) == Wrap(h + k)
<1>3. ASSUME NEW h \in WordValues
      PROVE  A(h) \in WordValues /\ L(h) \in WordValues
  <2>1. h \in Int /\ k \in Int /\ Two[Scaled(n, bits)] \in Int
    BY <1>1, <1>2, WordsAreNumbers
  <2>2. h + k \in Int /\ h * Two[Scaled(n, bits)] \in Int
    BY <2>1
  <2>3. QED
    BY <2>2, WrapIsWord DEF ShiftLeft
<1>4. \A h \in WordValues : A(h) ^^ L(h) \in WordValues
  BY <1>3, XorIsWord
<1>5. ASSUME NEW u \in WordValues, NEW v \in WordValues, A(u) ^^ L(u) = A(v) ^^ L(v)
      PROVE  u = v
  <2> DEFINE S == {w \in Nat : w <= WORD => u % Two[w] = v % Two[w]}
  <2>1. 0 \in S
    <3>1. u % 1 = v % 1
      BY WordsAreNumbers
    <3>2. QED
      BY <3>1, TwoIsDefined
  <2>2. ASSUME NEW w \in Nat, w \in S
        PROVE  w + 1 \in S
    <3>1. SUFFICES ASSUME w + 1 <= WORD
                   PROVE  u % Two[w + 1] = v % Two[w + 1]
      OBVIOUS
    <3>2. u % Two[w] = v % Two[w]
      BY <2>2, <3>1, MixingAssumption
    <3>3. L(u) % Two[w + 1] = L(v) % Two[w + 1]
      BY <1>1, <1>2, <3>1, <3>2, ShiftHidesHighBit DEF ShiftLeft
    <3>4. A(u) % Two[w + 1] = A(v) % Two[w + 1]
      <4>1. /\ A(u) \in Nat /\ A(v) \in Nat /\ L(u) \in Nat /\ L(v) \in Nat
            /\ Xor[A(u)][L(u)] = Xor[A(v)][L(v)]
        BY <1>3, <1>5, WordsAreNumbers DEF ^^
      <4> HIDE DEF A, L
      <4>2. w + 1 \in Nat
        OBVIOUS
      <4>3. QED
        BY <3>3, <4>1, <4>2, XorAgrees
    <3>5. QED
      BY <3>1, <3>4, SumAgrees
  <2>3. \A w \in Nat : w \in S
    <3> HIDE DEF S
    <3>1. QED
      BY <2>1, <2>2, SetInduction
  <2>4. Wrap(u) = Wrap(v)
    BY <2>3, MixingAssumption DEF Wrap
  <2>5. QED
    BY <2>4, WrapOfWord
<1>6. QED
  BY <1>4, <1>5

-----------------------------------------------------------------------------
(***************************************************************************)
(* The steps of the hash functions, as functions on words: every one takes *)
(* words to words, and different ones to different ones.                   *)
(***************************************************************************)
Permutes(f) ==
  /\ \A h \in WordValues : f[h] \in WordValues
  /\ \A u, v \in WordValues : f[u] = f[v] => u = v

XorStep(k)                == [h \in WordValues |-> h ^^ k]
XorOntoStep(k)            == [h \in WordValues |-> k ^^ h]
ShiftStep(n, bits)        == [h \in WordValues |-> XorShiftRight(h, n, bits)]
XorAndShiftStep(n, bits, k) == [h \in WordValues |-> (h ^^ k) ^^ ShiftRight(h, n, bits)]
TimesStep(k)              == [h \in WordValues |-> Times(h, k)]
LinearStep(f, k)          == [h \in WordValues |-> Wrap(h * f + k)]
PlusStep(n, bits)         == [h \in WordValues |-> PlusShiftLeft(h, n, bits)]
SumAndShiftStep(n, bits, k) == [h \in WordValues |-> Wrap(Wrap(h + k) + ShiftLeft(h, n, bits))]
XorOfSumStep(n, bits, k)  == [h \in WordValues |-> Wrap(h + k) ^^ ShiftLeft(h, n, bits)]
ComplementStep(n, bits)   == [h \in WordValues |-> Wrap(Complement(h) + ShiftLeft(h, n, bits))]
RotlStep(n, bits)         == [h \in WordValues |-> Rotl(h, n, bits)]

LEMMA XorStepsPermute ==
  ASSUME NEW k \in WordValues
  PROVE  Permutes(XorStep(k)) /\ Permutes(XorOntoStep(k))
BY XorIsWord, XorWordCancels DEF Permutes, XorStep, XorOntoStep

LEMMA ShiftStepPermutes ==
  ASSUME NEW n \in Nat \ {0}, NEW bits \in Nat \ {0}
  PROVE  Permutes(ShiftStep(n, bits))
BY XorShiftRightKeeps DEF Permutes, ShiftStep

LEMMA XorAndShiftStepPermutes ==
  ASSUME NEW n \in Nat \ {0}, NEW bits \in Nat \ {0}, NEW k \in WordValues
  PROVE  Permutes(XorAndShiftStep(n, bits, k))
BY XorWithShiftKeeps DEF Permutes, XorAndShiftStep

LEMMA TimesStepPermutes ==
  ASSUME NEW k \in Nat, k % 2 = 1
  PROVE  Permutes(TimesStep(k))
BY TimesKeeps DEF Permutes, TimesStep

LEMMA LinearStepPermutes ==
  ASSUME NEW f \in Int, f % 2 = 1, NEW k \in Int
  PROVE  Permutes(LinearStep(f, k))
<1>1. \A h \in WordValues : h * f + k \in Int
  BY WordsAreNumbers
<1>2. QED
  BY <1>1, WrapIsWord, LinearCancels DEF Permutes, LinearStep

LEMMA PlusStepPermutes ==
  ASSUME NEW n \in Nat \ {0}, NEW bits \in Nat \ {0}
  PROVE  Permutes(PlusStep(n, bits))
BY PlusShiftLeftKeeps DEF Permutes, PlusStep

LEMMA SumAndShiftStepPermutes ==
  ASSUME NEW n \in Nat \ {0}, NEW bits \in Nat \ {0}, NEW k \in WordValues
  PROVE  Permutes(SumAndShiftStep(n, bits, k))
BY SumWithShiftKeeps DEF Permutes, SumAndShiftStep

LEMMA XorOfSumStepPermutes ==
  ASSUME NEW n \in Nat \ {0}, NEW bits \in Nat \ {0}, NEW k \in WordValues
  PROVE  Permutes(XorOfSumStep(n, bits, k))
BY XorWithSumKeeps DEF Permutes, XorOfSumStep

LEMMA ComplementStepPermutes ==
  ASSUME NEW n \in Nat \ {0}, NEW bits \in Nat \ {0}
  PROVE  Permutes(ComplementStep(n, bits))
BY ComplementWithShiftKeeps DEF Permutes, ComplementStep

(* A rotation moves the highest bits to the end, and the others up. *)
LEMMA RotlStepPermutes ==
  ASSUME NEW n \in Nat \ {0}, NEW bits \in Nat \ {0}, n < bits
  PROVE  Permutes(RotlStep(n, bits))
<1>1. PICK s \in Nat, r \in Nat : s = Scaled(n, bits) /\ r = WORD - s /\ WORD = s + r
  <2>1. Scaled(n, bits) \in Nat /\ WORD - Scaled(n, bits) \in Nat
    BY ShiftsAreShort, MixingAssumption
  <2>2. WORD = Scaled(n, bits) + (WORD - Scaled(n, bits))
    BY <2>1, MixingAssumption
  <2>3. QED
    BY <2>1, <2>2
<1>2. PICK p \in Nat \ {0} : p = Two[s]
  BY TwoIsPower
<1>3. PICK q \in Nat \ {0} : q = Two[r]
  BY TwoIsPower
<1>4. Two[WORD] = p * q /\ WordValues = 0 .. (p * q - 1)
  <2>1. Two[s + r] = Two[s] * Two[r]
    BY TwoOfSum
  <2>2. Two[WORD] = p * q
    BY <1>1, <1>2, <1>3, <2>1
  <2>3. QED
    BY <2>2 DEF WordValues
<1> DEFINE high(h) == h \div q
<1> DEFINE low(h) == h % q
<1>5. ASSUME NEW h \in WordValues
      PROVE  /\ high(h) \in 0 .. (p - 1) /\ low(h) \in 0 .. (q - 1) /\ h = q * high(h) + low(h)
             /\ Rotl(h, n, bits) = p * low(h) + high(h)
  <2>1. h \in Nat /\ h < q * p
    <3>1. p * q = q * p
      OBVIOUS
    <3>2. QED
      BY <1>4, <3>1
  <2>2. high(h) \in Nat /\ low(h) \in 0 .. (q - 1) /\ h = q * high(h) + low(h)
    BY <2>1, Quotient
  <2>3. high(h) < p
    BY <2>1, SmallQuotient
  <2>4. PICK a \in Nat, b \in 0 .. (q - 1) : a = high(h) /\ b = low(h) /\ h = q * a + b
    BY <2>2
  <2>5. h * p = (p * q) * a + p * b
    <3>1. (q * a + b) * p = (p * q) * a + p * b
      OBVIOUS
    <3>2. QED
      BY <2>4, <3>1
  <2>6. p * b \in 0 .. (p * q - 1) /\ p * q \in Nat \ {0}
    <3>1. p * b <= p * (q - 1) /\ p * b \in Nat /\ p * q \in Nat \ {0}
      OBVIOUS
    <3>2. p * (q - 1) = p * q - p
      OBVIOUS
    <3>3. QED
      BY <3>1, <3>2
  <2>7. ((p * q) * a + p * b) % (p * q) = p * b
    <3>1. PICK d \in Nat \ {0} : d = p * q
      BY <2>6
    <3>2. PICK c \in 0 .. (d - 1) : c = p * b
      BY <2>6, <3>1
    <3>3. (d * a + c) % d = c
      BY QuotientIsUnique
    <3>4. QED
      BY <3>1, <3>2, <3>3
  <2>8. Wrap(h * p) = p * b
    BY <1>4, <2>5, <2>7 DEF Wrap
  <2>9. Rotl(h, n, bits) = Wrap(h * p) + h \div q
    BY <1>1, <1>2, <1>3 DEF Rotl
  <2>10. QED
    BY <2>2, <2>3, <2>4, <2>8, <2>9
<1> HIDE DEF high, low
<1>6. ASSUME NEW h \in WordValues
      PROVE  Rotl(h, n, bits) \in WordValues
  <2>1. PICK a \in 0 .. (p - 1), b \in 0 .. (q - 1) : Rotl(h, n, bits) = p * b + a
    BY <1>5
  <2>2. p * b <= p * (q - 1) /\ p * b \in Nat /\ p * (q - 1) = p * q - p
    OBVIOUS
  <2>3. QED
    BY <1>4, <2>1, <2>2
<1>7. ASSUME NEW u \in WordValues, NEW v \in WordValues, Rotl(u, n, bits) = Rotl(v, n, bits)
      PROVE  u = v
  <2>1. PICK a \in 0 .. (p - 1), b \in 0 .. (q - 1) : u = q * a + b /\ Rotl(u, n, bits) = p * b + a
    BY <1>5
  <2>2. PICK c \in 0 .. (p - 1), d \in 0 .. (q - 1) : v = q * c + d /\ Rotl(v, n, bits) = p * d + c
    BY <1>5
  <2>3. (p * b + a) \div p = b /\ (p * b + a) % p = a
    BY QuotientIsUnique
  <2>4. (p * d + c) \div p = d /\ (p * d + c) % p = c
    BY QuotientIsUnique
  <2>5. a = c /\ b = d
    BY <1>7, <2>1, <2>2, <2>3, <2>4
  <2>6. QED
    BY <2>1, <2>2, <2>5
<1>8. QED
  BY <1>6, <1>7 DEF Permutes, RotlStep

(* The odd constants of the code stay odd, and stay words. *)
LEMMA OddConstants ==
  ASSUME NEW high \in Nat, NEW low \in Nat, low % 2 = 1
  PROVE  /\ Word32(high, low) \in WordValues
         /\ Word32(high, low) \in Nat
         /\ Word32(high, low) % 2 = 1
<1>1. \A h \in WordValues : h \in Nat
  BY WordsAreNumbers
<1>2. QED
  BY <1>1, ConstantsAreWords

LEMMA OddLongConstants ==
  ASSUME NEW a \in Nat, NEW b \in Nat, NEW c \in Nat, NEW low \in Nat, low % 2 = 1
  PROVE  /\ Word64(a, b, c, low) \in WordValues
         /\ Word64(a, b, c, low) \in Nat
         /\ Word64(a, b, c, low) % 2 = 1
<1>1. \A h \in WordValues : h \in Nat
  BY WordsAreNumbers
<1>2. QED
  BY <1>1, LongConstantsAreWords

LEMMA PermutationIsOneToOne ==
  ASSUME NEW f, DOMAIN f = WordValues, Permutes(f)
  PROVE  IsOneToOne(f)
<1>1. \A u, v \in WordValues : f[u] = f[v] => u = v
  BY DEF Permutes
<1>2. IsFiniteSet(WordValues)
  BY WordsAreNumbers
<1>3. Cardinality({f[h] : h \in WordValues}) = Cardinality(WordValues)
  BY <1>1, <1>2, OneToOneKeepsCount
<1>4. QED
  BY <1>3 DEF IsOneToOne

LEMMA WrapIsInt ==
  ASSUME NEW a \in Int
  PROVE  Wrap(a) \in Int
BY WordsAreNumbers DEF Wrap

LEMMA WrapOfTwo ==
  ASSUME NEW a \in Int, NEW b \in Int, NEW h \in Int, NEW c \in Int
  PROVE  Wrap(Wrap(a) + Wrap(b) - h + c) = Wrap(a + b + (c - h))
<1>1. Wrap(a) \in Int /\ Wrap(b) \in Int /\ c - h \in Int
  BY WrapIsInt
<1>2. PICK p \in Int, q \in Int : p = Wrap(a) + (c - h) /\ q = b + (c - h)
  BY <1>1
<1>3. Wrap(p + Wrap(b)) = Wrap(p + b)
  BY WrapOfWrap
<1>4. Wrap(q + Wrap(a)) = Wrap(q + a)
  BY WrapOfWrap
<1>5. /\ Wrap(a) + Wrap(b) - h + c = p + Wrap(b)
      /\ p + b = q + Wrap(a) /\ q + a = a + b + (c - h)
  BY <1>1, <1>2
<1>6. QED
  BY <1>3, <1>4, <1>5

LEMMA WrapOfFive ==
  ASSUME NEW h \in Int, NEW a \in Int, NEW b \in Int, NEW c \in Int, NEW d \in Int, NEW e \in Int
  PROVE  Wrap(h + Wrap(a) + Wrap(b) + Wrap(c) + Wrap(d) + Wrap(e)) = Wrap(h + a + b + c + d + e)
<1>1. PICK i, j, k, l, n \in Int :
        i = Wrap(a) /\ j = Wrap(b) /\ k = Wrap(c) /\ l = Wrap(d) /\ n = Wrap(e)
  BY WrapIsInt
<1>2. Wrap((h + i + j + k + l) + Wrap(e)) = Wrap((h + i + j + k + l) + e)
  BY WrapOfWrap
<1>3. Wrap((h + i + j + k + e) + Wrap(d)) = Wrap((h + i + j + k + e) + d)
  BY WrapOfWrap
<1>4. Wrap((h + i + j + d + e) + Wrap(c)) = Wrap((h + i + j + d + e) + c)
  BY WrapOfWrap
<1>5. Wrap((h + i + c + d + e) + Wrap(b)) = Wrap((h + i + c + d + e) + b)
  BY WrapOfWrap
<1>6. Wrap((h + b + c + d + e) + Wrap(a)) = Wrap((h + b + c + d + e) + a)
  BY WrapOfWrap
<1>7. /\ (h + i + j + k + l) + e = (h + i + j + k + e) + l
      /\ (h + i + j + k + e) + d = (h + i + j + d + e) + k
      /\ (h + i + j + d + e) + c = (h + i + c + d + e) + j
      /\ (h + i + c + d + e) + b = (h + b + c + d + e) + i
      /\ (h + b + c + d + e) + a = h + a + b + c + d + e
  OBVIOUS
<1>8. QED
  BY <1>1, <1>2, <1>3, <1>4, <1>5, <1>6, <1>7

(* A step that can be undone if either of its words is known. *)
PermutesTwice(F) ==
  /\ \A h, c \in WordValues : F[h][c] \in WordValues
  /\ \A h, c, d \in WordValues : F[h][c] = F[h][d] => c = d
  /\ \A g, h, c \in WordValues : F[g][c] = F[h][c] => g = h

LEMMA PermutesTwiceOver ==
  ASSUME NEW F, PermutesTwice(F), NEW values, values \in {ByteValues, WordValues}
  PROVE  /\ \A h \in WordValues : IsOneToOne([c \in values |-> F[h][c]])
         /\ \A c \in values : IsOneToOne([h \in WordValues |-> F[h][c]])
<1>1. IsFiniteSet(WordValues) /\ IsFiniteSet(values) /\ values \subseteq WordValues
  BY WordsAreNumbers
<1>2. ASSUME NEW h \in WordValues
      PROVE  IsOneToOne([c \in values |-> F[h][c]])
  <2> DEFINE f == [c \in values |-> F[h][c]]
  <2>1. \A c, d \in values : f[c] = f[d] => c = d
    BY <1>1 DEF PermutesTwice
  <2>2. DOMAIN f = values
    OBVIOUS
  <2> HIDE DEF f
  <2>3. Cardinality({f[c] : c \in values}) = Cardinality(values)
    BY <1>1, <2>1, OneToOneKeepsCount
  <2>4. IsOneToOne(f)
    BY <2>2, <2>3 DEF IsOneToOne
  <2>5. QED
    BY <2>4 DEF f
<1>3. ASSUME NEW c \in values
      PROVE  IsOneToOne([h \in WordValues |-> F[h][c]])
  <2> DEFINE f == [h \in WordValues |-> F[h][c]]
  <2>1. \A g, h \in WordValues : f[g] = f[h] => g = h
    BY <1>1 DEF PermutesTwice
  <2>2. DOMAIN f = WordValues
    OBVIOUS
  <2> HIDE DEF f
  <2>3. Cardinality({f[h] : h \in WordValues}) = Cardinality(WordValues)
    BY <1>1, <2>1, OneToOneKeepsCount
  <2>4. IsOneToOne(f)
    BY <2>2, <2>3 DEF IsOneToOne
  <2>5. QED
    BY <2>4 DEF f
<1>4. QED
  BY <1>2, <1>3

LEMMA PermutesTwiceIsOneToOne ==
  ASSUME NEW F, PermutesTwice(F)
  PROVE  /\ \A h \in WordValues : IsOneToOne([c \in ByteValues |-> F[h][c]])
         /\ \A c \in ByteValues : IsOneToOne([h \in WordValues |-> F[h][c]])
         /\ \A h \in WordValues : IsOneToOne([c \in WordValues |-> F[h][c]])
         /\ \A c \in WordValues : IsOneToOne([h \in WordValues |-> F[h][c]])
<1>1. ByteValues \in {ByteValues, WordValues} /\ WordValues \in {ByteValues, WordValues}
  OBVIOUS
<1>2. /\ \A h \in WordValues : IsOneToOne([c \in ByteValues |-> F[h][c]])
      /\ \A c \in ByteValues : IsOneToOne([h \in WordValues |-> F[h][c]])
  BY <1>1, PermutesTwiceOver
<1>3. /\ \A h \in WordValues : IsOneToOne([c \in WordValues |-> F[h][c]])
      /\ \A c \in WordValues : IsOneToOne([h \in WordValues |-> F[h][c]])
  BY <1>1, PermutesTwiceOver
<1>4. QED
  BY <1>2, <1>3

(* An odd multiple of a word plus another word. *)
LEMMA LinearPermutesTwice ==
  ASSUME NEW f \in Int, f % 2 = 1
  PROVE  PermutesTwice([h \in WordValues |-> [c \in WordValues |-> Wrap(h * f + c)]])
<1>1. ASSUME NEW h \in WordValues, NEW c \in WordValues
      PROVE  h * f \in Int /\ c \in Int /\ h * f + c \in Int /\ Wrap(h * f + c) \in WordValues
  <2>1. h * f \in Int /\ c \in Int /\ h * f + c \in Int
    BY WordsAreNumbers
  <2>2. QED
    BY <2>1, WrapIsWord
<1>2. ASSUME NEW h \in WordValues, NEW c \in WordValues, NEW d \in WordValues,
             Wrap(h * f + c) = Wrap(h * f + d)
      PROVE  c = d
  <2>1. PICK a \in Int : a = h * f
    BY <1>1
  <2>2. c \in Int /\ d \in Int
    BY WordsAreNumbers
  <2>3. a + c = c + a /\ a + d = d + a
    BY <2>2
  <2>4. Wrap(c + a) = Wrap(d + a)
    BY <1>2, <2>1, <2>3
  <2>5. Wrap(c) = Wrap(d)
    BY <2>2, <2>4, WrapOfSumCancels
  <2>6. QED
    BY <2>5, WrapOfWord
<1>3. ASSUME NEW g \in WordValues, NEW h \in WordValues, NEW c \in WordValues,
             Wrap(g * f + c) = Wrap(h * f + c)
      PROVE  g = h
  BY <1>1, <1>3, LinearCancels
<1>4. QED
  BY <1>1, <1>2, <1>3 DEF PermutesTwice

(* The exclusive or of a word and of a permuted one. *)
LEMMA XorPermutesTwice ==
  ASSUME NEW f, Permutes(f), NEW F, \A h, c \in WordValues : F[h][c] = h ^^ f[c]
  PROVE  PermutesTwice(F)
<1>1. ASSUME NEW c \in WordValues
      PROVE  f[c] \in WordValues /\ \A d \in WordValues : f[c] = f[d] => c = d
  BY DEF Permutes
<1>2. \A h, c \in WordValues : F[h][c] \in WordValues
  BY <1>1, XorIsWord
<1>3. ASSUME NEW h \in WordValues, NEW c \in WordValues, NEW d \in WordValues, F[h][c] = F[h][d]
      PROVE  c = d
  <2>1. h ^^ f[c] = h ^^ f[d]
    BY <1>3
  <2>2. f[c] = f[d]
    BY <1>1, <2>1, XorWordCancels
  <2>3. QED
    BY <1>1, <2>2
<1>4. ASSUME NEW g \in WordValues, NEW h \in WordValues, NEW c \in WordValues, F[g][c] = F[h][c]
      PROVE  g = h
  <2>1. g ^^ f[c] = h ^^ f[c]
    BY <1>4
  <2>2. QED
    BY <1>1, <2>1, XorWordCancels
<1>5. QED
  BY <1>2, <1>3, <1>4 DEF PermutesTwice

(* What is done to the result of a step. *)
LEMMA AfterwardsPermutesTwice ==
  ASSUME NEW E, PermutesTwice(E), NEW g, Permutes(g),
         NEW F, \A h, c \in WordValues : F[h][c] = g[E[h][c]]
  PROVE  PermutesTwice(F)
<1>1. ASSUME NEW h \in WordValues, NEW c \in WordValues
      PROVE  F[h][c] = g[E[h][c]] /\ E[h][c] \in WordValues /\ F[h][c] \in WordValues
  <2>1. F[h][c] = g[E[h][c]] /\ E[h][c] \in WordValues
    BY DEF PermutesTwice
  <2>2. QED
    BY <2>1 DEF Permutes
<1>2. ASSUME NEW h \in WordValues, NEW c \in WordValues, NEW d \in WordValues, F[h][c] = F[h][d]
      PROVE  c = d
  <2>1. E[h][c] = E[h][d]
    BY <1>1, <1>2 DEF Permutes
  <2>2. QED
    BY <2>1 DEF PermutesTwice
<1>3. ASSUME NEW k \in WordValues, NEW h \in WordValues, NEW c \in WordValues, F[k][c] = F[h][c]
      PROVE  k = h
  <2>1. E[k][c] = E[h][c]
    BY <1>1, <1>3 DEF Permutes
  <2>2. QED
    BY <2>1 DEF PermutesTwice
<1>4. QED
  BY <1>1, <1>2, <1>3 DEF PermutesTwice

-----------------------------------------------------------------------------
LEMMA Fmix32Permutes ==
  Permutes([h \in WordValues |-> fmix32(h)])
<1> DEFINE k1 == Word32(\h85EB, \hCA6B)
<1> DEFINE k2 == Word32(\hC2B2, \hAE35)
<1> DEFINE s1 == ShiftStep(16, 32)
<1> DEFINE t1 == TimesStep(k1)
<1> DEFINE s2 == ShiftStep(13, 32)
<1> DEFINE t2 == TimesStep(k2)
<1> DEFINE s3 == ShiftStep(16, 32)
<1>1. k1 \in WordValues /\ k1 \in Nat /\ k1 % 2 = 1
  <2>1. \hCA6B % 2 = 1
    OBVIOUS
  <2>2. QED
    BY <2>1, OddConstants
<1>2. k2 \in WordValues /\ k2 \in Nat /\ k2 % 2 = 1
  <2>1. \hAE35 % 2 = 1
    OBVIOUS
  <2>2. QED
    BY <2>1, OddConstants
<1>3. Permutes(s1) /\ Permutes(t1) /\ Permutes(s2) /\ Permutes(t2) /\ Permutes(s3)
  <2> HIDE DEF k1, k2
  <2>1. QED
    BY <1>1, <1>2, ShiftStepPermutes, TimesStepPermutes
<1>4. \A h \in WordValues : fmix32(h) = s3[t2[s2[t1[s1[h]]]]]
  BY <1>3 DEF Permutes, ShiftStep, TimesStep, fmix32
<1>5. QED
  <2> HIDE DEF s1, t1, s2, t2, s3
  <2>1. QED
    BY <1>3, <1>4 DEF Permutes

LEMMA Fmix64Permutes ==
  Permutes([h \in WordValues |-> fmix64(h)])
<1> DEFINE k1 == Word64(\hFF51, \hAFD7, \hED55, \h8CCD)
<1> DEFINE k2 == Word64(\hC4CE, \hB9FE, \h1A85, \hEC53)
<1> DEFINE s1 == ShiftStep(33, 64)
<1> DEFINE t1 == TimesStep(k1)
<1> DEFINE s2 == ShiftStep(33, 64)
<1> DEFINE t2 == TimesStep(k2)
<1> DEFINE s3 == ShiftStep(33, 64)
<1>1. k1 \in WordValues /\ k1 \in Nat /\ k1 % 2 = 1
  <2>1. \h8CCD % 2 = 1
    OBVIOUS
  <2>2. QED
    BY <2>1, OddLongConstants
<1>2. k2 \in WordValues /\ k2 \in Nat /\ k2 % 2 = 1
  <2>1. \hEC53 % 2 = 1
    OBVIOUS
  <2>2. QED
    BY <2>1, OddLongConstants
<1>3. Permutes(s1) /\ Permutes(t1) /\ Permutes(s2) /\ Permutes(t2) /\ Permutes(s3)
  <2> HIDE DEF k1, k2
  <2>1. QED
    BY <1>1, <1>2, ShiftStepPermutes, TimesStepPermutes
<1>4. \A h \in WordValues : fmix64(h) = s3[t2[s2[t1[s1[h]]]]]
  BY <1>3 DEF Permutes, ShiftStep, TimesStep, fmix64
<1>5. QED
  <2> HIDE DEF s1, t1, s2, t2, s3
  <2>1. QED
    BY <1>3, <1>4 DEF Permutes

LEMMA ShiftMixPermutes ==
  Permutes([h \in WordValues |-> ShiftMix(h)])
<1> DEFINE s1 == ShiftStep(47, 64)
<1>1. Permutes(s1)
  BY ShiftStepPermutes
<1>2. \A h \in WordValues : ShiftMix(h) = s1[h]
  BY <1>1 DEF Permutes, ShiftStep, ShiftMix
<1>3. QED
  <2> HIDE DEF s1
  <2>1. QED
    BY <1>1, <1>2 DEF Permutes

LEMMA ThomasWangPermutes ==
  Permutes([h \in WordValues |-> hash_thomas_wang_integer(h)])
<1> DEFINE k1 == Wrap(61)
<1> DEFINE k2 == Word32(\h27D4, \hEB2D)
<1> DEFINE s1 == XorAndShiftStep(16, 32, k1)
<1> DEFINE s2 == PlusStep(3, 32)
<1> DEFINE s3 == ShiftStep(4, 32)
<1> DEFINE s4 == TimesStep(k2)
<1> DEFINE s5 == ShiftStep(15, 32)
<1>1. k1 \in WordValues
  BY WrapIsWord
<1>2. k2 \in WordValues /\ k2 \in Nat /\ k2 % 2 = 1
  <2>1. \hEB2D % 2 = 1
    OBVIOUS
  <2>2. QED
    BY <2>1, OddConstants
<1>3. Permutes(s1) /\ Permutes(s2) /\ Permutes(s3) /\ Permutes(s4) /\ Permutes(s5)
  <2> HIDE DEF k1, k2
  <2>1. QED
    BY <1>1, <1>2, XorAndShiftStepPermutes, PlusStepPermutes, ShiftStepPermutes, TimesStepPermutes
<1>4. \A h \in WordValues : hash_thomas_wang_integer(h) = s5[s4[s3[s2[s1[h]]]]]
  BY <1>3 DEF Permutes, XorAndShiftStep, PlusStep, ShiftStep, TimesStep, hash_thomas_wang_integer
<1>5. QED
  <2> HIDE DEF s1, s2, s3, s4, s5
  <2>1. QED
    BY <1>3, <1>4 DEF Permutes

LEMMA JenkinsIntegerPermutes ==
  Permutes([h \in WordValues |-> hash_jenkins_integer(h)])
<1> DEFINE k1 == Word32(\h7ED5, \h5D16)
<1> DEFINE k2 == Word32(\hC761, \hC23C)
<1> DEFINE k3 == Word32(\h1656, \h67B1)
<1> DEFINE k4 == Word32(\hD3A2, \h646C)
<1> DEFINE k5 == Word32(\hFD70, \h46C5)
<1> DEFINE k6 == Word32(\hB55A, \h4F09)
<1> DEFINE s1 == SumAndShiftStep(12, 32, k1)
<1> DEFINE s2 == XorAndShiftStep(19, 32, k2)
<1> DEFINE s3 == SumAndShiftStep(5, 32, k3)
<1> DEFINE s4 == XorOfSumStep(9, 32, k4)
<1> DEFINE s5 == SumAndShiftStep(3, 32, k5)
<1> DEFINE s6 == XorAndShiftStep(16, 32, k6)
<1>1. k1 \in WordValues
  BY ConstantsAreWords
<1>2. k2 \in WordValues
  BY ConstantsAreWords
<1>3. k3 \in WordValues /\ k3 \in Nat /\ k3 % 2 = 1
  <2>1. \h67B1 % 2 = 1
    OBVIOUS
  <2>2. QED
    BY <2>1, OddConstants
<1>4. k4 \in WordValues
  BY ConstantsAreWords
<1>5. k5 \in WordValues /\ k5 \in Nat /\ k5 % 2 = 1
  <2>1. \h46C5 % 2 = 1
    OBVIOUS
  <2>2. QED
    BY <2>1, OddConstants
<1>6. k6 \in WordValues /\ k6 \in Nat /\ k6 % 2 = 1
  <2>1. \h4F09 % 2 = 1
    OBVIOUS
  <2>2. QED
    BY <2>1, OddConstants
<1>7. Permutes(s1) /\ Permutes(s2) /\ Permutes(s3) /\ Permutes(s4) /\ Permutes(s5) /\ Permutes(s6)
  <2> HIDE DEF k1, k2, k3, k4, k5, k6
  <2>1. QED
    BY <1>1, <1>2, <1>3, <1>4, <1>5, <1>6, SumAndShiftStepPermutes, XorAndShiftStepPermutes, XorOfSumStepPermutes
<1>8. \A h \in WordValues : hash_jenkins_integer(h) = s6[s5[s4[s3[s2[s1[h]]]]]]
  BY <1>7 DEF Permutes, SumAndShiftStep, XorAndShiftStep, XorOfSumStep, hash_jenkins_integer
<1>9. QED
  <2> HIDE DEF s1, s2, s3, s4, s5, s6
  <2>1. QED
    BY <1>7, <1>8 DEF Permutes

LEMMA Shift32Permutes ==
  Permutes([h \in WordValues |-> hash_32shift(h)])
<1> DEFINE s1 == ComplementStep(15, 32)
<1> DEFINE s2 == ShiftStep(12, 32)
<1> DEFINE s3 == PlusStep(2, 32)
<1> DEFINE s4 == ShiftStep(4, 32)
<1> DEFINE s5 == TimesStep(2057)
<1> DEFINE s6 == ShiftStep(16, 32)
<1>1. Permutes(s1) /\ Permutes(s2) /\ Permutes(s3) /\ Permutes(s4) /\ Permutes(s5) /\ Permutes(s6)
  BY ComplementStepPermutes, ShiftStepPermutes, PlusStepPermutes, TimesStepPermutes
<1>2. \A h \in WordValues : hash_32shift(h) = s6[s5[s4[s3[s2[s1[h]]]]]]
  BY <1>1 DEF Permutes, ComplementStep, ShiftStep, PlusStep, TimesStep, hash_32shift
<1>3. QED
  <2> HIDE DEF s1, s2, s3, s4, s5, s6
  <2>1. QED
    BY <1>1, <1>2 DEF Permutes

LEMMA Simp32Permutes ==
  Permutes([h \in WordValues |-> hash_32simp(h)])
<1> DEFINE k1 == Word32(\h45D, \h9F3B)
<1> DEFINE s1 == ShiftStep(16, 32)
<1> DEFINE s2 == TimesStep(k1)
<1> DEFINE s3 == ShiftStep(16, 32)
<1> DEFINE s4 == TimesStep(k1)
<1> DEFINE s5 == ShiftStep(16, 32)
<1>1. k1 \in WordValues /\ k1 \in Nat /\ k1 % 2 = 1
  <2>1. \h9F3B % 2 = 1
    OBVIOUS
  <2>2. QED
    BY <2>1, OddConstants
<1>2. Permutes(s1) /\ Permutes(s2) /\ Permutes(s3) /\ Permutes(s4) /\ Permutes(s5)
  <2> HIDE DEF k1
  <2>1. QED
    BY <1>1, ShiftStepPermutes, TimesStepPermutes
<1>3. \A h \in WordValues : hash_32simp(h) = s5[s4[s3[s2[s1[h]]]]]
  BY <1>2 DEF Permutes, ShiftStep, TimesStep, hash_32simp
<1>4. QED
  <2> HIDE DEF s1, s2, s3, s4, s5
  <2>1. QED
    BY <1>2, <1>3 DEF Permutes

(***************************************************************************)
(* Two integer keys never have the same hash, whatever the width of the    *)
(* words: every function for integers can be undone step by step.          *)
(***************************************************************************)
THEOREM IntegersDoNotCollide == Spec => []IntegersNeverCollide
<1>1. IntegersNeverCollide
  BY Fmix32Permutes, Fmix64Permutes, ShiftMixPermutes, JenkinsIntegerPermutes, ThomasWangPermutes, Shift32Permutes, Simp32Permutes, PermutationIsOneToOne
    DEF IntegersNeverCollide
<1>2. QED
  BY <1>1, PTL

-----------------------------------------------------------------------------
LEMMA Murmur3Constants ==
  c1 \in Nat /\ c1 % 2 = 1 /\ c2 \in Nat /\ c2 % 2 = 1
<1>1. \h2D51 % 2 = 1 /\ \h3593 % 2 = 1
  OBVIOUS
<1>2. c1 \in Nat /\ c1 % 2 = 1
  BY <1>1, OddConstants DEF c1
<1>3. c2 \in Nat /\ c2 % 2 = 1
  BY <1>1, OddConstants DEF c2
<1>4. QED
  BY <1>2, <1>3

LEMMA MurmurConstant ==
  m \in Nat /\ m % 2 = 1
<1>1. \hE995 % 2 = 1
  OBVIOUS
<1>2. QED
  BY <1>1, OddLongConstants DEF m

LEMMA MurPermutes ==
  PermutesTwice([h \in WordValues |-> [a \in WordValues |-> mur(a, h)]])
<1> DEFINE k == Word32(\hE654, \h6B64)
<1> DEFINE t1 == TimesStep(c1)
<1> DEFINE r1 == RotlStep(17, 32)
<1> DEFINE t2 == TimesStep(c2)
<1> DEFINE r2 == RotlStep(19, 32)
<1> DEFINE l == LinearStep(5, k)
<1> DEFINE f == [a \in WordValues |-> t2[r1[t1[a]]]]
<1> DEFINE E == [h \in WordValues |-> [a \in WordValues |-> h ^^ f[a]]]
<1> DEFINE g == [h \in WordValues |-> l[r2[h]]]
<1> DEFINE F == [h \in WordValues |-> [a \in WordValues |-> mur(a, h)]]
<1>1. k \in WordValues
  BY ConstantsAreWords
<1>2. c1 \in Nat /\ c1 % 2 = 1 /\ c2 \in Nat /\ c2 % 2 = 1
  BY Murmur3Constants
<1>3. k \in Int
  <2> HIDE DEF k
  <2>1. QED
    BY <1>1, WordsAreNumbers
<1>4. Permutes(t1) /\ Permutes(r1) /\ Permutes(t2) /\ Permutes(r2) /\ Permutes(l)
  <2> HIDE DEF k
  <2>1. QED
    BY <1>1, <1>2, <1>3, TimesStepPermutes, RotlStepPermutes, LinearStepPermutes
<1>5. Permutes(f) /\ Permutes(g)
  <2> HIDE DEF t1, r1, t2, r2, l
  <2>1. QED
    BY <1>4 DEF Permutes
<1>6. PermutesTwice(E)
  <2>1. \A h, a \in WordValues : E[h][a] = h ^^ f[a]
    OBVIOUS
  <2> HIDE DEF E, f
  <2>2. QED
    BY <1>5, <2>1, XorPermutesTwice
<1>7. \A h, a \in WordValues : F[h][a] = g[E[h][a]]
  <2>1. \A h, a \in WordValues : E[h][a] \in WordValues
    BY <1>6 DEF PermutesTwice
  <2>2. \A a \in WordValues : f[a] = Times(Rotl(Times(a, c1), 17, 32), c2) /\ Times(Rotl(Times(a, c1), 17, 32), c2) \in WordValues
    BY <1>4 DEF Permutes, TimesStep, RotlStep, LinearStep
  <2>3. \A h \in WordValues : g[h] = Wrap(Rotl(h, 19, 32) * 5 + k)
    BY <1>4 DEF Permutes, TimesStep, RotlStep, LinearStep
  <2>4. \A h, a \in WordValues : E[h][a] = h ^^ Times(Rotl(Times(a, c1), 17, 32), c2)
    BY <2>2
  <2> HIDE DEF E, g, f
  <2>5. QED
    BY <2>1, <2>3, <2>4 DEF mur
<1>8. PermutesTwice(F)
  <2> HIDE DEF F, E, g
  <2>1. QED
    BY <1>5, <1>6, <1>7, AfterwardsPermutesTwice
<1>9. QED
  BY <1>8

LEMMA Murmur3TailPermutes ==
  PermutesTwice([h \in WordValues |-> [k1 \in WordValues |-> Murmur3Tail(h, k1)]])
<1> DEFINE t1 == TimesStep(c1)
<1> DEFINE r1 == RotlStep(15, 32)
<1> DEFINE t2 == TimesStep(c2)
<1> DEFINE f == [k1 \in WordValues |-> t2[r1[t1[k1]]]]
<1> DEFINE E == [h \in WordValues |-> [k1 \in WordValues |-> h ^^ f[k1]]]
<1> DEFINE F == [h \in WordValues |-> [k1 \in WordValues |-> Murmur3Tail(h, k1)]]
<1>1. c1 \in Nat /\ c1 % 2 = 1 /\ c2 \in Nat /\ c2 % 2 = 1
  BY Murmur3Constants
<1>2. Permutes(t1) /\ Permutes(r1) /\ Permutes(t2)
  BY <1>1, TimesStepPermutes, RotlStepPermutes
<1>3. Permutes(f)
  <2> HIDE DEF t1, r1, t2
  <2>1. QED
    BY <1>2 DEF Permutes
<1>4. PermutesTwice(E)
  <2>1. \A h, k1 \in WordValues : E[h][k1] = h ^^ f[k1]
    OBVIOUS
  <2> HIDE DEF E, f
  <2>2. QED
    BY <1>3, <2>1, XorPermutesTwice
<1>5. \A h, k1 \in WordValues : F[h][k1] = E[h][k1]
  <2>1. \A h, k1 \in WordValues : E[h][k1] \in WordValues
    BY <1>4 DEF PermutesTwice
  <2>2. QED
    BY <1>1, <1>2, <2>1 DEF Permutes, TimesStep, RotlStep, Murmur3Tail
<1>6. PermutesTwice(F)
  <2> HIDE DEF F, E
  <2>1. QED
    BY <1>4, <1>5 DEF PermutesTwice
<1>7. QED
  BY <1>6

LEMMA Murmur3BlockPermutes ==
  PermutesTwice([h \in WordValues |-> [k1 \in WordValues |-> Murmur3Block(h, k1)]])
<1> DEFINE k == Word32(\hE654, \h6B64)
<1> DEFINE t1 == TimesStep(c1)
<1> DEFINE r1 == RotlStep(15, 32)
<1> DEFINE t2 == TimesStep(c2)
<1> DEFINE r2 == RotlStep(13, 32)
<1> DEFINE l == LinearStep(5, k)
<1> DEFINE f == [k1 \in WordValues |-> t2[r1[t1[k1]]]]
<1> DEFINE E == [h \in WordValues |-> [k1 \in WordValues |-> h ^^ f[k1]]]
<1> DEFINE g == [h \in WordValues |-> l[r2[h]]]
<1> DEFINE F == [h \in WordValues |-> [k1 \in WordValues |-> Murmur3Block(h, k1)]]
<1>1. k \in WordValues
  BY ConstantsAreWords
<1>2. c1 \in Nat /\ c1 % 2 = 1 /\ c2 \in Nat /\ c2 % 2 = 1
  BY Murmur3Constants
<1>3. k \in Int
  <2> HIDE DEF k
  <2>1. QED
    BY <1>1, WordsAreNumbers
<1>4. Permutes(t1) /\ Permutes(r1) /\ Permutes(t2) /\ Permutes(r2) /\ Permutes(l)
  <2> HIDE DEF k
  <2>1. QED
    BY <1>1, <1>2, <1>3, TimesStepPermutes, RotlStepPermutes, LinearStepPermutes
<1>5. Permutes(f) /\ Permutes(g)
  <2> HIDE DEF t1, r1, t2, r2, l
  <2>1. QED
    BY <1>4 DEF Permutes
<1>6. PermutesTwice(E)
  <2>1. \A h, k1 \in WordValues : E[h][k1] = h ^^ f[k1]
    OBVIOUS
  <2> HIDE DEF E, f
  <2>2. QED
    BY <1>5, <2>1, XorPermutesTwice
<1>7. \A h, k1 \in WordValues : F[h][k1] = g[E[h][k1]]
  <2>1. \A h, k1 \in WordValues : E[h][k1] \in WordValues
    BY <1>6 DEF PermutesTwice
  <2>2. \A k1 \in WordValues : f[k1] = Times(Rotl(Times(k1, c1), 15, 32), c2) /\ Times(Rotl(Times(k1, c1), 15, 32), c2) \in WordValues
    BY <1>4 DEF Permutes, TimesStep, RotlStep, LinearStep
  <2>3. \A h \in WordValues : g[h] = Wrap(Rotl(h, 13, 32) * 5 + k)
    BY <1>4 DEF Permutes, TimesStep, RotlStep, LinearStep
  <2>4. \A h, k1 \in WordValues : E[h][k1] = h ^^ Times(Rotl(Times(k1, c1), 15, 32), c2)
    BY <2>2
  <2> HIDE DEF E, g, f
  <2>5. QED
    BY <2>1, <2>3, <2>4 DEF Murmur3Block, Murmur3Tail
<1>8. PermutesTwice(F)
  <2> HIDE DEF F, E, g
  <2>1. QED
    BY <1>5, <1>6, <1>7, AfterwardsPermutesTwice
<1>9. QED
  BY <1>8

LEMMA MurmurBlockPermutes ==
  PermutesTwice([h \in WordValues |-> [k \in WordValues |-> MurmurHash64ABlock(h, k)]])
<1> DEFINE t == TimesStep(m)
<1> DEFINE s == ShiftStep(47, 64)
<1> DEFINE f == [k \in WordValues |-> t[s[t[k]]]]
<1> DEFINE E == [h \in WordValues |-> [k \in WordValues |-> h ^^ f[k]]]
<1> DEFINE g == [h \in WordValues |-> t[h]]
<1> DEFINE F == [h \in WordValues |-> [k \in WordValues |-> MurmurHash64ABlock(h, k)]]
<1>1. m \in Nat /\ m % 2 = 1
  BY MurmurConstant
<1>2. Permutes(t) /\ Permutes(s)
  BY <1>1, TimesStepPermutes, ShiftStepPermutes
<1>3. Permutes(f) /\ Permutes(g)
  <2> HIDE DEF t, s
  <2>1. QED
    BY <1>2 DEF Permutes
<1>4. PermutesTwice(E)
  <2>1. \A h, k \in WordValues : E[h][k] = h ^^ f[k]
    OBVIOUS
  <2> HIDE DEF E, f
  <2>2. QED
    BY <1>3, <2>1, XorPermutesTwice
<1>5. \A h, k \in WordValues : F[h][k] = g[E[h][k]]
  <2>1. \A h, k \in WordValues : E[h][k] \in WordValues
    BY <1>4 DEF PermutesTwice
  <2>2. QED
    BY <1>1, <1>2, <2>1 DEF Permutes, TimesStep, ShiftStep, MurmurHash64ABlock
<1>6. PermutesTwice(F)
  <2> HIDE DEF F, E, g
  <2>1. QED
    BY <1>3, <1>4, <1>5, AfterwardsPermutesTwice
<1>7. QED
  BY <1>6

LEMMA MurmurBytePermutes ==
  PermutesTwice([h \in WordValues |-> [c \in WordValues |-> MurmurOAAT64Byte(h, c)]])
<1> DEFINE k == Word64(\h5BD1, \hE995, \h5BD1, \hE995)
<1> DEFINE t == TimesStep(k)
<1> DEFINE s == ShiftStep(47, 64)
<1> DEFINE f == [c \in WordValues |-> c]
<1> DEFINE E == [h \in WordValues |-> [c \in WordValues |-> h ^^ f[c]]]
<1> DEFINE g == [h \in WordValues |-> s[t[h]]]
<1> DEFINE F == [h \in WordValues |-> [c \in WordValues |-> MurmurOAAT64Byte(h, c)]]
<1>1. k \in WordValues /\ k \in Nat /\ k % 2 = 1
  <2>1. \hE995 % 2 = 1
    OBVIOUS
  <2>2. QED
    BY <2>1, OddLongConstants
<1>2. Permutes(t) /\ Permutes(s)
  <2> HIDE DEF k
  <2>1. QED
    BY <1>1, TimesStepPermutes, ShiftStepPermutes
<1>3. Permutes(f) /\ Permutes(g)
  <2> HIDE DEF t, s
  <2>1. QED
    BY <1>2 DEF Permutes
<1>4. PermutesTwice(E)
  <2>1. \A h, c \in WordValues : E[h][c] = h ^^ f[c]
    OBVIOUS
  <2> HIDE DEF E, f
  <2>2. QED
    BY <1>3, <2>1, XorPermutesTwice
<1>5. \A h, c \in WordValues : F[h][c] = g[E[h][c]]
  <2>1. \A h, c \in WordValues : E[h][c] \in WordValues
    BY <1>4 DEF PermutesTwice
  <2>2. QED
    BY <1>1, <1>2, <2>1 DEF Permutes, TimesStep, ShiftStep, MurmurOAAT64Byte
<1>6. PermutesTwice(F)
  <2> HIDE DEF F, E, g
  <2>1. QED
    BY <1>3, <1>4, <1>5, AfterwardsPermutesTwice
<1>7. QED
  BY <1>6

LEMMA JenkinsBytePermutes ==
  PermutesTwice([h \in WordValues |-> [c \in WordValues |-> JenkinsByte(h, c)]])
<1> DEFINE p == PlusStep(10, 64)
<1> DEFINE s == ShiftStep(6, 64)
<1> DEFINE E == [h \in WordValues |-> [c \in WordValues |-> Wrap(h * 1 + c)]]
<1> DEFINE g == [h \in WordValues |-> s[p[h]]]
<1> DEFINE F == [h \in WordValues |-> [c \in WordValues |-> JenkinsByte(h, c)]]
<1>1. \A h \in WordValues : h * 1 = h
  BY WordsAreNumbers
<1>2. Permutes(p) /\ Permutes(s)
  BY <1>1, PlusStepPermutes, ShiftStepPermutes
<1>3. Permutes(g)
  <2> HIDE DEF p, s
  <2>1. QED
    BY <1>2 DEF Permutes
<1>4. PermutesTwice(E)
  BY <1>1, LinearPermutesTwice
<1>5. \A h, c \in WordValues : F[h][c] = g[E[h][c]]
  <2>1. \A h, c \in WordValues : E[h][c] \in WordValues
    BY <1>4 DEF PermutesTwice
  <2>2. QED
    BY <1>1, <1>2, <2>1 DEF Permutes, PlusStep, ShiftStep, JenkinsByte
<1>6. PermutesTwice(F)
  <2> HIDE DEF F, E, g
  <2>1. QED
    BY <1>3, <1>4, <1>5, AfterwardsPermutesTwice
<1>7. QED
  BY <1>6

(* The multiples of a word that the two oldest functions add are odd ones. *)
LEMMA SdbmBytePermutes ==
  PermutesTwice([h \in WordValues |-> [c \in WordValues |-> SdbmByte(h, c)]])
<1>1. PICK t \in Nat : t = Two[Scaled(6, 64)] /\ t % 2 = 0
  BY ShiftFactorIsEven
<1>2. PICK s \in Nat : s = Two[Scaled(16, 64)] /\ s % 2 = 0
  BY ShiftFactorIsEven
<1> DEFINE f == t + s - 1
<1> DEFINE E == [h \in WordValues |-> [c \in WordValues |-> Wrap(h * f + c)]]
<1>3. f \in Int /\ f % 2 = 1
  BY <1>1, <1>2
<1>4. PermutesTwice(E)
  <2> HIDE DEF f
  <2>1. QED
    BY <1>3, LinearPermutesTwice
<1>5. ASSUME NEW h \in WordValues, NEW c \in WordValues
      PROVE  SdbmByte(h, c) = Wrap(h * f + c)
  <2>1. h \in Int /\ c \in Int /\ h * t \in Int /\ h * s \in Int
    BY WordsAreNumbers
  <2>2. SdbmByte(h, c) = Wrap(Wrap(h * t) + Wrap(h * s) - h + c)
    BY <1>1, <1>2 DEF SdbmByte, ShiftLeft
  <2>3. Wrap(Wrap(h * t) + Wrap(h * s) - h + c) = Wrap(h * t + h * s + (c - h))
    BY <2>1, WrapOfTwo
  <2>4. h * t + h * s + (c - h) = h * (t + s - 1) + c
    BY <2>1
  <2>5. QED
    BY <2>2, <2>3, <2>4
<1>6. [h \in WordValues |-> [c \in WordValues |-> SdbmByte(h, c)]] = E
  BY <1>5
<1>7. QED
  BY <1>4, <1>6

LEMMA Djb2BytePermutes ==
  PermutesTwice([h \in WordValues |-> [c \in WordValues |-> Djb2Byte(h, c)]])
<1>1. PICK t \in Nat : t = Two[Scaled(5, 64)] /\ t % 2 = 0
  BY ShiftFactorIsEven
<1> DEFINE f == t - 1
<1> DEFINE E == [h \in WordValues |-> [c \in WordValues |-> Wrap(h * f + c)]]
<1>2. f \in Int /\ f % 2 = 1
  BY <1>1
<1>3. PermutesTwice(E)
  <2> HIDE DEF f
  <2>1. QED
    BY <1>2, LinearPermutesTwice
<1>4. ASSUME NEW h \in WordValues, NEW c \in WordValues
      PROVE  Djb2Byte(h, c) = Wrap(h * f + c)
  <2>1. h \in Int /\ c \in Int /\ h * t \in Int /\ c - h \in Int
    BY WordsAreNumbers
  <2>2. Wrap(h * t) \in Int
    BY <2>1, WrapIsInt
  <2>3. Djb2Byte(h, c) = Wrap((c - h) + Wrap(h * t))
    <3>1. Djb2Byte(h, c) = Wrap(Wrap(h * t) - h + c)
      BY <1>1 DEF Djb2Byte, ShiftLeft
    <3>2. Wrap(h * t) - h + c = (c - h) + Wrap(h * t)
      BY <2>1, <2>2
    <3>3. QED
      BY <3>1, <3>2
  <2>4. Wrap((c - h) + Wrap(h * t)) = Wrap((c - h) + h * t)
    BY <2>1, WrapOfWrap
  <2>5. (c - h) + h * t = h * (t - 1) + c
    BY <2>1
  <2>6. QED
    BY <2>3, <2>4, <2>5
<1>5. [h \in WordValues |-> [c \in WordValues |-> Djb2Byte(h, c)]] = E
  BY <1>4
<1>6. QED
  BY <1>3, <1>5

LEMMA ProductOfSum ==
  ASSUME NEW h \in Int, NEW a \in Int, NEW b \in Int, NEW c \in Int, NEW d \in Int, NEW e \in Int
  PROVE  h * (1 + a + b + c + d + e) = h + h * a + h * b + h * c + h * d + h * e
OBVIOUS

LEMMA FNV1aBytePermutes ==
  PermutesTwice([h \in WordValues |-> [c \in WordValues |-> FNV1aByte(h, c)]])
<1> DEFINE T(n) == Two[Scaled(n, 32)]
<1>1. /\ T(1) \in Nat /\ T(1) % 2 = 0 /\ T(4) \in Nat /\ T(4) % 2 = 0
      /\ T(7) \in Nat /\ T(7) % 2 = 0 /\ T(8) \in Nat /\ T(8) % 2 = 0
      /\ T(24) \in Nat /\ T(24) % 2 = 0
  <2>1. \A n \in Nat \ {0} : T(n) \in Nat /\ T(n) % 2 = 0
    BY ShiftFactorIsEven
  <2> HIDE DEF T
  <2>2. QED
    BY <2>1
<1> DEFINE k == 1 + T(1) + T(4) + T(7) + T(8) + T(24)
<1> DEFINE f == [c \in WordValues |-> c]
<1> DEFINE g == LinearStep(k, 0)
<1> DEFINE E == [h \in WordValues |-> [c \in WordValues |-> h ^^ f[c]]]
<1> DEFINE F == [h \in WordValues |-> [c \in WordValues |-> FNV1aByte(h, c)]]
<1>2. k \in Int /\ k % 2 = 1
  <2> HIDE DEF T
  <2>1. QED
    BY <1>1
<1>3. Permutes(f) /\ Permutes(g)
  <2>1. Permutes(f)
    BY DEF Permutes
  <2>2. Permutes(g)
    <3> HIDE DEF k
    <3>1. QED
      BY <1>2, LinearStepPermutes
  <2>3. QED
    BY <2>1, <2>2
<1>4. PermutesTwice(E)
  <2>1. \A h, c \in WordValues : E[h][c] = h ^^ f[c]
    OBVIOUS
  <2> HIDE DEF E, f
  <2>2. QED
    BY <1>3, <2>1, XorPermutesTwice
<1>5. ASSUME NEW h \in WordValues
      PROVE  Wrap(h + ShiftLeft(h, 1, 32) + ShiftLeft(h, 4, 32) + ShiftLeft(h, 7, 32)
                    + ShiftLeft(h, 8, 32) + ShiftLeft(h, 24, 32)) = g[h]
  <2>1. PICK a, b, c, d, e \in Int : /\ a = h * T(1) /\ b = h * T(4) /\ c = h * T(7)
                                     /\ d = h * T(8) /\ e = h * T(24)
    <3> HIDE DEF T
    <3>1. h \in Int
      BY WordsAreNumbers
    <3>2. /\ h * T(1) \in Int /\ h * T(4) \in Int /\ h * T(7) \in Int
          /\ h * T(8) \in Int /\ h * T(24) \in Int
      BY <1>1, <3>1
    <3>3. QED
      BY <3>2
  <2>2. h \in Int
    BY WordsAreNumbers
  <2>3. Wrap(h + Wrap(a) + Wrap(b) + Wrap(c) + Wrap(d) + Wrap(e)) = Wrap(h + a + b + c + d + e)
    BY <2>2, WrapOfFive
  <2>4. h + a + b + c + d + e = h * k + 0
    <3> HIDE DEF T
    <3>1. h * k = h + h * T(1) + h * T(4) + h * T(7) + h * T(8) + h * T(24)
      <4>1. /\ T(1) \in Int /\ T(4) \in Int /\ T(7) \in Int /\ T(8) \in Int /\ T(24) \in Int
        BY <1>1
      <4>2. QED
        BY <4>1, <2>2, ProductOfSum
    <3>2. h * k \in Int
      BY <1>2, <2>2
    <3> HIDE DEF k
    <3>3. QED
      BY <2>1, <3>1, <3>2
  <2>5. QED
    BY <2>1, <2>3, <2>4 DEF ShiftLeft, LinearStep
<1>6. \A h, c \in WordValues : F[h][c] = g[E[h][c]]
  <2>1. \A h, c \in WordValues : E[h][c] \in WordValues /\ E[h][c] = h ^^ c
    BY <1>4 DEF PermutesTwice
  <2> HIDE DEF E, g
  <2>2. QED
    BY <1>5, <2>1 DEF FNV1aByte
<1>7. PermutesTwice(F)
  <2> HIDE DEF F, E, g
  <2>1. QED
    BY <1>3, <1>4, <1>6, AfterwardsPermutesTwice
<1>8. QED
  BY <1>7

(* The bytes that are left after the last word are apart from one another in it. *)
LEMMA TailByteKeepsApart ==
  ASSUME NEW i \in Nat, (i + 1) * BYTE <= WORD
  PROVE  KeepsApart(LAMBDA h, c : TailByte(h, c, i), ByteValues)
<1>1. PICK p \in Nat \ {0} : p = Two[i * BYTE] /\ \A c \in ByteValues : c * p \in WordValues
  <2>1. BYTE \in Nat /\ i * BYTE \in Nat /\ BYTE + i * BYTE \in 0 .. WORD /\ WORD \in Nat
    BY MixingAssumption
  <2>2. PICK p \in Nat \ {0} : p = Two[i * BYTE]
    BY <2>1, TwoIsPower
  <2>3. PICK q \in Nat \ {0} : q = Two[BYTE]
    BY <2>1, TwoIsPower
  <2>4. q * p <= Two[WORD]
    BY <2>1, <2>2, <2>3, TwoOfSum, TwoGrows
  <2>5. ASSUME NEW c \in ByteValues
        PROVE  c * p \in WordValues
    <3>1. c \in Nat /\ c <= q - 1
      BY <2>3 DEF ByteValues
    <3>2. c * p <= (q - 1) * p /\ c * p \in Nat
      BY <3>1
    <3>3. (q - 1) * p = q * p - p
      OBVIOUS
    <3>4. QED
      BY <2>4, <3>2, <3>3, WordsAreNumbers DEF WordValues
  <2>6. QED
    BY <2>2, <2>5
<1>2. ASSUME NEW h \in WordValues
      PROVE  IsOneToOne([c \in ByteValues |-> TailByte(h, c, i)])
  <2> DEFINE f == [c \in ByteValues |-> TailByte(h, c, i)]
  <2>1. ASSUME NEW c \in ByteValues, NEW d \in ByteValues, f[c] = f[d]
        PROVE  c = d
    <3>1. h ^^ (c * p) = h ^^ (d * p)
      BY <1>1, <2>1 DEF TailByte
    <3>2. c * p = d * p
      BY <1>1, <3>1, XorWordCancels
    <3>3. c \in Nat /\ d \in Nat
      BY WordsAreNumbers
    <3>4. QED
      BY <3>2, <3>3
  <2>2. DOMAIN f = ByteValues /\ IsFiniteSet(ByteValues)
    BY WordsAreNumbers
  <2> HIDE DEF f
  <2>3. Cardinality({f[c] : c \in ByteValues}) = Cardinality(ByteValues)
    BY <2>1, <2>2, OneToOneKeepsCount
  <2>4. IsOneToOne(f)
    BY <2>2, <2>3 DEF IsOneToOne
  <2>5. QED
    BY <2>4 DEF f
<1>3. ASSUME NEW c \in ByteValues
      PROVE  IsOneToOne([h \in WordValues |-> TailByte(h, c, i)])
  <2> DEFINE f == [h \in WordValues |-> TailByte(h, c, i)]
  <2>1. Permutes(f)
    BY <1>1, XorStepsPermute DEF TailByte, Permutes, XorStep
  <2>2. DOMAIN f = WordValues
    OBVIOUS
  <2> HIDE DEF f
  <2>3. IsOneToOne(f)
    BY <2>1, <2>2, PermutationIsOneToOne
  <2>4. QED
    BY <2>3 DEF f
<1>4. QED
  BY <1>2, <1>3 DEF KeepsApart

LEMMA MurmurEndPermutes ==
  Permutes([h \in WordValues |-> MurmurHash64AEnd(h)])
<1> DEFINE s == ShiftStep(47, 64)
<1> DEFINE t == TimesStep(m)
<1> DEFINE u == ShiftStep(47, 64)
<1>1. Permutes(s) /\ Permutes(t) /\ Permutes(u)
  BY MurmurConstant, ShiftStepPermutes, TimesStepPermutes
<1>2. \A h \in WordValues : MurmurHash64AEnd(h) = u[t[s[h]]]
  BY <1>1 DEF Permutes, ShiftStep, TimesStep, MurmurHash64AEnd
<1>3. QED
  <2> HIDE DEF s, t, u
  <2>1. QED
    BY <1>1, <1>2 DEF Permutes

LEMMA MurmurTailEndPermutes ==
  Permutes([h \in WordValues |-> MurmurHash64ATailEnd(h)])
<1>1. Permutes(TimesStep(m))
  BY MurmurConstant, TimesStepPermutes
<1>2. QED
  BY <1>1 DEF TimesStep, MurmurHash64ATailEnd

LEMMA Murmur3EndPermutes ==
  ASSUME NEW len \in WordValues
  PROVE  Permutes([h \in WordValues |-> Murmur3End(h, len)])
<1> DEFINE l == XorStep(len)
<1> DEFINE f == [key \in WordValues |-> fmix32(key)]
<1>1. Permutes(l) /\ Permutes(f)
  BY XorStepsPermute, Fmix32Permutes
<1>2. \A h \in WordValues : Murmur3End(h, len) = f[l[h]]
  <2>1. Wrap(len) = len
    BY WrapOfWord
  <2>2. QED
    BY <1>1, <2>1 DEF Permutes, XorStep, Murmur3End
<1>3. QED
  <2> HIDE DEF l, f
  <2>1. QED
    BY <1>1, <1>2 DEF Permutes

LEMMA JenkinsEndPermutes ==
  Permutes([h \in WordValues |-> JenkinsEnd(h)])
<1> DEFINE p == PlusStep(3, 64)
<1> DEFINE s == ShiftStep(11, 64)
<1> DEFINE q == PlusStep(15, 64)
<1>1. Permutes(p) /\ Permutes(s) /\ Permutes(q)
  BY PlusStepPermutes, ShiftStepPermutes
<1>2. \A h \in WordValues : JenkinsEnd(h) = q[s[p[h]]]
  BY <1>1 DEF Permutes, PlusStep, ShiftStep, JenkinsEnd
<1>3. QED
  <2> HIDE DEF p, s, q
  <2>1. QED
    BY <1>1, <1>2 DEF Permutes

LEMMA HashLen16Permutes ==
  ASSUME NEW mul \in Nat, mul % 2 = 1, NEW v \in WordValues
  PROVE  Permutes([h \in WordValues |-> HashLen16(h, v, mul)])
<1> DEFINE t == TimesStep(mul)
<1> DEFINE s == ShiftStep(47, 64)
<1> DEFINE l == XorStep(v)
<1> DEFINE r == XorOntoStep(v)
<1>1. Permutes(t) /\ Permutes(s) /\ Permutes(l) /\ Permutes(r)
  BY TimesStepPermutes, ShiftStepPermutes, XorStepsPermute
<1> DEFINE a == [h \in WordValues |-> s[t[l[h]]]]
<1> DEFINE b == [h \in WordValues |-> t[s[t[r[h]]]]]
<1>2. Permutes(a) /\ Permutes(b)
  <2> HIDE DEF t, s, l, r
  <2>1. QED
    BY <1>1 DEF Permutes
<1>3. \A h \in WordValues : HashLen16(h, v, mul) = b[a[h]]
  <2>1. \A h \in WordValues : a[h] \in WordValues
    BY <1>2 DEF Permutes
  <2>2. \A h \in WordValues : a[h] = XorShiftRight(Times(h ^^ v, mul), 47, 64)
    BY <1>1 DEF Permutes, TimesStep, ShiftStep, XorStep
  <2>3. \A h \in WordValues : b[h] = Times(XorShiftRight(Times(v ^^ h, mul), 47, 64), mul)
    BY <1>1 DEF Permutes, TimesStep, ShiftStep, XorOntoStep
  <2> HIDE DEF a, b
  <2>4. QED
    BY <2>1, <2>2, <2>3 DEF HashLen16
<1>4. QED
  <2> HIDE DEF a, b
  <2>1. QED
    BY <1>2, <1>3 DEF Permutes

LEMMA Hash128to64Permutes ==
  ASSUME NEW v \in WordValues
  PROVE  Permutes([u \in WordValues |-> Hash128to64(u, v)])
<1> DEFINE k == Word64(\h9DDF, \hEA08, \hEB38, \h2D69)
<1>1. k \in Nat /\ k % 2 = 1
  <2>1. \h2D69 % 2 = 1
    OBVIOUS
  <2>2. QED
    BY <2>1, OddLongConstants
<1>2. [u \in WordValues |-> Hash128to64(u, v)] = [h \in WordValues |-> HashLen16(h, v, k)]
  BY DEF Hash128to64
<1> HIDE DEF k
<1>3. Permutes([h \in WordValues |-> HashLen16(h, v, k)])
  BY <1>1, HashLen16Permutes
<1>4. QED
  BY <1>2, <1>3

LEMMA MurKeepsApart == KeepsApart(LAMBDA h, a : mur(a, h), WordValues)
<1> DEFINE F == [h \in WordValues |-> [a \in WordValues |-> mur(a, h)]]
<1>1. PermutesTwice(F)
  BY MurPermutes
<1>2. /\ \A h \in WordValues : [a \in WordValues |-> F[h][a]] = [a \in WordValues |-> mur(a, h)]
      /\ \A a \in WordValues : [h \in WordValues |-> F[h][a]] = [h \in WordValues |-> mur(a, h)]
  BY WordsAreNumbers
<1>3. /\ \A h \in WordValues : IsOneToOne([a \in WordValues |-> mur(a, h)])
      /\ \A a \in WordValues : IsOneToOne([h \in WordValues |-> mur(a, h)])
  <2> HIDE DEF F
  <2>1. /\ \A h \in WordValues : IsOneToOne([a \in WordValues |-> F[h][a]])
        /\ \A a \in WordValues : IsOneToOne([h \in WordValues |-> F[h][a]])
    BY <1>1, PermutesTwiceIsOneToOne
  <2>2. QED
    BY <1>2, <2>1
<1>4. QED
  BY <1>3 DEF KeepsApart

LEMMA Murmur3TailKeepsApart == KeepsApart(Murmur3Tail, WordValues)
<1> DEFINE F == [h \in WordValues |-> [k1 \in WordValues |-> Murmur3Tail(h, k1)]]
<1>1. PermutesTwice(F)
  BY Murmur3TailPermutes
<1>2. /\ \A h \in WordValues : [k1 \in WordValues |-> F[h][k1]] = [k1 \in WordValues |-> Murmur3Tail(h, k1)]
      /\ \A k1 \in WordValues : [h \in WordValues |-> F[h][k1]] = [h \in WordValues |-> Murmur3Tail(h, k1)]
  BY WordsAreNumbers
<1>3. /\ \A h \in WordValues : IsOneToOne([k1 \in WordValues |-> Murmur3Tail(h, k1)])
      /\ \A k1 \in WordValues : IsOneToOne([h \in WordValues |-> Murmur3Tail(h, k1)])
  <2> HIDE DEF F
  <2>1. /\ \A h \in WordValues : IsOneToOne([k1 \in WordValues |-> F[h][k1]])
        /\ \A k1 \in WordValues : IsOneToOne([h \in WordValues |-> F[h][k1]])
    BY <1>1, PermutesTwiceIsOneToOne
  <2>2. QED
    BY <1>2, <2>1
<1>4. QED
  BY <1>3 DEF KeepsApart

LEMMA Murmur3BlockKeepsApart == KeepsApart(Murmur3Block, WordValues)
<1> DEFINE F == [h \in WordValues |-> [k1 \in WordValues |-> Murmur3Block(h, k1)]]
<1>1. PermutesTwice(F)
  BY Murmur3BlockPermutes
<1>2. /\ \A h \in WordValues : [k1 \in WordValues |-> F[h][k1]] = [k1 \in WordValues |-> Murmur3Block(h, k1)]
      /\ \A k1 \in WordValues : [h \in WordValues |-> F[h][k1]] = [h \in WordValues |-> Murmur3Block(h, k1)]
  BY WordsAreNumbers
<1>3. /\ \A h \in WordValues : IsOneToOne([k1 \in WordValues |-> Murmur3Block(h, k1)])
      /\ \A k1 \in WordValues : IsOneToOne([h \in WordValues |-> Murmur3Block(h, k1)])
  <2> HIDE DEF F
  <2>1. /\ \A h \in WordValues : IsOneToOne([k1 \in WordValues |-> F[h][k1]])
        /\ \A k1 \in WordValues : IsOneToOne([h \in WordValues |-> F[h][k1]])
    BY <1>1, PermutesTwiceIsOneToOne
  <2>2. QED
    BY <1>2, <2>1
<1>4. QED
  BY <1>3 DEF KeepsApart

LEMMA MurmurBlockKeepsApart == KeepsApart(MurmurHash64ABlock, WordValues)
<1> DEFINE F == [h \in WordValues |-> [k \in WordValues |-> MurmurHash64ABlock(h, k)]]
<1>1. PermutesTwice(F)
  BY MurmurBlockPermutes
<1>2. /\ \A h \in WordValues : [k \in WordValues |-> F[h][k]] = [k \in WordValues |-> MurmurHash64ABlock(h, k)]
      /\ \A k \in WordValues : [h \in WordValues |-> F[h][k]] = [h \in WordValues |-> MurmurHash64ABlock(h, k)]
  BY WordsAreNumbers
<1>3. /\ \A h \in WordValues : IsOneToOne([k \in WordValues |-> MurmurHash64ABlock(h, k)])
      /\ \A k \in WordValues : IsOneToOne([h \in WordValues |-> MurmurHash64ABlock(h, k)])
  <2> HIDE DEF F
  <2>1. /\ \A h \in WordValues : IsOneToOne([k \in WordValues |-> F[h][k]])
        /\ \A k \in WordValues : IsOneToOne([h \in WordValues |-> F[h][k]])
    BY <1>1, PermutesTwiceIsOneToOne
  <2>2. QED
    BY <1>2, <2>1
<1>4. QED
  BY <1>3 DEF KeepsApart

LEMMA JenkinsByteKeepsApart == KeepsApart(JenkinsByte, ByteValues)
<1> DEFINE F == [h \in WordValues |-> [c \in WordValues |-> JenkinsByte(h, c)]]
<1>1. PermutesTwice(F)
  BY JenkinsBytePermutes
<1>2. /\ \A h \in WordValues : [c \in ByteValues |-> F[h][c]] = [c \in ByteValues |-> JenkinsByte(h, c)]
      /\ \A c \in ByteValues : [h \in WordValues |-> F[h][c]] = [h \in WordValues |-> JenkinsByte(h, c)]
  BY WordsAreNumbers
<1>3. QED
  <2> HIDE DEF F
  <2>1. QED
    BY <1>1, <1>2, PermutesTwiceIsOneToOne DEF KeepsApart

LEMMA SdbmByteKeepsApart == KeepsApart(SdbmByte, ByteValues)
<1> DEFINE F == [h \in WordValues |-> [c \in WordValues |-> SdbmByte(h, c)]]
<1>1. PermutesTwice(F)
  BY SdbmBytePermutes
<1>2. /\ \A h \in WordValues : [c \in ByteValues |-> F[h][c]] = [c \in ByteValues |-> SdbmByte(h, c)]
      /\ \A c \in ByteValues : [h \in WordValues |-> F[h][c]] = [h \in WordValues |-> SdbmByte(h, c)]
  BY WordsAreNumbers
<1>3. QED
  <2> HIDE DEF F
  <2>1. QED
    BY <1>1, <1>2, PermutesTwiceIsOneToOne DEF KeepsApart

LEMMA Djb2ByteKeepsApart == KeepsApart(Djb2Byte, ByteValues)
<1> DEFINE F == [h \in WordValues |-> [c \in WordValues |-> Djb2Byte(h, c)]]
<1>1. PermutesTwice(F)
  BY Djb2BytePermutes
<1>2. /\ \A h \in WordValues : [c \in ByteValues |-> F[h][c]] = [c \in ByteValues |-> Djb2Byte(h, c)]
      /\ \A c \in ByteValues : [h \in WordValues |-> F[h][c]] = [h \in WordValues |-> Djb2Byte(h, c)]
  BY WordsAreNumbers
<1>3. QED
  <2> HIDE DEF F
  <2>1. QED
    BY <1>1, <1>2, PermutesTwiceIsOneToOne DEF KeepsApart

LEMMA FNV1aByteKeepsApart == KeepsApart(FNV1aByte, ByteValues)
<1> DEFINE F == [h \in WordValues |-> [c \in WordValues |-> FNV1aByte(h, c)]]
<1>1. PermutesTwice(F)
  BY FNV1aBytePermutes
<1>2. /\ \A h \in WordValues : [c \in ByteValues |-> F[h][c]] = [c \in ByteValues |-> FNV1aByte(h, c)]
      /\ \A c \in ByteValues : [h \in WordValues |-> F[h][c]] = [h \in WordValues |-> FNV1aByte(h, c)]
  BY WordsAreNumbers
<1>3. QED
  <2> HIDE DEF F
  <2>1. QED
    BY <1>1, <1>2, PermutesTwiceIsOneToOne DEF KeepsApart

LEMMA MurmurByteKeepsApart == KeepsApart(MurmurOAAT64Byte, ByteValues)
<1> DEFINE F == [h \in WordValues |-> [c \in WordValues |-> MurmurOAAT64Byte(h, c)]]
<1>1. PermutesTwice(F)
  BY MurmurBytePermutes
<1>2. /\ \A h \in WordValues : [c \in ByteValues |-> F[h][c]] = [c \in ByteValues |-> MurmurOAAT64Byte(h, c)]
      /\ \A c \in ByteValues : [h \in WordValues |-> F[h][c]] = [h \in WordValues |-> MurmurOAAT64Byte(h, c)]
  BY WordsAreNumbers
<1>3. QED
  <2> HIDE DEF F
  <2>1. QED
    BY <1>1, <1>2, PermutesTwiceIsOneToOne DEF KeepsApart

(***************************************************************************)
(* Keys of equal length that differ in one byte, or in one word, have      *)
(* different hashes: every step of the loops over the bytes and words of a *)
(* key can be undone from either side, and so can what follows the loops   *)
(* and the tails.                                                          *)
(***************************************************************************)
THEOREM OneByteAlwaysDecides == Spec => []OneByteDecides
<1>1. /\ KeepsApart(LAMBDA h, a : mur(a, h), WordValues)
      /\ KeepsApart(Murmur3Block, WordValues) /\ KeepsApart(Murmur3Tail, WordValues)
      /\ KeepsApart(MurmurHash64ABlock, WordValues)
  BY MurKeepsApart, Murmur3BlockKeepsApart, Murmur3TailKeepsApart, MurmurBlockKeepsApart
<1>2. /\ KeepsApart(JenkinsByte, ByteValues) /\ KeepsApart(SdbmByte, ByteValues)
      /\ KeepsApart(Djb2Byte, ByteValues)
      /\ KeepsApart(MurmurOAAT64Byte, ByteValues) /\ KeepsApart(FNV1aByte, ByteValues)
  BY JenkinsByteKeepsApart, SdbmByteKeepsApart, Djb2ByteKeepsApart, MurmurByteKeepsApart,
     FNV1aByteKeepsApart
<1>3. /\ IsOneToOne([h \in WordValues |-> MurmurHash64ATailEnd(h)])
      /\ IsOneToOne([h \in WordValues |-> MurmurHash64AEnd(h)])
      /\ IsOneToOne([h \in WordValues |-> JenkinsEnd(h)])
  BY MurmurTailEndPermutes, MurmurEndPermutes, JenkinsEndPermutes, PermutationIsOneToOne
<1>4. ASSUME NEW i \in {j \in 0 .. WORD : (j + 1) * BYTE <= WORD}
      PROVE  KeepsApart(LAMBDA h, c : TailByte(h, c, i), ByteValues)
  <2>1. i \in Nat /\ (i + 1) * BYTE <= WORD
    OBVIOUS
  <2>2. QED
    BY <2>1, TailByteKeepsApart
<1>5. ASSUME NEW v \in WordValues
      PROVE  IsOneToOne([u \in WordValues |-> Hash128to64(u, v)])
  BY Hash128to64Permutes, PermutationIsOneToOne
<1>6. ASSUME NEW len \in WordValues
      PROVE  IsOneToOne([h \in WordValues |-> Murmur3End(h, len)])
  BY Murmur3EndPermutes, PermutationIsOneToOne
<1>7. OneByteDecides
  BY <1>1, <1>2, <1>3, <1>4, <1>5, <1>6 DEF OneByteDecides
<1>8. QED
  BY <1>7, PTL

-----------------------------------------------------------------------------
(* The folding is the one function that its recursive definition names. *)
LEMMA FoldedIsDefined ==
  ASSUME NEW n \in Nat
  PROVE  \E f \in [Nat -> Nat] :
           /\ f[0] = n
           /\ \A i \in 0 .. (SHIFTS - 1) : f[i + 1] = Or[f[i]][f[i] \div Two[Two[i]]]
           /\ Folded(n) = f[SHIFTS]
<1> DEFINE d == [i \in Nat |-> IF i = 0 THEN 0 ELSE i - 1]
<1> DEFINE G == [i \in Nat |-> [v \in Nat |-> IF i = 0 THEN 0 ELSE Or[v][v \div Two[Two[i - 1]]]]]
<1>1. PICK f \in [Nat -> Nat] : ComesFrom(f, n, G, d)
  <2>1. d \in [Nat -> Nat] /\ \A i \in Nat \ {0} : d[i] < i
    OBVIOUS
  <2>2. ASSUME NEW i \in Nat, NEW v \in Nat, i # 0
        PROVE  Or[v][v \div Two[Two[i - 1]]] \in Nat
    <3>1. i - 1 \in Nat
      BY <2>2
    <3>2. Two[i - 1] \in Nat
      BY <3>1, TwoIsPower
    <3>3. Two[Two[i - 1]] \in Nat \ {0}
      BY <3>2, TwoIsPower
    <3>4. v \div Two[Two[i - 1]] \in Nat
      BY <3>3, Quotient
    <3>5. QED
      BY <3>4, OrIsDefined
  <2>3. G \in [Nat -> [Nat -> Nat]]
    BY <2>2
  <2> HIDE DEF d, G
  <2>4. QED
    BY <2>1, <2>3, Recursion
<1>2. ASSUME NEW i \in Nat
      PROVE  f[i + 1] = Or[f[i]][f[i] \div Two[Two[i]]]
  <2>1. i + 1 \in Nat \ {0} /\ (i + 1) - 1 = i /\ d[i + 1] = i /\ f[i] \in Nat
    OBVIOUS
  <2>2. f[i + 1] = G[i + 1][f[d[i + 1]]]
    BY <1>1, <2>1 DEF ComesFrom
  <2>3. QED
    BY <2>1, <2>2
<1>3. f[0] = n
  BY <1>1 DEF ComesFrom
<1> DEFINE Solves(g) ==
      g = [i \in 0 .. SHIFTS |->
             IF i = 0 THEN n ELSE g[i - 1] | (g[i - 1] \div Two[Two[i - 1]])]
<1> DEFINE h == [i \in 0 .. SHIFTS |-> f[i]]
<1>4. SHIFTS \in Nat /\ SHIFTS # 0
  BY BitAssumption
<1>5. Solves(h)
  <2>1. ASSUME NEW i \in 0 .. SHIFTS, i # 0
        PROVE  f[i] = h[i - 1] | (h[i - 1] \div Two[Two[i - 1]])
    <3>1. i - 1 \in 0 .. SHIFTS /\ i - 1 \in Nat /\ (i - 1) + 1 = i
      BY <1>4, <2>1
    <3>2. h[i - 1] = f[i - 1]
      BY <3>1
    <3>3. QED
      BY <1>2, <3>1, <3>2 DEF |
  <2>2. QED
    BY <1>3, <2>1
<1> DEFINE fold == CHOOSE g : Solves(g)
<1>6. Solves(fold)
  BY <1>5
<1>7. Folded(n) = fold[SHIFTS]
  BY DEF Folded
<1>8. \A i \in 0 .. SHIFTS :
        fold[i] = IF i = 0 THEN n ELSE fold[i - 1] | (fold[i - 1] \div Two[Two[i - 1]])
  BY <1>6
<1> HIDE DEF fold, Solves, h, d, G
<1> DEFINE S == {i \in Nat : i <= SHIFTS => fold[i] = f[i]}
<1>9. 0 \in S
  BY <1>3, <1>4, <1>8
<1>10. ASSUME NEW i \in Nat, i \in S
       PROVE  i + 1 \in S
  <2>1. CASE i + 1 <= SHIFTS
    <3>1. i + 1 \in 0 .. SHIFTS /\ i + 1 # 0 /\ (i + 1) - 1 = i /\ fold[i] = f[i]
      BY <1>4, <1>10, <2>1
    <3>2. fold[i + 1] = Or[f[i]][f[i] \div Two[Two[i]]]
      BY <1>8, <3>1 DEF |
    <3>3. QED
      BY <1>2, <3>2
  <2>2. QED
    BY <2>1
<1>11. \A i \in Nat : i \in S
  <2> HIDE DEF S
  <2>1. QED
    BY <1>9, <1>10, SetInduction
<1>12. Folded(n) = f[SHIFTS]
  <2>1. SHIFTS \in S
    BY <1>4, <1>11
  <2>2. fold[SHIFTS] = f[SHIFTS]
    BY <1>4, <2>1
  <2>3. QED
    BY <1>7, <2>2
<1>13. \A i \in 0 .. (SHIFTS - 1) : f[i + 1] = Or[f[i]][f[i] \div Two[Two[i]]]
  BY <1>2, <1>4
<1>14. QED
  BY <1>3, <1>12, <1>13

(* Folding sets every bit below the highest one. *)
LEMMA FoldedIsAllOnes ==
  ASSUME NEW e \in Nat, e < WIDTH, NEW n \in Nat, Two[e] <= n, n < Two[e + 1]
  PROVE  Folded(n) = Two[e + 1] - 1
<1>1. PICK f \in [Nat -> Nat] :
        /\ f[0] = n
        /\ \A i \in 0 .. (SHIFTS - 1) : f[i + 1] = Or[f[i]][f[i] \div Two[Two[i]]]
        /\ Folded(n) = f[SHIFTS]
  BY FoldedIsDefined
<1>2. SHIFTS \in Nat /\ WIDTH \in Nat /\ e + 1 \in Nat
  <2>1. SHIFTS \in Nat
    BY BitAssumption
  <2>2. QED
    BY <2>1, TwoIsPower DEF WIDTH
<1>3. PICK N \in Nat \ {0} : N = Two[e + 1]
  BY <1>2, TwoIsPower
<1> DEFINE Ones(i) == f[i] \in 0 .. (N - 1) /\ ((N - 1) - f[i]) * Two[Two[i]] < N
<1> DEFINE S == {i \in Nat : i <= SHIFTS => Ones(i)}
<1>4. 0 \in S
  <2>1. Two[0] = 1 /\ Two[0 + 1] = 2 * Two[0] /\ N = 2 * Two[e] /\ Two[e] \in Nat
    BY <1>3, TwoIsDefined, TwoIsPower
  <2>2. Two[Two[0]] = 2
    BY <2>1
  <2>3. f[0] \in 0 .. (N - 1) /\ ((N - 1) - f[0]) * 2 < N
    BY <1>1, <1>3, <2>1
  <2>4. QED
    BY <2>2, <2>3
<1>5. ASSUME NEW i \in Nat, i \in S
      PROVE  i + 1 \in S
  <2>1. CASE i + 1 <= SHIFTS
    <3>1. i \in 0 .. (SHIFTS - 1) /\ Ones(i)
      BY <1>2, <1>5, <2>1
    <3>2. f[i + 1] = Or[f[i]][f[i] \div Two[Two[i]]]
      BY <1>1, <3>1
    <3>3. Two[i] \in Nat /\ Two[i + 1] = Two[i] + Two[i]
      BY TwoIsPower
    <3>4. /\ Or[f[i]][f[i] \div Two[Two[i]]] \in 0 .. (N - 1)
          /\ ((N - 1) - Or[f[i]][f[i] \div Two[Two[i]]]) * Two[Two[i] + Two[i]] < N
      BY <1>2, <1>3, <3>1, <3>3, FoldingSetsBits
    <3>5. Ones(i + 1)
      BY <3>2, <3>3, <3>4
    <3>6. QED
      BY <3>5
  <2>2. QED
    BY <2>1
<1>6. \A i \in Nat : i \in S
  <2> HIDE DEF S
  <2>1. QED
    BY <1>4, <1>5, SetInduction
<1>7. Ones(SHIFTS)
  BY <1>2, <1>6
<1>8. Two[Two[SHIFTS]] >= N
  <2>1. e + 1 \in 0 .. WIDTH
    BY <1>2
  <2>2. QED
    BY <1>2, <1>3, <2>1, TwoGrows DEF WIDTH
<1>9. PICK K \in Nat \ {0} : K = Two[Two[SHIFTS]]
  BY <1>2, TwoIsPower DEF WIDTH
<1>10. PICK z \in Nat : z = (N - 1) - f[SHIFTS]
  BY <1>7
<1>11. z * K < N /\ K >= N
  BY <1>7, <1>8, <1>9, <1>10
<1>12. z = 0
  <2>1. SUFFICES ASSUME z >= 1
                 PROVE  FALSE
    OBVIOUS
  <2>2. z * K >= K
    BY <2>1
  <2>3. QED
    BY <1>11, <2>2
<1>13. QED
  BY <1>1, <1>3, <1>7, <1>10, <1>12

(* Every size has a least power of two that is no smaller and less than twice as big. *)
LEMMA SizesAreBetweenPowers ==
  ASSUME NEW n \in 1 .. Sizes - 1
  PROVE  /\ Sizes \in Nat \ {0} /\ n \in Nat \ {0}
         /\ \E e \in Nat : e < WIDTH /\ Two[e] <= n /\ n < Two[e + 1]
<1>1. WIDTH \in Nat
  BY BitAssumption, TwoIsPower DEF WIDTH
<1>2. Sizes \in Nat \ {0}
  BY <1>1, TwoIsPower DEF Sizes
<1>3. n \in Nat \ {0} /\ n < Sizes
  BY <1>2
<1>4. PICK e \in Nat : Two[e] <= n /\ n < Two[e + 1]
  BY <1>3, BetweenPowers
<1>5. e < WIDTH
  <2>1. SUFFICES ASSUME e >= WIDTH
                 PROVE  FALSE
    BY <1>1
  <2>2. Two[WIDTH] <= Two[e] /\ Two[e] \in Nat
    BY <1>1, <2>1, TwoGrows, TwoIsPower
  <2>3. QED
    BY <1>2, <1>3, <1>4, <2>2 DEF Sizes
<1>6. QED
  BY <1>2, <1>3, <1>4, <1>5

LEMMA LeastPowerIs ==
  ASSUME NEW n \in Nat \ {0}, NEW e \in 0 .. WIDTH, n <= Two[e], Two[e] < 2 * n
  PROVE  LeastPower(n) = Two[e]
<1>1. WIDTH \in Nat
  BY BitAssumption, TwoIsPower DEF WIDTH
<1> DEFINE P == {Two[k] : k \in 0 .. WIDTH}
<1>2. Two[e] \in P
  OBVIOUS
<1>3. ASSUME NEW p \in P, p >= n, p < 2 * n
      PROVE  p = Two[e]
  <2>1. PICK k \in 0 .. WIDTH : p = Two[k]
    OBVIOUS
  <2>2. k \in Nat /\ e \in Nat
    BY <1>1
  <2>3. Two[k] \in Nat /\ Two[e] \in Nat /\ IsPowerOfTwo(Two[k]) /\ IsPowerOfTwo(Two[e])
    BY <2>2, TwoIsPower
  <2>4. n <= Two[k] /\ Two[k] < 2 * n
    BY <1>3, <2>1, <2>3
  <2>5. QED
    BY <2>1, <2>3, <2>4, OnePowerInDouble
<1>4. Two[e] >= n
  <2>1. Two[e] \in Nat
    BY <1>1, TwoIsPower
  <2>2. QED
    BY <2>1
<1> HIDE DEF P
<1>5. LeastPower(n) = CHOOSE p \in P : p >= n /\ p < 2 * n
  BY DEF LeastPower, P
<1>6. QED
  BY <1>2, <1>3, <1>4, <1>5

(* The bit folding finds that power, and SwissCommon's definition is the same. *)
LEMMA NextPowerIsLeastPower ==
  ASSUME NEW n \in 1 .. Sizes - 1
  PROVE  /\ NextPower(n) = LeastPower(n) % Sizes
         /\ LeastPower(n) \in n .. 2 * n - 1
         /\ IsPowerOfTwo(LeastPower(n))
<1>1. Sizes \in Nat \ {0} /\ n \in Nat \ {0}
  BY SizesAreBetweenPowers
<1>2. PICK e \in Nat : e < WIDTH /\ Two[e] <= n /\ n < Two[e + 1]
  BY SizesAreBetweenPowers
<1>3. WIDTH \in Nat
  BY BitAssumption, TwoIsPower DEF WIDTH
<1>4. /\ Two[e] \in Nat \ {0} /\ IsPowerOfTwo(Two[e]) /\ Two[e + 1] = 2 * Two[e]
      /\ IsPowerOfTwo(Two[e + 1])
  <2>1. e + 1 \in Nat
    OBVIOUS
  <2>2. QED
    BY <2>1, TwoIsPower
<1>5. (n - 1) % Sizes = n - 1
  <2>1. n - 1 \in 0 .. (Sizes - 1) /\ n - 1 = Sizes * 0 + (n - 1)
    BY <1>1
  <2>2. QED
    BY <1>1, <2>1, QuotientIsUnique
<1>6. (n & ((n - 1) % Sizes)) = 0 <=> IsPowerOfTwo(n)
  BY <1>1, <1>5, PowersShareNoBit DEF &
<1>7. CASE IsPowerOfTwo(n)
  <2>1. n < 2 * Two[e]
    BY <1>2, <1>4
  <2>2. Two[e] <= Two[e] /\ Two[e] < 2 * Two[e]
    BY <1>4
  <2>3. n = Two[e]
    BY <1>1, <1>2, <1>4, <1>7, <2>1, <2>2, OnePowerInDouble
  <2>4. LeastPower(n) = Two[e]
    <3>1. e \in 0 .. WIDTH /\ n <= Two[e] /\ Two[e] < 2 * n
      BY <1>1, <1>2, <1>3, <2>3
    <3>2. QED
      BY <1>1, <3>1, LeastPowerIs
  <2>5. n % Sizes = n
    <3>1. n \in 0 .. (Sizes - 1) /\ n = Sizes * 0 + n
      BY <1>1
    <3>2. QED
      BY <1>1, <3>1, QuotientIsUnique
  <2>6. NextPower(n) = n
    BY <1>6, <1>7 DEF NextPower
  <2>7. QED
    BY <1>1, <1>7, <2>3, <2>4, <2>5, <2>6
<1>8. CASE ~IsPowerOfTwo(n)
  <2>1. n # Two[e]
    BY <1>4, <1>8
  <2>2. n <= Two[e + 1] /\ Two[e + 1] < 2 * n /\ Two[e + 1] \in Nat
    BY <1>1, <1>2, <1>4, <2>1
  <2>3. LeastPower(n) = Two[e + 1]
    <3>1. e + 1 \in 0 .. WIDTH
      BY <1>2, <1>3
    <3>2. QED
      BY <1>1, <2>2, <3>1, LeastPowerIs
  <2>4. Folded(n) + 1 = Two[e + 1]
    <3>1. Folded(n) = Two[e + 1] - 1
      BY <1>1, <1>2, FoldedIsAllOnes
    <3>2. QED
      BY <2>2, <3>1
  <2>5. NextPower(n) = Two[e + 1] % Sizes
    BY <1>6, <1>8, <2>4 DEF NextPower
  <2>6. QED
    BY <1>1, <1>4, <2>2, <2>3, <2>5
<1>9. QED
  BY <1>7, <1>8

LEMMA LeastPowerIsNextPower ==
  ASSUME NEW n \in Nat \ {0}, NEW p \in n .. 2 * n - 1, IsPowerOfTwo(p)
  PROVE  p = NextPowerOfTwo(n)
<1>1. PICK q \in Nat : q = NextPowerOfTwo(n) /\ q \in n .. 2 * n /\ IsPowerOfTwo(q)
  BY NextPowerIsLeast
<1>2. p \in Nat
  OBVIOUS
<1>3. CASE q <= p
  <2>1. n <= q /\ q < 2 * n /\ n <= p /\ p < 2 * n
    BY <1>1, <1>2, <1>3
  <2>2. QED
    BY <1>1, <1>2, <2>1, OnePowerInDouble
<1>4. CASE p < q
  <2>1. p \in n .. q - 1
    BY <1>1, <1>2, <1>4
  <2>2. QED
    BY <1>1, <2>1, NextPowerIsLeast
<1>5. QED
  BY <1>1, <1>2, <1>3, <1>4

(***************************************************************************)
(* _get_next_power_of_two: the foldings find the next power of two, for a  *)
(* size_t of 2^SHIFTS bits, whatever SHIFTS is; and what they find is what *)
(* the modules of the tables take for the number of slots of a table.      *)
(***************************************************************************)
THEOREM FoldingIsRight == Spec => []FoldingRoundsUp
<1>1. FoldingRoundsUp
  <2>1. SUFFICES ASSUME x \in 1 .. Sizes - 1
                 PROVE  /\ NextPower(x) = LeastPower(x) % Sizes
                        /\ LeastPower(x) = NextPowerOfTwo(x)
    BY DEF FoldingRoundsUp
  <2>2. x \in Nat \ {0}
    BY <2>1, SizesAreBetweenPowers
  <2>3. /\ NextPower(x) = LeastPower(x) % Sizes
        /\ LeastPower(x) \in x .. 2 * x - 1 /\ IsPowerOfTwo(LeastPower(x))
    BY <2>1, NextPowerIsLeastPower
  <2>4. QED
    BY <2>2, <2>3, LeastPowerIsNextPower
<1>2. QED
  BY <1>1, PTL

(***************************************************************************)
(* ht_flat_create: no product of slots and bytes wraps round and no hint   *)
(* is rounded to a table that is too small, when the client keeps twice    *)
(* the bytes of its pairs within the address space.                        *)
(***************************************************************************)
THEOREM BlockIsBigEnough == Spec => []BlockHoldsTable
<1>1. ASSUME NEW bucket \in Buckets, x \in 1 .. Sizes - 1, 2 * x * bucket <= Sizes,
             MinSlots * bucket < Sizes
      PROVE  Slots(x) >= x /\ Block(x, bucket) = Slots(x) * bucket
  <2>1. bucket \in Nat \ {0}
    BY BitAssumption
  <2>2. PICK b \in Nat \ {0} : b = bucket
    BY <2>1
  <2>3. Sizes \in Nat \ {0} /\ x \in Nat \ {0}
    BY <1>1, SizesAreBetweenPowers
  <2>4. PICK N \in Nat \ {0} : N = Sizes
    BY <2>3
  <2>5. PICK s \in Nat : s = Slots(x) /\ s >= x /\ s * b < N
    <3>1. CASE x > MinSlots
      <4>1. PICK p \in x .. 2 * x - 1 : p = LeastPower(x)
        BY <1>1, NextPowerIsLeastPower
      <4>2. p \in Nat /\ p >= x /\ p < 2 * x
        BY <2>3, <4>1
      <4>3. p * b < N
        <5>1. p * b < (2 * x) * b
          BY <2>3, <4>2
        <5>2. (2 * x) * b <= N
          BY <1>1, <2>2, <2>4
        <5>3. p * b \in Int /\ (2 * x) * b \in Int
          BY <2>3, <4>2
        <5>4. QED
          BY <5>1, <5>2, <5>3
      <4>4. p < N
        <5>1. p * b >= p
          BY <4>2
        <5>2. QED
          BY <4>2, <4>3, <5>1
      <4>5. p % N = p
        <5>1. p \in 0 .. (N - 1) /\ p = N * 0 + p
          BY <4>2, <4>4
        <5>2. QED
          BY <5>1, QuotientIsUnique
      <4>6. NextPower(x) = p
        BY <1>1, <2>4, <4>1, <4>5, NextPowerIsLeastPower
      <4>7. Slots(x) = p
        BY <3>1, <4>6 DEF Slots
      <4>8. QED
        BY <4>2, <4>3, <4>7
    <3>2. CASE ~(x > MinSlots)
      <4>1. MinSlots \in Nat /\ MinSlots >= x
        BY <2>3, <3>2 DEF MinSlots
      <4>2. Slots(x) = MinSlots
        BY <3>2 DEF Slots
      <4>3. QED
        BY <1>1, <2>2, <2>4, <4>1, <4>2
    <3>3. QED
      BY <3>1, <3>2
  <2>6. (s * b) % N = s * b
    <3>1. PICK q \in Nat : q = s * b
      OBVIOUS
    <3>2. q \in 0 .. (N - 1) /\ q = N * 0 + q
      BY <2>5, <3>1
    <3>3. q % N = q
      BY <3>2, QuotientIsUnique
    <3>4. QED
      BY <3>1, <3>3
  <2>7. QED
    BY <2>2, <2>4, <2>5, <2>6 DEF Block
<1>2. BlockHoldsTable
  BY <1>1 DEF BlockHoldsTable
<1>3. QED
  BY <1>2, PTL

-----------------------------------------------------------------------------
(* The fallback for the count of trailing zeros, for the 16 bits there are. *)
LEMMA MagicDecodes ==
  ASSUME NEW p \in 0 .. 15
  PROVE  Decode[HighFive(Two[p]) + 1] = p
<1> DEFINE at(q) == Decode[HighFive(Two[q]) + 1]
<1>1. /\ HighFive(Two[0]) = 0
      /\ HighFive(Two[1]) = 1
      /\ HighFive(Two[2]) = 2
      /\ HighFive(Two[3]) = 5
  BY SmallPowers DEF HighFive, Magic
<1>2. /\ HighFive(Two[4]) = 11
      /\ HighFive(Two[5]) = 23
      /\ HighFive(Two[6]) = 15
      /\ HighFive(Two[7]) = 31
  BY SmallPowers DEF HighFive, Magic
<1>3. /\ HighFive(Two[8]) = 30
      /\ HighFive(Two[9]) = 29
      /\ HighFive(Two[10]) = 27
      /\ HighFive(Two[11]) = 22
  BY SmallPowers DEF HighFive, Magic
<1>4. /\ HighFive(Two[12]) = 12
      /\ HighFive(Two[13]) = 25
      /\ HighFive(Two[14]) = 19
      /\ HighFive(Two[15]) = 6
  BY SmallPowers DEF HighFive, Magic
<1>5. /\ Decode[1] = 0 /\ Decode[2] = 1 /\ Decode[3] = 2 /\ Decode[6] = 3
      /\ Decode[12] = 4 /\ Decode[24] = 5 /\ Decode[16] = 6 /\ Decode[32] = 7
      /\ Decode[31] = 8 /\ Decode[30] = 9 /\ Decode[28] = 10 /\ Decode[23] = 11
      /\ Decode[13] = 12 /\ Decode[26] = 13 /\ Decode[20] = 14 /\ Decode[7] = 15
  BY DEF Decode
<1>6. at(0) = 0 /\ at(1) = 1 /\ at(2) = 2 /\ at(3) = 3
  BY <1>1, <1>5
<1>7. at(4) = 4 /\ at(5) = 5 /\ at(6) = 6 /\ at(7) = 7
  BY <1>2, <1>5
<1>8. at(8) = 8 /\ at(9) = 9 /\ at(10) = 10 /\ at(11) = 11
  BY <1>3, <1>5
<1>9. at(12) = 12 /\ at(13) = 13 /\ at(14) = 14 /\ at(15) = 15
  BY <1>4, <1>5
<1> HIDE DEF at
<1>10. at(p) = p
  BY <1>6, <1>7, <1>8, <1>9
<1>11. QED
  BY <1>10 DEF at

(***************************************************************************)
(* _get_first_set_bit_pos without the builtin: for every mask that is not  *)
(* empty, the magic number and the table find its lowest bit.              *)
(***************************************************************************)
THEOREM DecodingIsRight == Spec => []DecodeFindsFirst
<1>1. ASSUME x \in 1 .. Masks - 1
      PROVE  C!IsFirstSetBit(FirstSetBitPos(x), BitSet(x))
  <2>1. Masks \in Nat /\ Two[16] = Masks
    BY TwoIsPower DEF Masks
  <2>2. x \in Nat /\ x \in 1 .. (Two[16] - 1) /\ Two[16] - x \in 0 .. (Two[16] - 1)
    BY <1>1, <2>1
  <2>3. 16 \in Nat /\ 16 - 1 = 15
    OBVIOUS
  <2>4. PICK p \in 0 .. 15 : /\ And[x][Two[16] - x] = Two[p]
                             /\ Bit(x, p) = 1
                             /\ \A q \in 0 .. (p - 1) : Bit(x, q) = 0
    BY <2>2, <2>3, NegativeSharesLowestBit
  <2>5. Negate(x, Masks) = Two[16] - x
    <3>1. PICK w \in 0 .. (Masks - 1) : w = Masks - x
      BY <2>1, <2>2
    <3>2. w = Masks * 0 + w /\ Masks \in Nat \ {0}
      BY <2>1, <2>2
    <3>3. w % Masks = w
      BY <3>2, QuotientIsUnique
    <3>4. QED
      BY <2>1, <3>1, <3>3 DEF Negate
  <2>6. FirstSetBitPos(x) = p
    <3>1. LowestBit(x) = Two[p]
      BY <2>4, <2>5 DEF LowestBit, &
    <3>2. QED
      BY <3>1, MagicDecodes DEF FirstSetBitPos
  <2>7. BitSet(x) = {q \in 0 .. 15 : Bit(x, q) = 1}
    BY DEF BitSet, Bit
  <2>8. p \in BitSet(x)
    BY <2>4, <2>7
  <2>9. \A q \in BitSet(x) : p <= q
    <3>1. SUFFICES ASSUME NEW q \in BitSet(x), q < p
                   PROVE  FALSE
      BY <2>7
    <3>2. q \in 0 .. (p - 1) /\ Bit(x, q) = 1
      BY <2>7, <3>1
    <3>3. QED
      BY <2>4, <3>2
  <2>10. QED
    BY <2>6, <2>8, <2>9 DEF C!IsFirstSetBit
<1>2. DecodeFindsFirst
  BY <1>1 DEF DecodeFindsFirst
<1>3. QED
  BY <1>2, PTL

(***************************************************************************)
(* The masks of _reverse_bits16: the low one has every other run of n bits, *)
(* the high one has the runs between them.                                 *)
(***************************************************************************)
Alternate(high, low, n) ==
  \A q \in 0 .. 15 : /\ Bit(high, q) = IF q % (2 * n) < n THEN 0 ELSE 1
                     /\ Bit(low, q) = IF q % (2 * n) < n THEN 1 ELSE 0

Partner(p, n) == IF p % (2 * n) < n THEN p + n ELSE p - n

Moves(a, b, n) == \A p \in 0 .. 15 : Bit(a, p) = Bit(b, Partner(p, n))

LEMMA MasksAlternate ==
  /\ Alternate(43690, 21845, 1)
  /\ Alternate(52428, 13107, 2)
  /\ Alternate(61680, 3855, 4)
  /\ Alternate(65280, 255, 8)
<1>1. Alternate(43690, 21845, 1)
  <2> DEFINE bits(q) == Bit(43690, q) = (IF q % (2 * 1) < 1 THEN 0 ELSE 1)
                          /\ Bit(21845, q) = (IF q % (2 * 1) < 1 THEN 1 ELSE 0)
  <2>1. bits(0) /\ bits(1) /\ bits(2) /\ bits(3)
    BY SmallPowers DEF Bit
  <2>2. bits(4) /\ bits(5) /\ bits(6) /\ bits(7)
    BY SmallPowers DEF Bit
  <2>3. bits(8) /\ bits(9) /\ bits(10) /\ bits(11)
    BY SmallPowers DEF Bit
  <2>4. bits(12) /\ bits(13) /\ bits(14) /\ bits(15)
    BY SmallPowers DEF Bit
  <2> HIDE DEF bits
  <2>5. \A q \in 0 .. 15 : bits(q)
    BY <2>1, <2>2, <2>3, <2>4
  <2>6. QED
    BY <2>5 DEF Alternate, bits
<1>2. Alternate(52428, 13107, 2)
  <2> DEFINE bits(q) == Bit(52428, q) = (IF q % (2 * 2) < 2 THEN 0 ELSE 1)
                          /\ Bit(13107, q) = (IF q % (2 * 2) < 2 THEN 1 ELSE 0)
  <2>1. bits(0) /\ bits(1) /\ bits(2) /\ bits(3)
    BY SmallPowers DEF Bit
  <2>2. bits(4) /\ bits(5) /\ bits(6) /\ bits(7)
    BY SmallPowers DEF Bit
  <2>3. bits(8) /\ bits(9) /\ bits(10) /\ bits(11)
    BY SmallPowers DEF Bit
  <2>4. bits(12) /\ bits(13) /\ bits(14) /\ bits(15)
    BY SmallPowers DEF Bit
  <2> HIDE DEF bits
  <2>5. \A q \in 0 .. 15 : bits(q)
    BY <2>1, <2>2, <2>3, <2>4
  <2>6. QED
    BY <2>5 DEF Alternate, bits
<1>3. Alternate(61680, 3855, 4)
  <2> DEFINE bits(q) == Bit(61680, q) = (IF q % (2 * 4) < 4 THEN 0 ELSE 1)
                          /\ Bit(3855, q) = (IF q % (2 * 4) < 4 THEN 1 ELSE 0)
  <2>1. bits(0) /\ bits(1) /\ bits(2) /\ bits(3)
    BY SmallPowers DEF Bit
  <2>2. bits(4) /\ bits(5) /\ bits(6) /\ bits(7)
    BY SmallPowers DEF Bit
  <2>3. bits(8) /\ bits(9) /\ bits(10) /\ bits(11)
    BY SmallPowers DEF Bit
  <2>4. bits(12) /\ bits(13) /\ bits(14) /\ bits(15)
    BY SmallPowers DEF Bit
  <2> HIDE DEF bits
  <2>5. \A q \in 0 .. 15 : bits(q)
    BY <2>1, <2>2, <2>3, <2>4
  <2>6. QED
    BY <2>5 DEF Alternate, bits
<1>4. Alternate(65280, 255, 8)
  <2> DEFINE bits(q) == Bit(65280, q) = (IF q % (2 * 8) < 8 THEN 0 ELSE 1)
                          /\ Bit(255, q) = (IF q % (2 * 8) < 8 THEN 1 ELSE 0)
  <2>1. bits(0) /\ bits(1) /\ bits(2) /\ bits(3)
    BY SmallPowers DEF Bit
  <2>2. bits(4) /\ bits(5) /\ bits(6) /\ bits(7)
    BY SmallPowers DEF Bit
  <2>3. bits(8) /\ bits(9) /\ bits(10) /\ bits(11)
    BY SmallPowers DEF Bit
  <2>4. bits(12) /\ bits(13) /\ bits(14) /\ bits(15)
    BY SmallPowers DEF Bit
  <2> HIDE DEF bits
  <2>5. \A q \in 0 .. 15 : bits(q)
    BY <2>1, <2>2, <2>3, <2>4
  <2>6. QED
    BY <2>5 DEF Alternate, bits
<1>5. QED
  BY <1>1, <1>2, <1>3, <1>4

(* A swap gives every bit the value of its partner. *)
LEMMA SwapMoves ==
  ASSUME NEW y \in Nat, NEW high \in Nat, NEW low \in Nat, high < Two[16],
         NEW n \in {1, 2, 4, 8}, Alternate(high, low, n)
  PROVE  /\ Swap(y, high, low, n) \in Nat
         /\ Moves(Swap(y, high, low, n), y, n)
<1>1. n \in Nat /\ high \in Nat /\ low \in Nat
  OBVIOUS
<1>2. PICK u \in Nat : u = And[y][high]
  BY <1>1, AndIsDefined
<1>3. PICK v \in Nat : v = And[y][low]
  BY <1>1, AndIsDefined
<1>4. PICK a \in Nat : a = u \div Two[n] /\ \A p \in Nat : Bit(a, p) = Bit(u, n + p)
  <2>1. PICK a \in Nat : a = u \div Two[n]
    BY <1>1, TwoIsPower, Quotient
  <2>2. \A p \in Nat : Bit(a, p) = Bit(u, n + p)
    BY <1>1, <2>1, BitOfQuotient
  <2>3. QED
    BY <2>1, <2>2
<1>5. PICK b \in Nat : b = v * Two[n] /\ \A p \in Nat : Bit(b, p) = IF p < n THEN 0 ELSE Bit(v, p - n)
  <2>1. PICK b \in Nat : b = v * Two[n]
    BY <1>1, TwoIsPower
  <2>2. \A p \in Nat : Bit(b, p) = IF p < n THEN 0 ELSE Bit(v, p - n)
    BY <1>1, <2>1, BitOfProduct
  <2>3. QED
    BY <2>1, <2>2
<1>6. Swap(y, high, low, n) = Or[a][b]
  BY <1>2, <1>3, <1>4, <1>5 DEF Swap, &, |
<1>7. Or[a][b] \in Nat
  BY OrIsDefined
<1>8. ASSUME NEW p \in 0 .. 15
      PROVE  Bit(Or[a][b], p) = Bit(y, Partner(p, n))
  <2>1. p \in Nat /\ n + p \in Nat
    BY <1>1
  <2>2. Bit(Or[a][b], p) = IF Bit(u, n + p) = 1 THEN 1 ELSE (IF p < n THEN 0 ELSE Bit(v, p - n))
    <3>1. Bit(Or[a][b], p) = IF Bit(a, p) = 1 THEN 1 ELSE Bit(b, p)
      BY <2>1, BitOfOr
    <3>2. QED
      BY <1>4, <1>5, <2>1, <3>1
  <2>3. Bit(u, n + p) = Bit(y, n + p) * Bit(high, n + p) /\ Bit(y, n + p) \in {0, 1}
    <3>1. PICK k \in Nat : k = n + p
      BY <2>1
    <3>2. Bit(u, k) = Bit(y, k) * Bit(high, k)
      BY <1>1, <1>2, BitOfAnd
    <3>3. Bit(y, k) \in {0, 1}
      BY BitIsBit
    <3>4. QED
      BY <3>1, <3>2, <3>3
  <2>4. p >= n => /\ p - n \in Nat /\ p - n \in 0 .. 15
                  /\ Bit(v, p - n) = Bit(y, p - n) * Bit(low, p - n)
                  /\ Bit(y, p - n) \in {0, 1}
    <3>1. ASSUME p >= n
          PROVE  /\ p - n \in Nat /\ p - n \in 0 .. 15
                 /\ Bit(v, p - n) = Bit(y, p - n) * Bit(low, p - n)
                 /\ Bit(y, p - n) \in {0, 1}
      <4>1. p - n \in Nat /\ p - n \in 0 .. 15
        BY <1>1, <3>1
      <4>2. PICK k \in Nat : k = p - n
        BY <4>1
      <4>3. Bit(v, k) = Bit(y, k) * Bit(low, k)
        BY <1>1, <1>3, BitOfAnd
      <4>4. Bit(y, k) \in {0, 1}
        BY BitIsBit
      <4>5. QED
        BY <4>1, <4>2, <4>3, <4>4
    <3>2. QED
      BY <3>1
  <2>5. CASE p % (2 * n) < n
    <3>1. /\ n + p \in 0 .. 15 /\ ~((n + p) % (2 * n) < n)
          /\ p >= n => ~((p - n) % (2 * n) < n)
      BY <2>5
    <3>2. Bit(high, n + p) = 1 /\ (p >= n => Bit(low, p - n) = 0)
      BY <2>4, <3>1 DEF Alternate
    <3>3. Bit(u, n + p) = Bit(y, n + p) /\ (p >= n => Bit(v, p - n) = 0)
      BY <2>3, <2>4, <3>2
    <3>4. Bit(Or[a][b], p) = Bit(y, n + p)
      BY <1>1, <2>1, <2>2, <2>3, <3>3
    <3>5. Partner(p, n) = n + p
      BY <1>1, <2>1, <2>5 DEF Partner
    <3>6. QED
      BY <3>4, <3>5
  <2>6. CASE ~(p % (2 * n) < n)
    <3>1. /\ p >= n /\ (p - n) % (2 * n) < n
          /\ n + p \in 0 .. 15 => (n + p) % (2 * n) < n
      BY <2>6
    <3>2. Bit(low, p - n) = 1
      BY <2>4, <3>1 DEF Alternate
    <3>3. Bit(high, n + p) = 0
      <4>1. CASE n + p \in 0 .. 15
        BY <3>1, <4>1 DEF Alternate
      <4>2. CASE n + p >= 16
        <5>1. high \in 0 .. (Two[16] - 1) /\ 16 \in Nat
          BY TwoIsPower
        <5>2. QED
          BY <2>1, <4>2, <5>1, BitAbove
      <4>3. QED
        BY <2>1, <4>1, <4>2
    <3>4. Bit(u, n + p) = 0 /\ Bit(v, p - n) = Bit(y, p - n)
      BY <2>3, <2>4, <3>1, <3>2, <3>3
    <3>5. Bit(Or[a][b], p) = Bit(y, p - n)
      BY <1>1, <2>1, <2>2, <3>1, <3>4
    <3>6. Partner(p, n) = p - n
      BY <2>6 DEF Partner
    <3>7. QED
      BY <3>5, <3>6
  <2>7. QED
    BY <2>5, <2>6
<1>9. QED
  BY <1>6, <1>7, <1>8 DEF Moves

(***************************************************************************)
(* _reverse_bits16 turns every mask of 16 bits round.                      *)
(***************************************************************************)
THEOREM ReversalIsRight == Spec => []ReversalIsReflection
<1>1. ASSUME x \in 0 .. Masks - 1
      PROVE  BitSet(ReverseBits16(x)) = {15 - p : p \in BitSet(x)}
  <2>1. x \in Nat
    <3>1. Masks \in Nat
      BY TwoIsPower DEF Masks
    <3>2. QED
      BY <1>1, <3>1
  <2>0. /\ 43690 < Two[16] /\ 52428 < Two[16] /\ 61680 < Two[16] /\ 65280 < Two[16]
    BY SmallPowers
  <2>2. PICK a \in Nat : /\ a = Swap(x, 43690, 21845, 1)
                         /\ Moves(a, x, 1)
    <3>1. PICK high \in Nat, low \in Nat, n \in {1, 2, 4, 8} :
            /\ high = 43690 /\ low = 21845 /\ n = 1
            /\ high < Two[16] /\ Alternate(high, low, n)
      BY <2>0, MasksAlternate
    <3>2. high < Two[16] /\ Alternate(high, low, n)
      BY <3>1
    <3>3. /\ Swap(x, high, low, n) \in Nat
          /\ Moves(Swap(x, high, low, n), x, n)
      BY <2>1, <3>2, SwapMoves
    <3>4. QED
      BY <3>1, <3>3
  <2>3. PICK b \in Nat : /\ b = Swap(a, 52428, 13107, 2)
                         /\ Moves(b, a, 2)
    <3>1. PICK high \in Nat, low \in Nat, n \in {1, 2, 4, 8} :
            /\ high = 52428 /\ low = 13107 /\ n = 2
            /\ high < Two[16] /\ Alternate(high, low, n)
      BY <2>0, MasksAlternate
    <3>2. high < Two[16] /\ Alternate(high, low, n)
      BY <3>1
    <3>3. /\ Swap(a, high, low, n) \in Nat
          /\ Moves(Swap(a, high, low, n), a, n)
      BY <2>1, <3>2, SwapMoves
    <3>4. QED
      BY <3>1, <3>3
  <2>4. PICK c \in Nat : /\ c = Swap(b, 61680, 3855, 4)
                         /\ Moves(c, b, 4)
    <3>1. PICK high \in Nat, low \in Nat, n \in {1, 2, 4, 8} :
            /\ high = 61680 /\ low = 3855 /\ n = 4
            /\ high < Two[16] /\ Alternate(high, low, n)
      BY <2>0, MasksAlternate
    <3>2. high < Two[16] /\ Alternate(high, low, n)
      BY <3>1
    <3>3. /\ Swap(b, high, low, n) \in Nat
          /\ Moves(Swap(b, high, low, n), b, n)
      BY <2>1, <3>2, SwapMoves
    <3>4. QED
      BY <3>1, <3>3
  <2>5. PICK d \in Nat : /\ d = Swap(c, 65280, 255, 8)
                         /\ Moves(d, c, 8)
    <3>1. PICK high \in Nat, low \in Nat, n \in {1, 2, 4, 8} :
            /\ high = 65280 /\ low = 255 /\ n = 8
            /\ high < Two[16] /\ Alternate(high, low, n)
      BY <2>0, MasksAlternate
    <3>2. high < Two[16] /\ Alternate(high, low, n)
      BY <3>1
    <3>3. /\ Swap(c, high, low, n) \in Nat
          /\ Moves(Swap(c, high, low, n), c, n)
      BY <2>1, <3>2, SwapMoves
    <3>4. QED
      BY <3>1, <3>3
  <2>6. d = ReverseBits16(x)
    BY <2>2, <2>3, <2>4, <2>5 DEF ReverseBits16
  <2>7. \A p \in 0 .. 15 :
          /\ Partner(p, 8) \in 0 .. 15 /\ Partner(p, 4) \in 0 .. 15 /\ Partner(p, 2) \in 0 .. 15
          /\ Partner(Partner(Partner(Partner(p, 8), 4), 2), 1) = 15 - p
    BY DEF Partner
  <2>8. \A p \in 0 .. 15 : Bit(d, p) = Bit(x, 15 - p)
    <3>1. SUFFICES ASSUME NEW p \in 0 .. 15
                   PROVE  Bit(d, p) = Bit(x, 15 - p)
      OBVIOUS
    <3>2. PICK q \in 0 .. 15 : q = Partner(p, 8)
      BY <2>7
    <3>3. PICK r \in 0 .. 15 : r = Partner(q, 4)
      BY <2>7
    <3>4. PICK s \in 0 .. 15 : s = Partner(r, 2)
      BY <2>7
    <3>5. Bit(d, p) = Bit(c, q) /\ Bit(c, q) = Bit(b, r) /\ Bit(b, r) = Bit(a, s)
            /\ Bit(a, s) = Bit(x, Partner(s, 1))
      BY <2>2, <2>3, <2>4, <2>5, <3>2, <3>3, <3>4 DEF Moves
    <3>6. Partner(s, 1) = 15 - p
      BY <2>7, <3>2, <3>3, <3>4
    <3>7. QED
      BY <3>5, <3>6
  <2>9. /\ BitSet(x) = {p \in 0 .. 15 : Bit(x, p) = 1}
        /\ BitSet(d) = {p \in 0 .. 15 : Bit(d, p) = 1}
    BY DEF BitSet, Bit
  <2>10. \A p \in 0 .. 15 : 15 - p \in 0 .. 15 /\ 15 - (15 - p) = p
    OBVIOUS
  <2>11. ASSUME NEW p \in BitSet(d)
         PROVE  p \in {15 - q : q \in BitSet(x)}
    <3>1. p \in 0 .. 15 /\ Bit(x, 15 - p) = 1
      BY <2>8, <2>9
    <3>2. 15 - p \in BitSet(x) /\ p = 15 - (15 - p)
      BY <2>9, <2>10, <3>1
    <3>3. QED
      BY <3>2
  <2>12. ASSUME NEW q \in BitSet(x)
         PROVE  15 - q \in BitSet(d)
    <3>1. q \in 0 .. 15 /\ Bit(x, q) = 1
      BY <2>9
    <3>2. 15 - q \in 0 .. 15 /\ Bit(d, 15 - q) = Bit(x, 15 - (15 - q))
      BY <2>8, <2>10, <3>1
    <3>3. QED
      BY <2>9, <2>10, <3>1, <3>2
  <2>13. BitSet(d) = {15 - p : p \in BitSet(x)}
    BY <2>11, <2>12
  <2>14. QED
    BY <2>6, <2>13
<1>2. ReversalIsReflection
  BY <1>1 DEF ReversalIsReflection
<1>3. QED
  BY <1>2, PTL

=============================================================================
