---------------------------- MODULE Words_proofs ----------------------------
(***************************************************************************)
(* Arithmetic that the tables and the hash functions rest on: powers of    *)
(* two, remainders, and the bitwise operators.                             *)
(***************************************************************************)
EXTENDS Words, FiniteSetTheorems, TLAPS

(***************************************************************************)
(* Induction, for a set in place of a predicate: a finite set that is      *)
(* closed under m |-> m - 1 would be mapped onto itself.                   *)
(***************************************************************************)
LEMMA SetInduction ==
  ASSUME NEW S, 0 \in S, \A n \in Nat : n \in S => n + 1 \in S
  PROVE  \A n \in Nat : n \in S
<1>1. SUFFICES ASSUME NEW n \in Nat, n \notin S
               PROVE  FALSE
  OBVIOUS
<1> DEFINE T == {m \in 0 .. n : m \notin S}
<1> DEFINE f == [m \in T |-> m - 1]
<1>2. \A m \in T : m \in Nat /\ m - 1 \in T
  <2>1. SUFFICES ASSUME NEW m \in T
                 PROVE  m \in Nat /\ m - 1 \in T
    OBVIOUS
  <2>2. m # 0 /\ m \in Nat /\ m - 1 \in Nat /\ (m - 1) + 1 = m
    OBVIOUS
  <2>3. QED
    BY <2>2
<1>3. IsFiniteSet(T)
  <2>1. IsFiniteSet(0 .. n)
    BY FS_Interval
  <2>2. QED
    BY <2>1, FS_Subset
<1>4. f \in Injection(T, T)
  BY <1>2 DEF Injection, IsInjective
<1>5. f \in Surjection(T, T)
  BY <1>3, <1>4, FS_Injection
<1>6. n \in T
  BY <1>1
<1>7. PICK m \in T : f[m] = n
  <2> HIDE DEF T, f
  <2>1. QED
    BY <1>5, <1>6 DEF Surjection
<1>8. QED
  BY <1>2, <1>7

(* The same, with all smaller numbers to start from. *)
LEMMA StrongSetInduction ==
  ASSUME NEW S, \A n \in Nat : (\A m \in 0 .. (n - 1) : m \in S) => n \in S
  PROVE  \A n \in Nat : n \in S
<1> DEFINE Below == {n \in Nat : \A m \in 0 .. n : m \in S}
<1>1. 0 \in Below
  BY \A m \in 0 .. (0 - 1) : m \in S
<1>2. ASSUME NEW n \in Nat, n \in Below
      PROVE  n + 1 \in Below
  <2>1. \A m \in 0 .. ((n + 1) - 1) : m \in S
    BY <1>2
  <2>2. n + 1 \in S
    BY <2>1
  <2>3. QED
    BY <2>1, <2>2
<1>3. \A n \in Nat : n \in Below
  <2> HIDE DEF Below
  <2>1. QED
    BY <1>1, <1>2, SetInduction
<1>4. QED
  BY <1>3

-----------------------------------------------------------------------------
(***************************************************************************)
(* Powers of two stay powers of two when a resize doubles or halves them.  *)
(***************************************************************************)
LEMMA DoublePower ==
  ASSUME NEW n \in Nat, IsPowerOfTwo(n)
  PROVE  IsPowerOfTwo(2 * n)
<1>1. 2 * n > 0
  BY DEF IsPowerOfTwo
<1>2. ASSUME NEW d \in 1 .. 2 * n, NEW q \in 1 .. 2 * n, 2 * n = d * q, d % 2 # 0
      PROVE  d = 1
  <2>1. PICK e \in Nat : d = 2 * e + 1
    <3>1. d = 2 * (d \div 2) + 1 /\ d \div 2 \in Nat
      BY <1>2
    <3>2. QED
      BY <3>1
  <2>2. q = 2 * (n - e * q) /\ n - e * q \in Int
    BY <1>2, <2>1
  <2>3. PICK r \in Int : q = 2 * r
    BY <2>2
  <2>4. n = d * r
    BY <1>2, <2>3
  <2>5. r >= 1
    BY <2>3
  <2>6. r <= n /\ d <= n
    BY <2>4, <2>5
  <2>7. QED
    BY <1>2, <2>4, <2>5, <2>6 DEF IsPowerOfTwo
<1>3. QED
  BY <1>1, <1>2 DEF IsPowerOfTwo

LEMMA HalfPower ==
  ASSUME NEW n \in Nat, IsPowerOfTwo(n), n > 1
  PROVE  /\ n \div 2 \in Nat \ {0}
         /\ n = 2 * (n \div 2)
         /\ IsPowerOfTwo(n \div 2)
<1>1. n % 2 = 0
  <2>1. n = n * 1 /\ n \in 1 .. n /\ 1 \in 1 .. n
    OBVIOUS
  <2>2. QED
    BY <2>1 DEF IsPowerOfTwo
<1>2. n \div 2 \in Nat \ {0} /\ n = 2 * (n \div 2)
  BY <1>1
<1>3. PICK m \in Nat \ {0} : m = n \div 2 /\ n = 2 * m
  BY <1>2
<1>4. ASSUME NEW d \in 1 .. m, NEW q \in 1 .. m, m = d * q
      PROVE  d = 1 \/ d % 2 = 0
  <2>1. n = d * (2 * q) /\ d \in 1 .. n /\ 2 * q \in 1 .. n
    BY <1>3, <1>4
  <2>2. QED
    BY <2>1 DEF IsPowerOfTwo
<1>5. QED
  BY <1>2, <1>3, <1>4 DEF IsPowerOfTwo

IsMultiple(n, x) == \E q \in Int : x = n * q

(* An odd factor has no part in a multiple of a power of two. *)
LEMMA OddFactorCancels ==
  ASSUME NEW n \in Nat, IsPowerOfTwo(n), NEW a \in Int, NEW b \in Int, a % 2 = 1,
         IsMultiple(n, a * b)
  PROVE  IsMultiple(n, b)
<1> DEFINE Cancels(m) ==
      IsPowerOfTwo(m) =>
        \A c \in Int : (\E q \in Int : a * c = m * q) => \E r \in Int : c = m * r
<1> DEFINE S == {m \in Nat : Cancels(m)}
<1>1. ASSUME NEW m \in Nat, \A l \in 0 .. (m - 1) : l \in S, IsPowerOfTwo(m),
             NEW c \in Int, NEW q \in Int, a * c = m * q
      PROVE  \E r \in Int : c = m * r
  <2>1. CASE m = 1
    BY <2>1
  <2>2. CASE m > 1
    <3>1. PICK h \in Nat \ {0} : m = 2 * h /\ IsPowerOfTwo(h)
      BY <1>1, <2>2, HalfPower
    <3>2. PICK e \in Int : a = 2 * e + 1
      <4>1. a = 2 * (a \div 2) + 1 /\ a \div 2 \in Int
        OBVIOUS
      <4>2. QED
        BY <4>1
    <3>3. PICK d \in Int : c = 2 * d
      <4>1. c = 2 * (h * q - e * c) /\ h * q - e * c \in Int
        BY <1>1, <3>1, <3>2
      <4>2. QED
        BY <4>1
    <3>4. a * d = h * q
      BY <1>1, <3>1, <3>3
    <3>5. h \in 0 .. (m - 1)
      BY <3>1
    <3>6. PICK r \in Int : d = h * r
      BY <1>1, <3>1, <3>4, <3>5
    <3>7. QED
      BY <3>1, <3>3, <3>6
  <2>3. QED
    BY <1>1, <2>1, <2>2 DEF IsPowerOfTwo
<1>2. \A m \in Nat : m \in S
  <2>1. \A m \in Nat : (\A l \in 0 .. (m - 1) : l \in S) => m \in S
    BY <1>1
  <2> HIDE DEF S
  <2>2. QED
    BY <2>1, StrongSetInduction
<1>3. QED
  BY <1>2 DEF IsMultiple

LEMMA LeastElement ==
  ASSUME NEW S \in SUBSET Nat, NEW n \in S
  PROVE  \E m \in S : \A l \in S : m <= l
<1>1. SUFFICES ASSUME \A m \in S : \E l \in S : l < m
               PROVE  FALSE
  OBVIOUS
<1> DEFINE Others == Nat \ S
<1>2. \A k \in Nat : (\A l \in 0 .. (k - 1) : l \in Others) => k \in Others
  BY <1>1
<1>3. \A k \in Nat : k \in Others
  <2> HIDE DEF Others
  <2>1. QED
    BY <1>2, StrongSetInduction
<1>4. QED
  BY <1>3

-----------------------------------------------------------------------------
(* Of two powers of two the smaller one divides the larger one. *)
LEMMA PowerDivides ==
  ASSUME NEW g \in Nat, IsPowerOfTwo(g), NEW m \in Nat, IsPowerOfTwo(m), g <= m
  PROVE  \E q \in Nat \ {0} : m = g * q /\ IsPowerOfTwo(q)
<1> DEFINE Divides(d) ==
      IsPowerOfTwo(d) =>
        \A e \in Nat : IsPowerOfTwo(e) /\ d <= e =>
          \E q \in Nat \ {0} : e = d * q /\ IsPowerOfTwo(q)
<1> DEFINE S == {d \in Nat : Divides(d)}
<1>1. ASSUME NEW d \in Nat, \A l \in 0 .. (d - 1) : l \in S, IsPowerOfTwo(d),
             NEW e \in Nat, IsPowerOfTwo(e), d <= e
      PROVE  \E q \in Nat \ {0} : e = d * q /\ IsPowerOfTwo(q)
  <2>1. CASE d = 1
    BY <1>1, <2>1
  <2>2. CASE d > 1
    <3>1. PICK h \in Nat \ {0} : d = 2 * h /\ IsPowerOfTwo(h)
      BY <1>1, <2>2, HalfPower
    <3>2. PICK f \in Nat \ {0} : e = 2 * f /\ IsPowerOfTwo(f)
      BY <1>1, <2>2, HalfPower
    <3>3. h \in 0 .. (d - 1) /\ h <= f
      BY <1>1, <3>1, <3>2
    <3>4. PICK q \in Nat \ {0} : f = h * q /\ IsPowerOfTwo(q)
      BY <1>1, <3>1, <3>2, <3>3
    <3>5. e = d * q
      BY <3>1, <3>2, <3>4
    <3>6. QED
      BY <3>4, <3>5
  <2>3. QED
    BY <1>1, <2>1, <2>2 DEF IsPowerOfTwo
<1>2. \A d \in Nat : d \in S
  <2>1. \A d \in Nat : (\A l \in 0 .. (d - 1) : l \in S) => d \in S
    BY <1>1
  <2> HIDE DEF S
  <2>2. QED
    BY <2>1, StrongSetInduction
<1>3. QED
  BY <1>2

LEMMA OneIsPower == IsPowerOfTwo(1)
BY DEF IsPowerOfTwo

(* Above every number there is a power of two, no further than its double. *)
LEMMA PowerAbove ==
  ASSUME NEW n \in Nat \ {0}
  PROVE  \E m \in n .. 2 * n : IsPowerOfTwo(m)
<1> DEFINE S == {k \in Nat : \E m \in (k + 1) .. 2 * (k + 1) : IsPowerOfTwo(m)}
<1>1. 0 \in S
  BY OneIsPower
<1>2. ASSUME NEW k \in Nat, k \in S
      PROVE  k + 1 \in S
  <2>1. PICK m \in (k + 1) .. 2 * (k + 1) : IsPowerOfTwo(m)
    BY <1>2
  <2>2. CASE m > k + 1
    BY <2>1, <2>2
  <2>3. CASE m = k + 1
    <3>1. IsPowerOfTwo(2 * (k + 1))
      BY <2>1, <2>3, DoublePower
    <3>2. QED
      BY <3>1
  <2>4. QED
    BY <2>1, <2>2, <2>3
<1>3. \A k \in Nat : k \in S
  <2> HIDE DEF S
  <2>1. QED
    BY <1>1, <1>2, SetInduction
<1>4. n - 1 \in Nat /\ (n - 1) + 1 = n
  OBVIOUS
<1>5. QED
  BY <1>3, <1>4

LEMMA NextPowerIsLeast ==
  ASSUME NEW n \in Nat \ {0}
  PROVE  /\ NextPowerOfTwo(n) \in n .. 2 * n
         /\ IsPowerOfTwo(NextPowerOfTwo(n))
         /\ \A l \in n .. NextPowerOfTwo(n) - 1 : ~IsPowerOfTwo(l)
<1> DEFINE S == {m \in n .. 2 * n : IsPowerOfTwo(m)}
<1>1. S \in SUBSET Nat /\ \E m \in S : TRUE
  BY PowerAbove
<1>2. PICK m \in S : \A l \in S : m <= l
  <2> HIDE DEF S
  <2>1. QED
    BY <1>1, LeastElement
<1>3. m \in n .. 2 * n /\ IsPowerOfTwo(m) /\ \A l \in n .. m - 1 : ~IsPowerOfTwo(l)
  BY <1>2
<1>4. QED
  BY <1>3 DEF NextPowerOfTwo

-----------------------------------------------------------------------------
(***************************************************************************)
(* Remainders that agree, and the two probe sequences.                     *)
(***************************************************************************)
LEMMA SameRemainder ==
  ASSUME NEW n \in Nat \ {0}, NEW a \in Int, NEW b \in Int, a % n = b % n
  PROVE  \E q \in Int : b - a = n * q
<1>1. a = n * (a \div n) + (a % n) /\ b = n * (b \div n) + (b % n)
  OBVIOUS
<1>2. (b \div n) - (a \div n) \in Int
  OBVIOUS
<1>3. b - a = n * ((b \div n) - (a \div n))
  BY <1>1, <1>2
<1>4. QED
  BY <1>2, <1>3

LEMMA SmallMultiple ==
  ASSUME NEW n \in Nat \ {0}, NEW b \in Int, NEW q \in Int, b = n * q, -n < b, b < n
  PROVE  b = 0
<1>1. q < 1 /\ q > -1
  OBVIOUS
<1>2. QED
  BY <1>1

(* Linear steps, fewer than there are groups, lead to different groups. *)
LEMMA LinearDistinct ==
  ASSUME NEW n \in Nat \ {0}, NEW h \in Nat, NEW i \in 0 .. (n - 1), NEW j \in 0 .. (n - 1),
         (h + i) % n = (h + j) % n
  PROVE  i = j
<1>1. h + i \in Int /\ h + j \in Int
  OBVIOUS
<1>2. PICK q \in Int : (h + j) - (h + i) = n * q
  BY <1>1, SameRemainder
<1>3. j - i \in Int /\ j - i = n * q
  BY <1>2
<1>4. j - i = 0
  BY <1>3, SmallMultiple
<1>5. QED
  BY <1>4

(* So do triangular steps, when the number of groups is a power of two. *)
LEMMA TriangularDistinct ==
  ASSUME NEW n \in Nat, IsPowerOfTwo(n), NEW h \in Nat,
         NEW i \in 0 .. (n - 1), NEW j \in 0 .. (n - 1), i < j
  PROVE  (h + (i * (i + 1)) \div 2) % n # (h + (j * (j + 1)) \div 2) % n
<1> DEFINE Tri(m) == (m * (m + 1)) \div 2
<1>1. ASSUME NEW m \in Nat
      PROVE  Tri(m) \in Nat /\ 2 * Tri(m) = m * (m + 1)
  <2>1. \E l \in Nat : m * (m + 1) = 2 * l
    <3>1. CASE m % 2 = 0
      <4>1. PICK l \in Nat : m = 2 * l
        BY <3>1
      <4>2. m * (m + 1) = 2 * (l * (m + 1)) /\ l * (m + 1) \in Nat
        BY <4>1
      <4>3. QED
        BY <4>2
    <3>2. CASE m % 2 = 1
      <4>1. m + 1 = 2 * ((m + 1) \div 2) /\ (m + 1) \div 2 \in Nat
        BY <3>2
      <4>2. PICK l \in Nat : m + 1 = 2 * l
        BY <4>1
      <4>3. m * (m + 1) = 2 * (m * l) /\ m * l \in Nat
        BY <4>2
      <4>4. QED
        BY <4>3
    <3>3. QED
      BY <3>1, <3>2
  <2>2. PICK l \in Nat : m * (m + 1) = 2 * l
    BY <2>1
  <2>3. QED
    BY <2>2
<1> HIDE DEF Tri
<1>2. i \in Nat /\ j \in Nat /\ n \in Nat \ {0}
  OBVIOUS
<1>3. SUFFICES ASSUME (h + Tri(i)) % n = (h + Tri(j)) % n
               PROVE  FALSE
  BY DEF Tri
<1>4. PICK q \in Int : (h + Tri(j)) - (h + Tri(i)) = n * q
  <2>1. h + Tri(i) \in Int /\ h + Tri(j) \in Int
    BY <1>1, <1>2
  <2>2. QED
    BY <1>2, <1>3, <2>1, SameRemainder
<1>5. 2 * (Tri(j) - Tri(i)) = 2 * (n * q)
  BY <1>1, <1>2, <1>4
<1>6. PICK a \in Int, b \in Int : a = j - i /\ b = j + i + 1
  BY <1>2
<1>7. a * b = (2 * n) * q /\ b * a = (2 * n) * q
  <2>1. a * b = j * (j + 1) - i * (i + 1)
    BY <1>2, <1>6
  <2>2. /\ 2 * Tri(j) = j * (j + 1) /\ Tri(j) \in Nat
        /\ 2 * Tri(i) = i * (i + 1) /\ Tri(i) \in Nat
    BY <1>1, <1>2
  <2>3. a * b = 2 * (Tri(j) - Tri(i))
    <3> HIDE DEF Tri
    <3>1. \A x, y, u, v \in Int : 2 * x = u /\ 2 * y = v => u - v = 2 * (x - y)
      OBVIOUS
    <3>2. j * (j + 1) \in Int /\ i * (i + 1) \in Int
      BY <1>2
    <3>3. QED
      BY <2>1, <2>2, <3>1, <3>2
  <2>4. a * b = (2 * n) * q
    BY <1>2, <1>5, <2>3
  <2>5. QED
    BY <2>4
<1>8. PICK m \in Nat \ {0} : m = 2 * n
  BY <1>2
<1>9. /\ IsPowerOfTwo(m)
      /\ IsMultiple(m, a * b) /\ IsMultiple(m, b * a)
      /\ a # 0 /\ -m < a /\ a < m
      /\ b # 0 /\ -m < b /\ b < m
  <2>1. IsPowerOfTwo(m) /\ IsMultiple(m, a * b) /\ IsMultiple(m, b * a)
    BY DoublePower, <1>2, <1>7, <1>8 DEF IsMultiple
  <2>2. /\ a # 0 /\ -m < a /\ a < m
        /\ b # 0 /\ -m < b /\ b < m
    BY <1>2, <1>6, <1>8
  <2>3. QED
    BY <2>1, <2>2
<1>10. CASE a % 2 = 1
  <2>1. PICK r \in Int : b = m * r
    <3>1. IsMultiple(m, b)
      BY <1>9, <1>10, OddFactorCancels
    <3>2. QED
      BY <3>1 DEF IsMultiple
  <2>2. QED
    BY <1>9, <2>1, SmallMultiple
<1>11. CASE a % 2 = 0
  <2>1. b % 2 = 1
    BY <1>2, <1>6, <1>11
  <2>2. PICK r \in Int : a = m * r
    <3>1. IsMultiple(m, a)
      BY <1>9, <2>1, OddFactorCancels
    <3>2. QED
      BY <3>1 DEF IsMultiple
  <2>3. QED
    BY <1>9, <2>2, SmallMultiple
<1>12. QED
  BY <1>10, <1>11

-----------------------------------------------------------------------------
(***************************************************************************)
(* A recursive function exists: its value at n comes from its value at a   *)
(* smaller number d[n], by the function G[n].                              *)
(***************************************************************************)
ComesFrom(f, v0, G, d) ==
  f[0] = v0 /\ \A n \in Nat \ {0} : f[n] = G[n][f[d[n]]]

LEMMA Recursion ==
  ASSUME NEW V, NEW v0 \in V, NEW G \in [Nat -> [V -> V]],
         NEW d \in [Nat -> Nat], \A n \in Nat \ {0} : d[n] < n
  PROVE  \E f \in [Nat -> V] : ComesFrom(f, v0, G, d)
<1> DEFINE Solves(f, n) ==
      f \in [0 .. n -> V] /\ f[0] = v0 /\ \A k \in 1 .. n : f[k] = G[k][f[d[k]]]
<1>1. ASSUME NEW n \in Nat, NEW l \in Nat, NEW f, NEW g, Solves(f, n), Solves(g, l), l <= n
      PROVE  f[l] = g[l]
  <2> DEFINE S == {k \in Nat : k <= l => f[k] = g[k]}
  <2>1. ASSUME NEW k \in Nat, \A j \in 0 .. (k - 1) : j \in S
        PROVE  k \in S
    <3>1. CASE k = 0
      BY <1>1, <3>1
    <3>2. CASE k > 0 /\ k <= l
      <4>1. k \in 1 .. n /\ k \in 1 .. l /\ d[k] \in 0 .. (k - 1) /\ d[k] <= l
        <5>1. k \in Nat \ {0} /\ d[k] \in Nat /\ d[k] < k
          BY <3>2
        <5>2. l <= n
          BY <1>1
        <5>3. QED
          BY <3>2, <5>1, <5>2
      <4>2. f[d[k]] = g[d[k]]
        BY <2>1, <4>1
      <4>3. f[k] = G[k][f[d[k]]] /\ g[k] = G[k][g[d[k]]]
        BY <1>1, <4>1
      <4>4. QED
        BY <4>2, <4>3
    <3>3. QED
      BY <3>1, <3>2
  <2>2. \A k \in Nat : k \in S
    <3> HIDE DEF S
    <3>1. QED
      BY <2>1, StrongSetInduction
  <2>3. QED
    BY <2>2
<1> DEFINE T == {n \in Nat : \E f \in [0 .. n -> V] : Solves(f, n)}
<1>2. \A n \in Nat : n \in T
  <2>1. 0 \in T
    <3> DEFINE f == [k \in 0 .. 0 |-> v0]
    <3>1. Solves(f, 0)
      OBVIOUS
    <3>2. QED
      BY <3>1
  <2>2. ASSUME NEW n \in Nat, n \in T
        PROVE  n + 1 \in T
    <3>1. PICK f \in [0 .. n -> V] : Solves(f, n)
      BY <2>2
    <3> DEFINE v == G[n + 1][f[d[n + 1]]]
    <3> DEFINE g == [k \in 0 .. (n + 1) |-> IF k = n + 1 THEN v ELSE f[k]]
    <3>2. v \in V
      <4>1. n + 1 \in Nat \ {0} /\ d[n + 1] \in Nat /\ d[n + 1] < n + 1
        OBVIOUS
      <4>2. f[d[n + 1]] \in V
        BY <4>1
      <4>3. QED
        BY <4>1, <4>2
    <3>3. g \in [0 .. (n + 1) -> V] /\ g[0] = v0
      BY <3>1, <3>2
    <3>4. ASSUME NEW k \in 1 .. (n + 1)
          PROVE  g[k] = G[k][g[d[k]]]
      <4>1. k \in Nat \ {0} /\ d[k] \in Nat /\ d[k] < k
        OBVIOUS
      <4>2. g[d[k]] = f[d[k]]
        <5>1. d[k] \in 0 .. (n + 1) /\ d[k] # n + 1
          BY <4>1
        <5>2. QED
          BY <5>1
      <4>3. k # n + 1 => g[k] = f[k] /\ f[k] = G[k][f[d[k]]]
        BY <3>1
      <4>4. k = n + 1 => g[k] = v
        OBVIOUS
      <4>5. QED
        BY <4>2, <4>3, <4>4
    <3>5. g \in [0 .. (n + 1) -> V] /\ Solves(g, n + 1)
      BY <3>3, <3>4
    <3> HIDE DEF g, Solves
    <3>6. \E e \in [0 .. (n + 1) -> V] : Solves(e, n + 1)
      BY <3>5
    <3>7. QED
      BY <3>6
  <2> HIDE DEF T
  <2>3. QED
    BY <2>1, <2>2, SetInduction
<1> DEFINE h == [n \in Nat |-> CHOOSE f \in [0 .. n -> V] : Solves(f, n)]
<1>3. ASSUME NEW n \in Nat
      PROVE  Solves(h[n], n)
  BY <1>2
<1> DEFINE F == [n \in Nat |-> h[n][n]]
<1> HIDE DEF h, T
<1>4. F \in [Nat -> V]
  <2>1. \A n \in Nat : h[n][n] \in V
    BY <1>3
  <2>2. QED
    BY <2>1
<1>5. F[0] = v0
  BY <1>3
<1>6. ASSUME NEW n \in Nat \ {0}
      PROVE  F[n] = G[n][F[d[n]]]
  <2>1. d[n] \in Nat /\ d[n] <= n /\ n \in Nat /\ n \in 1 .. n
    OBVIOUS
  <2>2. Solves(h[n], n) /\ Solves(h[d[n]], d[n])
    BY <1>3, <2>1
  <2>3. h[n][d[n]] = h[d[n]][d[n]]
    <3> HIDE DEF Solves
    <3>1. \A f, g : Solves(f, n) /\ Solves(g, d[n]) => f[d[n]] = g[d[n]]
      BY <1>1, <2>1
    <3>2. QED
      BY <2>2, <3>1
  <2>4. h[n][n] = G[n][h[n][d[n]]]
    BY <2>1, <2>2
  <2>5. QED
    BY <2>1, <2>3, <2>4
<1>7. QED
  <2> HIDE DEF F
  <2>1. ComesFrom(F, v0, G, d)
    BY <1>5, <1>6 DEF ComesFrom
  <2>2. QED
    BY <1>4, <2>1

LEMMA TwoIsDefined ==
  /\ Two \in [Nat -> Nat]
  /\ Two[0] = 1
  /\ \A n \in Nat : Two[n + 1] = 2 * Two[n]
<1> DEFINE V == Nat
<1> DEFINE d == [n \in Nat |-> IF n = 0 THEN 0 ELSE n - 1]
<1> DEFINE G == [n \in Nat |-> [v \in V |-> 2 * v]]
<1>1. PICK f \in [Nat -> V] : ComesFrom(f, 1, G, d)
  <2>1. d \in [Nat -> Nat] /\ (\A n \in Nat \ {0} : d[n] < n) /\ 1 \in V /\ G \in [Nat -> [V -> V]]
    OBVIOUS
  <2> HIDE DEF d, G, V
  <2>2. QED
    BY <2>1, Recursion
<1>2. f = [n \in Nat |-> IF n = 0 THEN 1 ELSE 2 * f[n - 1]]
  <2>1. ASSUME NEW n \in Nat \ {0}
        PROVE  f[n] = 2 * f[n - 1]
    <3>1. d[n] = n - 1 /\ f[d[n]] \in Nat
      OBVIOUS
    <3>2. QED
      BY <1>1, <3>1 DEF ComesFrom
  <2>2. QED
    BY <1>1, <2>1 DEF ComesFrom
<1>3. Two = [n \in Nat |-> IF n = 0 THEN 1 ELSE 2 * Two[n - 1]]
  BY <1>2 DEF Two
<1>4. Two[0] = 1 /\ \A n \in Nat : Two[n + 1] = 2 * Two[n]
  <2>1. ASSUME NEW n \in Nat
        PROVE  Two[n + 1] = 2 * Two[n]
    <3>1. n + 1 \in Nat /\ n + 1 # 0 /\ (n + 1) - 1 = n
      OBVIOUS
    <3>2. QED
      BY <1>3, <3>1
  <2>2. QED
    BY <1>3, <2>1
<1>5. \A n \in Nat : Two[n] \in Nat
  <2> DEFINE S == {n \in Nat : Two[n] \in Nat}
  <2>1. 0 \in S
    BY <1>4
  <2>2. \A n \in Nat : n \in S => n + 1 \in S
    BY <1>4
  <2> HIDE DEF S
  <2>3. \A n \in Nat : n \in S
    BY <2>1, <2>2, SetInduction
  <2>4. QED
    BY <2>3 DEF S
<1>6. Two \in [Nat -> Nat]
  <2>1. DOMAIN Two = Nat /\ Two = [n \in DOMAIN Two |-> Two[n]]
    BY <1>3
  <2>2. QED
    BY <1>5, <2>1
<1>7. QED
  BY <1>4, <1>6

(***************************************************************************)
(* A bitwise operator: z gives what it is for 0, t the last bit of what it *)
(* is otherwise.                                                           *)
(***************************************************************************)
HalvesTo(f, z, t) ==
  \A a, b \in Nat : f[a][b] = IF a = 0 THEN z[b] ELSE 2 * f[a \div 2][b \div 2] + t[a][b]

LEMMA Halving ==
  ASSUME NEW n \in Nat
  PROVE  /\ n \div 2 \in Nat /\ n % 2 \in {0, 1} /\ n = 2 * (n \div 2) + (n % 2)
         /\ n # 0 => n \div 2 < n /\ n \div 2 \in 0 .. (n - 1)
OBVIOUS

LEMMA TwiceAndMore == \A x, y \in Nat : 2 * x + y \in Nat
OBVIOUS

LEMMA HalvingIsNatural ==
  ASSUME NEW z \in [Nat -> Nat], NEW t \in [Nat -> [Nat -> Nat]], NEW f, HalvesTo(f, z, t)
  PROVE  \A a, b \in Nat : f[a][b] \in Nat
<1> DEFINE S == {a \in Nat : \A b \in Nat : f[a][b] \in Nat}
<1>1. ASSUME NEW a \in Nat, \A l \in 0 .. (a - 1) : l \in S
      PROVE  a \in S
  <2>1. ASSUME NEW b \in Nat, a # 0
        PROVE  f[a][b] \in Nat
    <3>1. a \div 2 \in S /\ b \div 2 \in Nat
      BY <1>1, <2>1, Halving
    <3>2. f[a \div 2][b \div 2] \in Nat /\ t[a][b] \in Nat
      BY <3>1
    <3>3. f[a][b] = 2 * f[a \div 2][b \div 2] + t[a][b]
      BY <2>1 DEF HalvesTo
    <3>4. QED
      BY <3>2, <3>3, TwiceAndMore
  <2>2. ASSUME NEW b \in Nat, a = 0
        PROVE  f[a][b] \in Nat
    BY <2>2 DEF HalvesTo
  <2>3. QED
    BY <2>1, <2>2
<1>2. \A a \in Nat : a \in S
  <2> HIDE DEF S
  <2>1. QED
    BY <1>1, StrongSetInduction
<1>3. QED
  BY <1>2

LEMMA BitwiseIsDefined ==
  ASSUME NEW z \in [Nat -> Nat], NEW t \in [Nat -> [Nat -> Nat]]
  PROVE  \E f \in [Nat -> [Nat -> Nat]] : HalvesTo(f, z, t)
<1> DEFINE V == [Nat -> Nat]
<1> DEFINE d == [n \in Nat |-> n \div 2]
<1> DEFINE Step(a, g) == [b \in Nat |-> 2 * g[b \div 2] + t[a][b]]
<1> DEFINE G == [a \in Nat |-> [g \in V |-> Step(a, g)]]
<1>1. d \in [Nat -> Nat] /\ \A n \in Nat \ {0} : d[n] < n
  BY Halving
<1>2. G \in [Nat -> [V -> V]]
  <2>1. ASSUME NEW a \in Nat, NEW g \in V
        PROVE  Step(a, g) \in V
    <3>1. ASSUME NEW b \in Nat
          PROVE  2 * g[b \div 2] + t[a][b] \in Nat
      <4>1. g[b \div 2] \in Nat /\ t[a][b] \in Nat
        BY Halving
      <4>2. QED
        BY <4>1, TwiceAndMore
    <3>2. QED
      BY <3>1
  <2> HIDE DEF Step, V
  <2>2. QED
    BY <2>1
<1>3. PICK f \in [Nat -> V] : ComesFrom(f, z, G, d)
  <2> HIDE DEF d, G
  <2>1. z \in V
    OBVIOUS
  <2> HIDE DEF V
  <2>2. QED
    BY <1>1, <1>2, <2>1, Recursion
<1>4. ASSUME NEW a \in Nat \ {0}
      PROVE  f[a] = Step(a, f[a \div 2])
  <2>1. a \in Nat /\ d[a] = a \div 2 /\ f[d[a]] \in V
    BY Halving
  <2>2. f[a] = G[a][f[d[a]]]
    BY <1>3 DEF ComesFrom
  <2> HIDE DEF Step, d, V
  <2>3. QED
    BY <2>1, <2>2
<1>5. ASSUME NEW a \in Nat, NEW b \in Nat
      PROVE  f[a][b] = IF a = 0 THEN z[b] ELSE 2 * f[a \div 2][b \div 2] + t[a][b]
  <2>1. CASE a = 0
    BY <1>3, <2>1 DEF ComesFrom
  <2>2. CASE a # 0
    <3>1. f[a] = Step(a, f[a \div 2])
      BY <1>4, <2>2
    <3>2. QED
      BY <2>2, <3>1
  <2>3. QED
    BY <2>1, <2>2
<1>6. QED
  BY <1>3, <1>5 DEF HalvesTo

LEMMA SameFunction ==
  ASSUME NEW f \in [Nat -> [Nat -> Nat]], NEW g \in [Nat -> [Nat -> Nat]],
         \A a, b \in Nat : f[a][b] = g[a][b]
  PROVE  f = g
<1>1. \A a \in Nat : f[a] = g[a]
  <2>1. \A u, v \in [Nat -> Nat] : (\A b \in Nat : u[b] = v[b]) => u = v
    OBVIOUS
  <2>2. QED
    BY <2>1
<1>2. QED
  BY <1>1

LEMMA XorIsDefined ==
  /\ \A a, b \in Nat : Xor[a][b] \in Nat
  /\ \A a, b \in Nat : Xor[a][b] =
       IF a = 0 THEN b ELSE 2 * Xor[a \div 2][b \div 2] + ((a + b) % 2)
<1> DEFINE z == [b \in Nat |-> b]
<1> DEFINE t == [a \in Nat |-> [b \in Nat |-> (a + b) % 2]]
<1> DEFINE R(h) == [a \in Nat |-> [b \in Nat |->
      IF a = 0 THEN b ELSE 2 * h[a \div 2][b \div 2] + ((a + b) % 2)]]
<1>1. z \in [Nat -> Nat] /\ t \in [Nat -> [Nat -> Nat]]
  OBVIOUS
<1>2. ASSUME NEW h, NEW a \in Nat, NEW b \in Nat
      PROVE  R(h)[a][b] = IF a = 0 THEN z[b] ELSE 2 * h[a \div 2][b \div 2] + t[a][b]
  OBVIOUS
<1>3. ASSUME NEW h, \A a, b \in Nat : R(h)[a][b] \in Nat
      PROVE  R(h) \in [Nat -> [Nat -> Nat]]
  BY <1>3
<1> HIDE DEF R, z, t
<1>4. PICK f \in [Nat -> [Nat -> Nat]] : HalvesTo(f, z, t)
  BY <1>1, BitwiseIsDefined
<1>5. f = R(f)
  <2>1. ASSUME NEW a \in Nat, NEW b \in Nat
        PROVE  f[a][b] = R(f)[a][b]
    <3>1. f[a][b] = IF a = 0 THEN z[b] ELSE 2 * f[a \div 2][b \div 2] + t[a][b]
      BY <1>4 DEF HalvesTo
    <3>2. QED
      BY <1>2, <3>1, Zenon
  <2>2. R(f) \in [Nat -> [Nat -> Nat]]
    <3>1. \A a, b \in Nat : R(f)[a][b] \in Nat
      BY <2>1
    <3>2. QED
      BY <1>3, <3>1
  <2>3. QED
    BY <2>1, <2>2, SameFunction
<1>6. Xor = R(Xor)
  <2>1. Xor = CHOOSE h : h = R(h)
    BY DEF Xor, R
  <2>2. QED
    BY <1>5, <2>1
<1>7. HalvesTo(Xor, z, t)
  <2>1. ASSUME NEW a \in Nat, NEW b \in Nat
        PROVE  Xor[a][b] = IF a = 0 THEN z[b] ELSE 2 * Xor[a \div 2][b \div 2] + t[a][b]
    <3>1. R(Xor)[a][b] = IF a = 0 THEN z[b] ELSE 2 * Xor[a \div 2][b \div 2] + t[a][b]
      BY <1>2
    <3>2. Xor[a][b] = R(Xor)[a][b]
      BY <1>6
    <3>3. QED
      BY <3>1, <3>2
  <2>2. QED
    BY <2>1 DEF HalvesTo
<1>8. \A a, b \in Nat : Xor[a][b] \in Nat
  BY <1>1, <1>7, HalvingIsNatural
<1>9. QED
  BY <1>7, <1>8 DEF HalvesTo, z, t

LEMMA OrIsDefined ==
  /\ \A a, b \in Nat : Or[a][b] \in Nat
  /\ \A a, b \in Nat : Or[a][b] =
       IF a = 0 THEN b ELSE 2 * Or[a \div 2][b \div 2] + (IF a % 2 = 1 THEN 1 ELSE b % 2)
<1> DEFINE z == [b \in Nat |-> b]
<1> DEFINE t == [a \in Nat |-> [b \in Nat |-> IF a % 2 = 1 THEN 1 ELSE b % 2]]
<1> DEFINE R(h) == [a \in Nat |-> [b \in Nat |->
      IF a = 0 THEN b ELSE 2 * h[a \div 2][b \div 2] + (IF a % 2 = 1 THEN 1 ELSE b % 2)]]
<1>1. z \in [Nat -> Nat] /\ t \in [Nat -> [Nat -> Nat]]
  OBVIOUS
<1>2. ASSUME NEW h, NEW a \in Nat, NEW b \in Nat
      PROVE  R(h)[a][b] = IF a = 0 THEN z[b] ELSE 2 * h[a \div 2][b \div 2] + t[a][b]
  OBVIOUS
<1>3. ASSUME NEW h, \A a, b \in Nat : R(h)[a][b] \in Nat
      PROVE  R(h) \in [Nat -> [Nat -> Nat]]
  BY <1>3
<1> HIDE DEF R, z, t
<1>4. PICK f \in [Nat -> [Nat -> Nat]] : HalvesTo(f, z, t)
  BY <1>1, BitwiseIsDefined
<1>5. f = R(f)
  <2>1. ASSUME NEW a \in Nat, NEW b \in Nat
        PROVE  f[a][b] = R(f)[a][b]
    <3>1. f[a][b] = IF a = 0 THEN z[b] ELSE 2 * f[a \div 2][b \div 2] + t[a][b]
      BY <1>4 DEF HalvesTo
    <3>2. QED
      BY <1>2, <3>1, Zenon
  <2>2. R(f) \in [Nat -> [Nat -> Nat]]
    <3>1. \A a, b \in Nat : R(f)[a][b] \in Nat
      BY <2>1
    <3>2. QED
      BY <1>3, <3>1
  <2>3. QED
    BY <2>1, <2>2, SameFunction
<1>6. Or = R(Or)
  <2>1. Or = CHOOSE h : h = R(h)
    BY DEF Or, R
  <2>2. QED
    BY <1>5, <2>1
<1>7. HalvesTo(Or, z, t)
  <2>1. ASSUME NEW a \in Nat, NEW b \in Nat
        PROVE  Or[a][b] = IF a = 0 THEN z[b] ELSE 2 * Or[a \div 2][b \div 2] + t[a][b]
    <3>1. R(Or)[a][b] = IF a = 0 THEN z[b] ELSE 2 * Or[a \div 2][b \div 2] + t[a][b]
      BY <1>2
    <3>2. Or[a][b] = R(Or)[a][b]
      BY <1>6
    <3>3. QED
      BY <3>1, <3>2
  <2>2. QED
    BY <2>1 DEF HalvesTo
<1>8. \A a, b \in Nat : Or[a][b] \in Nat
  BY <1>1, <1>7, HalvingIsNatural
<1>9. QED
  BY <1>7, <1>8 DEF HalvesTo, z, t

LEMMA AndIsDefined ==
  /\ \A a, b \in Nat : And[a][b] \in Nat
  /\ \A a, b \in Nat : And[a][b] =
       IF a = 0 THEN 0 ELSE 2 * And[a \div 2][b \div 2] + (a % 2) * (b % 2)
<1> DEFINE z == [b \in Nat |-> 0]
<1> DEFINE t == [a \in Nat |-> [b \in Nat |-> (a % 2) * (b % 2)]]
<1> DEFINE R(h) == [a \in Nat |-> [b \in Nat |->
      IF a = 0 THEN 0 ELSE 2 * h[a \div 2][b \div 2] + (a % 2) * (b % 2)]]
<1>1. z \in [Nat -> Nat] /\ t \in [Nat -> [Nat -> Nat]]
  OBVIOUS
<1>2. ASSUME NEW h, NEW a \in Nat, NEW b \in Nat
      PROVE  R(h)[a][b] = IF a = 0 THEN z[b] ELSE 2 * h[a \div 2][b \div 2] + t[a][b]
  OBVIOUS
<1>3. ASSUME NEW h, \A a, b \in Nat : R(h)[a][b] \in Nat
      PROVE  R(h) \in [Nat -> [Nat -> Nat]]
  BY <1>3
<1> HIDE DEF R, z, t
<1>4. PICK f \in [Nat -> [Nat -> Nat]] : HalvesTo(f, z, t)
  BY <1>1, BitwiseIsDefined
<1>5. f = R(f)
  <2>1. ASSUME NEW a \in Nat, NEW b \in Nat
        PROVE  f[a][b] = R(f)[a][b]
    <3>1. f[a][b] = IF a = 0 THEN z[b] ELSE 2 * f[a \div 2][b \div 2] + t[a][b]
      BY <1>4 DEF HalvesTo
    <3>2. QED
      BY <1>2, <3>1, Zenon
  <2>2. R(f) \in [Nat -> [Nat -> Nat]]
    <3>1. \A a, b \in Nat : R(f)[a][b] \in Nat
      BY <2>1
    <3>2. QED
      BY <1>3, <3>1
  <2>3. QED
    BY <2>1, <2>2, SameFunction
<1>6. And = R(And)
  <2>1. And = CHOOSE h : h = R(h)
    BY DEF And, R
  <2>2. QED
    BY <1>5, <2>1
<1>7. HalvesTo(And, z, t)
  <2>1. ASSUME NEW a \in Nat, NEW b \in Nat
        PROVE  And[a][b] = IF a = 0 THEN z[b] ELSE 2 * And[a \div 2][b \div 2] + t[a][b]
    <3>1. R(And)[a][b] = IF a = 0 THEN z[b] ELSE 2 * And[a \div 2][b \div 2] + t[a][b]
      BY <1>2
    <3>2. And[a][b] = R(And)[a][b]
      BY <1>6
    <3>3. QED
      BY <3>1, <3>2
  <2>2. QED
    BY <2>1 DEF HalvesTo
<1>8. \A a, b \in Nat : And[a][b] \in Nat
  BY <1>1, <1>7, HalvingIsNatural
<1>9. QED
  BY <1>7, <1>8 DEF HalvesTo, z, t

-----------------------------------------------------------------------------
(***************************************************************************)
(* Arithmetic.                                                             *)
(***************************************************************************)
LEMMA HalvesDecide ==
  /\ \A q \in Nat, r \in {0, 1} : (2 * q + r) \div 2 = q /\ (2 * q + r) % 2 = r
  /\ \A a, b \in Nat : a \div 2 = b \div 2 /\ a % 2 = b % 2 => a = b
  /\ \A a, b, c \in Nat : (a + c) % 2 = (b + c) % 2 => a % 2 = b % 2
  /\ \A a, b \in Nat : (a + b) % 2 \in {0, 1} /\ (a + b) % 2 = (b + a) % 2
OBVIOUS

LEMMA Quotient ==
  ASSUME NEW d \in Nat \ {0}, NEW a \in Nat
  PROVE  /\ a \div d \in Nat /\ a % d \in 0 .. (d - 1)
         /\ a = d * (a \div d) + (a % d)
OBVIOUS

LEMMA QuotientIsUnique ==
  ASSUME NEW d \in Nat \ {0}, NEW q \in Int, NEW r \in 0 .. (d - 1)
  PROVE  (d * q + r) \div d = q /\ (d * q + r) % d = r
<1> DEFINE a == d * q + r
<1>1. a \in Int
  OBVIOUS
<1>2. a \div d \in Int /\ a % d \in 0 .. (d - 1) /\ a = d * (a \div d) + (a % d)
  BY <1>1
<1>3. PICK p \in Int, s \in Int : p = a \div d /\ s = a % d
  BY <1>2
<1>4. d * (q - p) = s - r
  BY <1>2, <1>3
<1>5. s - r \in Int /\ q - p \in Int /\ -d < s - r /\ s - r < d
  BY <1>2, <1>3
<1>6. s - r = 0
  BY <1>4, <1>5, SmallMultiple
<1>7. q - p = 0
  BY <1>4, <1>5, <1>6
<1>8. QED
  BY <1>3, <1>6, <1>7

LEMMA QuotientOfQuotient ==
  ASSUME NEW a \in Nat, NEW d \in Nat \ {0}, NEW e \in Nat \ {0}
  PROVE  (a \div d) \div e = a \div (d * e)
<1>1. PICK q \in Nat, r \in 0 .. (d - 1) : q = a \div d /\ a = d * q + r
  BY Quotient
<1>2. PICK p \in Nat, s \in 0 .. (e - 1) : p = q \div e /\ q = e * p + s
  BY Quotient
<1>3. d * e \in Nat \ {0} /\ d * s + r \in Nat
  OBVIOUS
<1>4. d * s + r < d * e
  <2>1. s + 1 <= e
    OBVIOUS
  <2>2. d * (s + 1) <= d * e
    BY <2>1
  <2>3. d * (s + 1) = d * s + d
    OBVIOUS
  <2>4. QED
    BY <2>2, <2>3
<1>5. a = (d * e) * p + (d * s + r)
  <2>1. d * (e * p + s) = (d * e) * p + d * s
    OBVIOUS
  <2>2. a = d * (e * p + s) + r
    BY <1>1, <1>2
  <2>3. d * (e * p + s) \in Int /\ (d * e) * p \in Int /\ d * s \in Int
    OBVIOUS
  <2>4. QED
    BY <2>1, <2>2, <2>3
<1>6. a \div (d * e) = p
  BY <1>3, <1>4, <1>5, QuotientIsUnique
<1>7. QED
  BY <1>1, <1>2, <1>6

LEMMA SmallQuotient ==
  ASSUME NEW d \in Nat \ {0}, NEW a \in Nat, NEW n \in Nat, a < d * n
  PROVE  a \div d < n
<1>1. PICK q \in Nat, r \in 0 .. (d - 1) : q = a \div d /\ a = d * q + r
  BY Quotient
<1>2. SUFFICES ASSUME q >= n
               PROVE  FALSE
  BY <1>1
<1>3. d * q >= d * n
  BY <1>2
<1>4. QED
  BY <1>1, <1>3

LEMMA TwoIsPower ==
  ASSUME NEW n \in Nat
  PROVE  Two[n] \in Nat \ {0} /\ IsPowerOfTwo(Two[n]) /\ Two[n + 1] = 2 * Two[n]
<1> DEFINE S == {k \in Nat : Two[k] \in Nat \ {0} /\ IsPowerOfTwo(Two[k])}
<1>1. 0 \in S
  BY TwoIsDefined, OneIsPower
<1>2. ASSUME NEW k \in Nat, k \in S
      PROVE  k + 1 \in S
  <2>1. Two[k + 1] = 2 * Two[k] /\ Two[k] \in Nat \ {0}
    BY <1>2, TwoIsDefined
  <2>2. IsPowerOfTwo(2 * Two[k])
    BY <1>2, DoublePower
  <2>3. QED
    BY <2>1, <2>2
<1>3. \A k \in Nat : k \in S
  <2> HIDE DEF S
  <2>1. QED
    BY <1>1, <1>2, SetInduction
<1>4. QED
  BY <1>3, TwoIsDefined

-----------------------------------------------------------------------------
(***************************************************************************)
(* Exclusive or: by halves, it can be undone, and it stays in the width.   *)
(***************************************************************************)
LEMMA XorHalves ==
  ASSUME NEW a \in Nat, NEW b \in Nat
  PROVE  /\ Xor[a][b] \in Nat
         /\ Xor[a][b] \div 2 = Xor[a \div 2][b \div 2]
         /\ Xor[a][b] % 2 = (a + b) % 2
<1>1. Xor[a][b] = 2 * Xor[a \div 2][b \div 2] + ((a + b) % 2)
  <2>1. CASE a = 0
    <3>1. Xor[0][b] = b /\ Xor[0][b \div 2] = b \div 2
      BY Halving, XorIsDefined
    <3>2. a \div 2 = 0 /\ (a + b) % 2 = b % 2
      BY <2>1
    <3>3. QED
      BY <2>1, <3>1, <3>2, Halving
  <2>2. QED
    BY <2>1, XorIsDefined
<1>2. Xor[a][b] \in Nat /\ Xor[a \div 2][b \div 2] \in Nat
  BY Halving, XorIsDefined
<1>3. QED
  BY <1>1, <1>2, HalvesDecide

LEMMA XorCancels ==
  ASSUME NEW x \in Nat, NEW y \in Nat, NEW z \in Nat, Xor[x][z] = Xor[y][z]
  PROVE  x = y
<1> DEFINE S == {n \in Nat : \A a, b \in 0 .. n : \A c \in Nat : Xor[a][c] = Xor[b][c] => a = b}
<1>1. ASSUME NEW n \in Nat, \A l \in 0 .. (n - 1) : l \in S
      PROVE  n \in S
  <2>1. CASE n = 0
    BY <2>1
  <2>2. CASE n # 0
    <3>1. SUFFICES ASSUME NEW a \in 0 .. n, NEW b \in 0 .. n, NEW c \in Nat, Xor[a][c] = Xor[b][c]
                   PROVE  a = b
      OBVIOUS
    <3>2. a \div 2 \in 0 .. (n - 1) /\ b \div 2 \in 0 .. (n - 1) /\ c \div 2 \in Nat /\ n - 1 \in S
      BY <1>1, <2>2
    <3>3. Xor[a \div 2][c \div 2] = Xor[b \div 2][c \div 2] /\ (a + c) % 2 = (b + c) % 2
      <4>1. a \in Nat /\ b \in Nat
        OBVIOUS
      <4>2. /\ Xor[a][c] \div 2 = Xor[a \div 2][c \div 2] /\ Xor[a][c] % 2 = (a + c) % 2
            /\ Xor[b][c] \div 2 = Xor[b \div 2][c \div 2] /\ Xor[b][c] % 2 = (b + c) % 2
        BY <4>1, XorHalves
      <4>3. QED
        BY <3>1, <4>2
    <3>4. a \div 2 = b \div 2
      BY <3>2, <3>3
    <3>5. QED
      BY <3>3, <3>4, HalvesDecide
  <2>3. QED
    BY <2>1, <2>2
<1>2. \A n \in Nat : n \in S
  <2> HIDE DEF S
  <2>1. QED
    BY <1>1, StrongSetInduction
<1>3. x + y \in S /\ x \in 0 .. (x + y) /\ y \in 0 .. (x + y)
  BY <1>2
<1>4. QED
  BY <1>3

LEMMA XorCommutes ==
  ASSUME NEW x \in Nat, NEW y \in Nat
  PROVE  Xor[x][y] = Xor[y][x]
<1> DEFINE S == {n \in Nat : \A a, b \in 0 .. n : Xor[a][b] = Xor[b][a]}
<1>1. ASSUME NEW n \in Nat, \A l \in 0 .. (n - 1) : l \in S
      PROVE  n \in S
  <2>1. CASE n = 0
    BY <2>1
  <2>2. CASE n # 0
    <3>1. SUFFICES ASSUME NEW a \in 0 .. n, NEW b \in 0 .. n
                   PROVE  Xor[a][b] = Xor[b][a]
      OBVIOUS
    <3>2. a \div 2 \in 0 .. (n - 1) /\ b \div 2 \in 0 .. (n - 1) /\ n - 1 \in S
      BY <1>1, <2>2
    <3>3. Xor[a \div 2][b \div 2] = Xor[b \div 2][a \div 2]
      BY <3>2
    <3>4. a \in Nat /\ b \in Nat
      OBVIOUS
    <3>5. /\ Xor[a][b] \in Nat /\ Xor[b][a] \in Nat
          /\ Xor[a][b] \div 2 = Xor[b][a] \div 2 /\ Xor[a][b] % 2 = Xor[b][a] % 2
      <4>1. /\ Xor[a][b] \in Nat /\ Xor[a][b] \div 2 = Xor[a \div 2][b \div 2]
            /\ Xor[b][a] \in Nat /\ Xor[b][a] \div 2 = Xor[b \div 2][a \div 2]
            /\ Xor[a][b] % 2 = (a + b) % 2 /\ Xor[b][a] % 2 = (b + a) % 2
        BY <3>4, XorHalves
      <4>2. (a + b) % 2 = (b + a) % 2
        BY <3>4, HalvesDecide
      <4>3. QED
        BY <3>3, <4>1, <4>2
    <3>6. QED
      BY <3>5, HalvesDecide
  <2>3. QED
    BY <2>1, <2>2
<1>2. \A n \in Nat : n \in S
  <2> HIDE DEF S
  <2>1. QED
    BY <1>1, StrongSetInduction
<1>3. x + y \in S /\ x \in 0 .. (x + y) /\ y \in 0 .. (x + y)
  BY <1>2
<1>4. QED
  BY <1>3

LEMMA XorStaysInWidth ==
  ASSUME NEW w \in Nat, NEW x \in 0 .. (Two[w] - 1), NEW y \in 0 .. (Two[w] - 1)
  PROVE  Xor[x][y] \in 0 .. (Two[w] - 1)
<1> DEFINE S == {n \in Nat : \A a, b \in 0 .. (Two[n] - 1) : Xor[a][b] \in 0 .. (Two[n] - 1)}
<1>1. 0 \in S
  <2>1. Two[0] = 1 /\ Xor[0][0] = 0
    BY TwoIsDefined, XorIsDefined
  <2>2. QED
    BY <2>1
<1>2. ASSUME NEW n \in Nat, n \in S
      PROVE  n + 1 \in S
  <2>1. PICK t \in Nat \ {0} : t = Two[n] /\ Two[n + 1] = 2 * t
    BY TwoIsPower
  <2>2. SUFFICES ASSUME NEW a \in 0 .. (2 * t - 1), NEW b \in 0 .. (2 * t - 1)
                 PROVE  Xor[a][b] \in 0 .. (2 * t - 1)
    BY <2>1
  <2>3. a \div 2 \in 0 .. (t - 1) /\ b \div 2 \in 0 .. (t - 1)
    OBVIOUS
  <2>4. Xor[a][b] \in Nat /\ Xor[a][b] \div 2 \in 0 .. (t - 1)
    <3>1. Xor[a][b] \in Nat /\ Xor[a][b] \div 2 = Xor[a \div 2][b \div 2]
      <4>1. a \in Nat /\ b \in Nat
        OBVIOUS
      <4>2. QED
        BY <4>1, XorHalves
    <3>2. Xor[a \div 2][b \div 2] \in 0 .. (t - 1)
      BY <1>2, <2>1, <2>3
    <3>3. QED
      BY <3>1, <3>2
  <2>5. QED
    BY <2>4
<1>3. \A n \in Nat : n \in S
  <2> HIDE DEF S
  <2>1. QED
    BY <1>1, <1>2, SetInduction
<1>4. QED
  BY <1>3

(* Dividing by two numbers, in either order. *)
LEMMA QuotientsSwap ==
  ASSUME NEW a \in Nat, NEW d \in Nat \ {0}, NEW e \in Nat \ {0}
  PROVE  (a \div d) \div e = (a \div e) \div d
<1>1. (a \div d) \div e = a \div (d * e)
  BY QuotientOfQuotient
<1>2. (a \div e) \div d = a \div (e * d)
  BY QuotientOfQuotient
<1>3. d * e = e * d
  OBVIOUS
<1>4. QED
  BY <1>1, <1>2, <1>3

(* A number xor its own half, quarter and so on: the highest bits tell the lower ones. *)
LEMMA XorShiftCancels ==
  ASSUME NEW e \in Nat \ {0}, NEW x \in Nat, NEW y \in Nat,
         Xor[x][x \div (2 * e)] = Xor[y][y \div (2 * e)]
  PROVE  x = y
<1> DEFINE d == 2 * e
<1> DEFINE f(a) == Xor[a][a \div d]
<1> DEFINE S == {n \in Nat : \A a, b \in 0 .. n : f(a) = f(b) => a = b}
<1>1. d \in Nat \ {0}
  OBVIOUS
<1>2. ASSUME NEW a \in Nat
      PROVE  /\ a \div d \in Nat /\ a \div d = (a \div 2) \div e
             /\ f(a) \div 2 = f(a \div 2)
             /\ f(a) % 2 = (a + (a \div d)) % 2
  <2>1. a \div d \in Nat /\ a \div 2 \in Nat
    BY <1>1, Quotient, Halving
  <2>2. a \div d = (a \div 2) \div e
    <3>1. 2 \in Nat \ {0}
      OBVIOUS
    <3>2. (a \div 2) \div e = a \div (2 * e)
      BY <3>1, QuotientOfQuotient
    <3>3. QED
      BY <3>2
  <2> HIDE DEF d
  <2>3. (a \div d) \div 2 = (a \div 2) \div d
    <3>1. 2 \in Nat \ {0}
      OBVIOUS
    <3>2. QED
      BY <1>1, <3>1, QuotientsSwap
  <2>4. /\ Xor[a][a \div d] \div 2 = Xor[a \div 2][(a \div d) \div 2]
        /\ Xor[a][a \div d] % 2 = (a + (a \div d)) % 2
    BY <2>1, XorHalves
  <2>5. QED
    BY <2>1, <2>2, <2>3, <2>4
<1> HIDE DEF f, d
<1>3. ASSUME NEW n \in Nat, \A l \in 0 .. (n - 1) : l \in S
      PROVE  n \in S
  <2>1. CASE n = 0
    BY <2>1
  <2>2. CASE n # 0
    <3>1. SUFFICES ASSUME NEW a \in 0 .. n, NEW b \in 0 .. n, f(a) = f(b)
                   PROVE  a = b
      OBVIOUS
    <3>2. a \div 2 \in 0 .. (n - 1) /\ b \div 2 \in 0 .. (n - 1) /\ n - 1 \in S
      BY <1>3, <2>2
    <3>3. a \in Nat /\ b \in Nat
      OBVIOUS
    <3>4. f(a \div 2) = f(b \div 2) /\ (a + (a \div d)) % 2 = (b + (b \div d)) % 2
      BY <1>2, <3>1, <3>3
    <3>5. a \div 2 = b \div 2
      BY <3>2, <3>4
    <3>6. a \div d = b \div d /\ a \div d \in Nat
      <4>1. a \div d \in Nat /\ a \div d = (a \div 2) \div e
        BY <1>2, <3>3
      <4>2. b \div d = (b \div 2) \div e
        BY <1>2, <3>3
      <4>3. QED
        BY <4>1, <4>2, <3>5
    <3>7. a % 2 = b % 2
      BY <3>3, <3>4, <3>6, HalvesDecide
    <3>8. QED
      BY <3>3, <3>5, <3>7, HalvesDecide
  <2>3. QED
    BY <2>1, <2>2
<1>4. \A n \in Nat : n \in S
  <2> HIDE DEF S
  <2>1. QED
    BY <1>3, StrongSetInduction
<1>5. x + y \in S /\ x \in 0 .. (x + y) /\ y \in 0 .. (x + y)
  BY <1>4
<1>6. f(x) = f(y)
  BY DEF f, d
<1>7. QED
  BY <1>5, <1>6

(* The last bits of a number are those of its half, and its own last one. *)
LEMMA LastBits ==
  ASSUME NEW a \in Nat, NEW t \in Nat \ {0}
  PROVE  a % (2 * t) = 2 * ((a \div 2) % t) + (a % 2)
<1>1. PICK h \in Nat, b \in {0, 1} : h = a \div 2 /\ b = a % 2 /\ a = 2 * h + b
  BY Halving
<1>2. PICK q \in Nat, r \in 0 .. (t - 1) : r = h % t /\ h = t * q + r
  BY Quotient
<1>3. 2 * t \in Nat \ {0} /\ 2 * r + b \in 0 .. (2 * t - 1)
  OBVIOUS
<1>4. a = (2 * t) * q + (2 * r + b)
  BY <1>1, <1>2
<1>5. a % (2 * t) = 2 * r + b
  BY <1>3, <1>4, QuotientIsUnique
<1>6. QED
  BY <1>1, <1>2, <1>5

LEMMA LastBitsDecide ==
  ASSUME NEW t \in Nat \ {0}
  PROVE  \A a, b \in Nat :
           a % (2 * t) = b % (2 * t) <=> a % 2 = b % 2 /\ (a \div 2) % t = (b \div 2) % t
<1> SUFFICES ASSUME NEW a \in Nat, NEW b \in Nat
             PROVE  a % (2 * t) = b % (2 * t) <=> a % 2 = b % 2 /\ (a \div 2) % t = (b \div 2) % t
  OBVIOUS
<1>1. /\ a \div 2 \in Nat /\ b \div 2 \in Nat /\ a % 2 \in {0, 1} /\ b % 2 \in {0, 1}
  BY Halving
<1>2. (a \div 2) % t \in Nat /\ (b \div 2) % t \in Nat
  BY <1>1, Quotient
<1>3. /\ a % (2 * t) = 2 * ((a \div 2) % t) + (a % 2)
      /\ b % (2 * t) = 2 * ((b \div 2) % t) + (b % 2)
  BY LastBits
<1>4. QED
  BY <1>1, <1>2, <1>3

(* What agrees in the last bits after an exclusive or has agreed before. *)
LEMMA XorAgrees ==
  ASSUME NEW w \in Nat, NEW x \in Nat, NEW y \in Nat, NEW u \in Nat, NEW v \in Nat,
         u % Two[w] = v % Two[w], Xor[x][u] % Two[w] = Xor[y][v] % Two[w]
  PROVE  x % Two[w] = y % Two[w]
<1> DEFINE S == {n \in Nat : \A a, b, c, d \in Nat :
      c % Two[n] = d % Two[n] /\ Xor[a][c] % Two[n] = Xor[b][d] % Two[n] => a % Two[n] = b % Two[n]}
<1>1. 0 \in S
  <2>1. \A a \in Nat : a % 1 = 0
    OBVIOUS
  <2>2. QED
    BY <2>1, TwoIsDefined
<1>2. ASSUME NEW n \in Nat, n \in S
      PROVE  n + 1 \in S
  <2>1. PICK t \in Nat \ {0} : t = Two[n] /\ Two[n + 1] = 2 * t
    BY TwoIsPower
  <2>2. SUFFICES ASSUME NEW a \in Nat, NEW b \in Nat, NEW c \in Nat, NEW d \in Nat,
                        c % (2 * t) = d % (2 * t),
                        Xor[a][c] % (2 * t) = Xor[b][d] % (2 * t)
                 PROVE  a % (2 * t) = b % (2 * t)
    BY <2>1
  <2> DEFINE Same(i, j) == i % (2 * t) = j % (2 * t)
  <2>3. \A i, j \in Nat : Same(i, j) <=> i % 2 = j % 2 /\ (i \div 2) % t = (j \div 2) % t
    BY LastBitsDecide
  <2>4. Same(c, d) /\ Same(Xor[a][c], Xor[b][d])
    BY <2>2
  <2> HIDE DEF Same
  <2>5. /\ Xor[a][c] \in Nat /\ Xor[a][c] \div 2 = Xor[a \div 2][c \div 2]
        /\ Xor[a][c] % 2 = (a + c) % 2
    BY XorHalves
  <2>6. /\ Xor[b][d] \in Nat /\ Xor[b][d] \div 2 = Xor[b \div 2][d \div 2]
        /\ Xor[b][d] % 2 = (b + d) % 2
    BY XorHalves
  <2>7. c % 2 = d % 2 /\ (c \div 2) % t = (d \div 2) % t
    BY <2>3, <2>4
  <2>8. /\ (a + c) % 2 = (b + d) % 2
        /\ Xor[a \div 2][c \div 2] % t = Xor[b \div 2][d \div 2] % t
    <3>1. /\ Xor[a][c] % 2 = Xor[b][d] % 2
          /\ (Xor[a][c] \div 2) % t = (Xor[b][d] \div 2) % t
      BY <2>3, <2>4, <2>5, <2>6
    <3>2. QED
      BY <2>5, <2>6, <3>1
  <2>9. a % 2 = b % 2
    <3>1. (b + d) % 2 = (b + c) % 2
      BY <2>7
    <3>2. (a + c) % 2 = (b + c) % 2
      BY <2>8, <3>1
    <3>3. QED
      BY <3>2, HalvesDecide
  <2>10. (a \div 2) % t = (b \div 2) % t
    <3>1. a \div 2 \in Nat /\ b \div 2 \in Nat /\ c \div 2 \in Nat /\ d \div 2 \in Nat
      BY Halving
    <3>2. PICK i \in Nat, j \in Nat, k \in Nat, l \in Nat :
            i = a \div 2 /\ j = b \div 2 /\ k = c \div 2 /\ l = d \div 2
      BY <3>1
    <3>3. k % t = l % t /\ Xor[i][k] % t = Xor[j][l] % t
      BY <2>7, <2>8, <3>2
    <3>4. i % t = j % t
      BY <1>2, <2>1, <3>3
    <3>5. QED
      BY <3>2, <3>4
  <2>11. Same(a, b)
    BY <2>3, <2>9, <2>10
  <2>12. QED
    BY <2>11 DEF Same
<1>3. \A n \in Nat : n \in S
  <2> HIDE DEF S
  <2>1. QED
    BY <1>1, <1>2, SetInduction
<1>4. QED
  BY <1>3


(* The powers grow. *)
LEMMA TwoGrows ==
  ASSUME NEW n \in Nat, NEW k \in 0 .. n
  PROVE  Two[k] <= Two[n]
<1> DEFINE S == {l \in Nat : Two[k] <= Two[k + l]}
<1>1. 0 \in S
  BY TwoIsPower
<1>2. ASSUME NEW l \in Nat, l \in S
      PROVE  l + 1 \in S
  <2>1. k \in Nat /\ k + l \in Nat /\ (k + l) + 1 = k + (l + 1)
    OBVIOUS
  <2>2. /\ Two[k] \in Nat /\ Two[k + l] \in Nat /\ Two[(k + l) + 1] = 2 * Two[k + l]
    BY <2>1, TwoIsPower
  <2>3. QED
    BY <1>2, <2>1, <2>2
<1>3. \A l \in Nat : l \in S
  <2> HIDE DEF S
  <2>1. QED
    BY <1>1, <1>2, SetInduction
<1>4. n - k \in S /\ k + (n - k) = n
  BY <1>3
<1>5. QED
  BY <1>4

LEMMA TwoOfSum ==
  ASSUME NEW a \in Nat, NEW b \in Nat
  PROVE  Two[a + b] = Two[a] * Two[b]
<1> DEFINE S == {l \in Nat : Two[a + l] = Two[a] * Two[l]}
<1>1. 0 \in S
  <2>1. Two[0] = 1 /\ Two[a] \in Nat
    BY TwoIsDefined, TwoIsPower
  <2>2. QED
    BY <2>1
<1>2. ASSUME NEW l \in Nat, l \in S
      PROVE  l + 1 \in S
  <2>1. PICK p \in Nat : p = Two[a]
    BY TwoIsPower
  <2>2. PICK q \in Nat : q = Two[l] /\ Two[l + 1] = 2 * q
    BY TwoIsPower
  <2>3. a + l \in Nat /\ (a + l) + 1 = a + (l + 1)
    OBVIOUS
  <2>4. Two[a + (l + 1)] = 2 * Two[a + l]
    BY <2>3, TwoIsPower
  <2>5. Two[a + l] = p * q
    BY <1>2, <2>1, <2>2
  <2>6. 2 * (p * q) = p * (2 * q)
    OBVIOUS
  <2>7. Two[a + (l + 1)] = Two[a] * Two[l + 1]
    BY <2>1, <2>2, <2>4, <2>5, <2>6
  <2>8. QED
    BY <2>7
<1>3. \A l \in Nat : l \in S
  <2> HIDE DEF S
  <2>1. QED
    BY <1>1, <1>2, SetInduction
<1>4. QED
  BY <1>3

LEMMA XorAssociates ==
  ASSUME NEW x \in Nat, NEW y \in Nat, NEW z \in Nat
  PROVE  Xor[Xor[x][y]][z] = Xor[x][Xor[y][z]]
<1> DEFINE f(a, b, c) == Xor[Xor[a][b]][c]
<1> DEFINE g(a, b, c) == Xor[a][Xor[b][c]]
<1> DEFINE S == {n \in Nat : \A a, b, c \in 0 .. n : f(a, b, c) = g(a, b, c)}
<1>1. ASSUME NEW a \in Nat, NEW b \in Nat, NEW c \in Nat
      PROVE  /\ f(a, b, c) \in Nat /\ g(a, b, c) \in Nat
             /\ f(a, b, c) \div 2 = f(a \div 2, b \div 2, c \div 2)
             /\ g(a, b, c) \div 2 = g(a \div 2, b \div 2, c \div 2)
             /\ f(a, b, c) % 2 = g(a, b, c) % 2
  <2>1. PICK p \in Nat : /\ p = Xor[a][b] /\ p \div 2 = Xor[a \div 2][b \div 2]
                         /\ p % 2 = (a + b) % 2
    BY XorHalves
  <2>2. PICK q \in Nat : /\ q = Xor[b][c] /\ q \div 2 = Xor[b \div 2][c \div 2]
                         /\ q % 2 = (b + c) % 2
    BY XorHalves
  <2>3. /\ Xor[p][c] \in Nat /\ Xor[p][c] \div 2 = Xor[p \div 2][c \div 2]
        /\ Xor[p][c] % 2 = (p + c) % 2
    BY XorHalves
  <2>4. /\ Xor[a][q] \in Nat /\ Xor[a][q] \div 2 = Xor[a \div 2][q \div 2]
        /\ Xor[a][q] % 2 = (a + q) % 2
    BY XorHalves
  <2>5. (p + c) % 2 = (a + q) % 2
    <3>1. p % 2 = (a + b) % 2 /\ q % 2 = (b + c) % 2
      BY <2>1, <2>2
    <3>2. QED
      BY <3>1
  <2>6. QED
    BY <2>1, <2>2, <2>3, <2>4, <2>5
<1> HIDE DEF f, g
<1>2. ASSUME NEW n \in Nat, \A l \in 0 .. (n - 1) : l \in S
      PROVE  n \in S
  <2>1. CASE n = 0
    <3>1. f(0, 0, 0) = g(0, 0, 0)
      BY XorIsDefined DEF f, g
    <3>2. \A a \in 0 .. n : a = 0
      BY <2>1
    <3>3. QED
      BY <3>1, <3>2
  <2>2. CASE n # 0
    <3>1. SUFFICES ASSUME NEW a \in 0 .. n, NEW b \in 0 .. n, NEW c \in 0 .. n
                   PROVE  f(a, b, c) = g(a, b, c)
      OBVIOUS
    <3>2. /\ a \div 2 \in 0 .. (n - 1) /\ b \div 2 \in 0 .. (n - 1) /\ c \div 2 \in 0 .. (n - 1)
          /\ n - 1 \in S
      BY <1>2, <2>2
    <3>3. f(a \div 2, b \div 2, c \div 2) = g(a \div 2, b \div 2, c \div 2)
      BY <3>2
    <3>4. a \in Nat /\ b \in Nat /\ c \in Nat
      OBVIOUS
    <3>5. /\ f(a, b, c) \in Nat /\ g(a, b, c) \in Nat
          /\ f(a, b, c) \div 2 = g(a, b, c) \div 2
          /\ f(a, b, c) % 2 = g(a, b, c) % 2
      <4>1. /\ f(a, b, c) \in Nat /\ g(a, b, c) \in Nat
            /\ f(a, b, c) \div 2 = f(a \div 2, b \div 2, c \div 2)
            /\ g(a, b, c) \div 2 = g(a \div 2, b \div 2, c \div 2)
            /\ f(a, b, c) % 2 = g(a, b, c) % 2
        BY <1>1, <3>4
      <4>2. QED
        BY <3>3, <4>1
    <3>6. QED
      BY <3>5, HalvesDecide
  <2>3. QED
    BY <2>1, <2>2
<1>3. \A n \in Nat : n \in S
  <2> HIDE DEF S
  <2>1. QED
    BY <1>2, StrongSetInduction
<1>4. /\ x + y + z \in S
      /\ x \in 0 .. (x + y + z) /\ y \in 0 .. (x + y + z) /\ z \in 0 .. (x + y + z)
  BY <1>3
<1>5. f(x, y, z) = g(x, y, z)
  BY <1>4
<1>6. QED
  BY <1>5 DEF f, g

-----------------------------------------------------------------------------
(* The halves of a bitwise or, and its bounds. *)
LEMMA OrHalves ==
  ASSUME NEW a \in Nat, NEW b \in Nat
  PROVE  /\ Or[a][b] \in Nat
         /\ Or[a][b] = 2 * Or[a \div 2][b \div 2] + (IF a % 2 = 1 THEN 1 ELSE b % 2)
         /\ Or[a \div 2][b \div 2] \in Nat
<1>1. a \div 2 \in Nat /\ b \div 2 \in Nat /\ b % 2 \in {0, 1}
  BY Halving
<1>2. Or[a][b] \in Nat /\ Or[a \div 2][b \div 2] \in Nat
  BY <1>1, OrIsDefined
<1>3. CASE a = 0
  <2>1. a \div 2 = 0 /\ a % 2 # 1
    BY <1>3
  <2>2. Or[a][b] = b /\ Or[a \div 2][b \div 2] = b \div 2
    BY <1>1, <1>3, <2>1, OrIsDefined
  <2>3. b = 2 * (b \div 2) + (b % 2)
    BY Halving
  <2>4. QED
    BY <1>2, <2>1, <2>2, <2>3
<1>4. CASE a # 0
  BY <1>2, <1>4, OrIsDefined
<1>5. QED
  BY <1>3, <1>4

LEMMA OrWithNothing ==
  ASSUME NEW a \in Nat
  PROVE  Or[a][0] = a
<1> DEFINE S == {n \in Nat : Or[n][0] = n}
<1>1. ASSUME NEW n \in Nat, \A l \in 0 .. (n - 1) : l \in S
      PROVE  n \in S
  <2>1. CASE n = 0
    BY <2>1, OrIsDefined
  <2>2. CASE n # 0
    <3>1. n \div 2 \in S /\ n \div 2 \in Nat
      BY <1>1, <2>2, Halving
    <3>2. Or[n][0] = 2 * Or[n \div 2][0 \div 2] + (IF n % 2 = 1 THEN 1 ELSE 0 % 2)
      BY OrHalves
    <3>3. 0 \div 2 = 0 /\ 0 % 2 = 0
      OBVIOUS
    <3>4. n % 2 \in {0, 1} /\ n = 2 * (n \div 2) + (n % 2)
      BY Halving
    <3>5. Or[n][0] = 2 * (n \div 2) + (IF n % 2 = 1 THEN 1 ELSE 0)
      BY <3>1, <3>2, <3>3
    <3>6. QED
      BY <3>4, <3>5
  <2>3. QED
    BY <2>1, <2>2
<1>2. \A n \in Nat : n \in S
  <2> HIDE DEF S
  <2>1. QED
    BY <1>1, StrongSetInduction
<1>3. QED
  BY <1>2

LEMMA OrStaysInWidth ==
  ASSUME NEW w \in Nat, NEW a \in 0 .. (Two[w] - 1), NEW b \in 0 .. (Two[w] - 1)
  PROVE  Or[a][b] \in 0 .. (Two[w] - 1)
<1> DEFINE S == {n \in Nat : \A i, j \in 0 .. (Two[n] - 1) : Or[i][j] \in 0 .. (Two[n] - 1)}
<1>1. 0 \in S
  <2>1. Two[0] = 1 /\ Or[0][0] = 0
    BY TwoIsDefined, OrIsDefined
  <2>2. QED
    BY <2>1
<1>2. ASSUME NEW n \in Nat, n \in S
      PROVE  n + 1 \in S
  <2>1. PICK t \in Nat \ {0} : t = Two[n] /\ Two[n + 1] = 2 * t
    BY TwoIsPower
  <2>2. ASSUME NEW i \in 0 .. (2 * t - 1), NEW j \in 0 .. (2 * t - 1)
        PROVE  Or[i][j] \in 0 .. (2 * t - 1)
    <3>1. /\ i \in Nat /\ j \in Nat
          /\ i \div 2 \in 0 .. (t - 1) /\ j \div 2 \in 0 .. (t - 1) /\ j % 2 \in {0, 1}
      OBVIOUS
    <3>2. Or[i \div 2][j \div 2] \in 0 .. (t - 1)
      BY <1>2, <2>1, <3>1
    <3>3. Or[i][j] = 2 * Or[i \div 2][j \div 2] + (IF i % 2 = 1 THEN 1 ELSE j % 2)
      BY <3>1, OrHalves
    <3>4. QED
      BY <3>1, <3>2, <3>3
  <2>3. QED
    BY <2>1, <2>2
<1>3. \A n \in Nat : n \in S
  <2> HIDE DEF S
  <2>1. QED
    BY <1>1, <1>2, SetInduction
<1>4. QED
  BY <1>3

(* An or keeps the high bits of one operand and sets the low bits of the other. *)
LEMMA OrSetsLowBits ==
  ASSUME NEW k \in Nat, NEW a \in Nat, NEW b \in 0 .. (Two[k] - 1)
  PROVE  Or[a][b] >= Two[k] * (a \div Two[k]) + b
<1> DEFINE S == {n \in Nat : \A i \in Nat : \A j \in 0 .. (Two[n] - 1) :
                    Or[i][j] >= Two[n] * (i \div Two[n]) + j}
<1>1. 0 \in S
  <2>1. ASSUME NEW i \in Nat, NEW j \in 0 .. (Two[0] - 1)
        PROVE  Or[i][j] >= Two[0] * (i \div Two[0]) + j
    <3>1. Two[0] = 1 /\ j = 0
      BY TwoIsDefined
    <3>2. Or[i][j] = i
      BY <3>1, OrWithNothing
    <3>3. 1 * (i \div 1) + 0 = i
      OBVIOUS
    <3>4. QED
      BY <3>1, <3>2, <3>3
  <2>2. QED
    BY <2>1
<1>2. ASSUME NEW n \in Nat, n \in S
      PROVE  n + 1 \in S
  <2>1. PICK t \in Nat \ {0} : t = Two[n] /\ Two[n + 1] = 2 * t
    BY TwoIsPower
  <2>2. ASSUME NEW i \in Nat, NEW j \in 0 .. (2 * t - 1)
        PROVE  Or[i][j] >= (2 * t) * (i \div (2 * t)) + j
    <3>1. PICK h \in Nat, g \in 0 .. (t - 1) : h = i \div 2 /\ g = j \div 2
      BY Halving
    <3>2. j \in Nat /\ j % 2 \in {0, 1} /\ j = 2 * g + (j % 2)
      BY <3>1
    <3>3. PICK o \in Nat : /\ o = Or[h][g]
                           /\ Or[i][j] = 2 * o + (IF i % 2 = 1 THEN 1 ELSE j % 2)
      <4>1. /\ Or[i][j] = 2 * Or[i \div 2][j \div 2] + (IF i % 2 = 1 THEN 1 ELSE j % 2)
            /\ Or[i \div 2][j \div 2] \in Nat
        BY <3>2, OrHalves
      <4>2. QED
        BY <3>1, <4>1
    <3>4. o >= t * (h \div t) + g
      BY <1>2, <2>1, <3>3
    <3>5. PICK q \in Nat : q = h \div t
      BY Quotient
    <3>6. i \div (2 * t) = q
      BY <3>1, <3>5, QuotientOfQuotient
    <3>7. PICK p \in Nat : p = t * q
      OBVIOUS
    <3>8. (2 * t) * q = 2 * p
      BY <3>7
    <3>9. Or[i][j] >= 2 * o + (j % 2)
      BY <3>2, <3>3
    <3>10. Or[i][j] \in Nat
      BY <3>2, OrHalves
    <3>11. o >= p + g
      BY <3>4, <3>5, <3>7
    <3>12. PICK r \in {0, 1} : r = j % 2
      BY <3>2
    <3>13. Or[i][j] >= 2 * p + j
      BY <3>2, <3>9, <3>10, <3>11, <3>12
    <3>14. QED
      BY <3>6, <3>8, <3>13
  <2>3. QED
    BY <2>1, <2>2
<1>3. \A n \in Nat : n \in S
  <2> HIDE DEF S
  <2>1. QED
    BY <1>1, <1>2, SetInduction
<1>4. QED
  BY <1>3

(* A number and its predecessor have no bit in common when the number is a power of two. *)
LEMMA AndItself ==
  ASSUME NEW a \in Nat
  PROVE  And[a][a] = a
<1> DEFINE S == {n \in Nat : And[n][n] = n}
<1>1. ASSUME NEW n \in Nat, \A l \in 0 .. (n - 1) : l \in S
      PROVE  n \in S
  <2>1. CASE n = 0
    BY <2>1, AndIsDefined
  <2>2. CASE n # 0
    <3>1. n \div 2 \in S /\ n \div 2 \in Nat
      BY <1>1, <2>2, Halving
    <3>2. And[n][n] = 2 * And[n \div 2][n \div 2] + (n % 2) * (n % 2)
      BY <2>2, AndIsDefined
    <3>3. n % 2 \in {0, 1} /\ n = 2 * (n \div 2) + (n % 2)
      BY Halving
    <3>4. (n % 2) * (n % 2) = n % 2
      BY <3>3
    <3>5. QED
      BY <3>1, <3>2, <3>3, <3>4
  <2>3. QED
    BY <2>1, <2>2
<1>2. \A n \in Nat : n \in S
  <2> HIDE DEF S
  <2>1. QED
    BY <1>1, StrongSetInduction
<1>3. QED
  BY <1>2

LEMMA PowersShareNoBit ==
  ASSUME NEW a \in Nat \ {0}
  PROVE  And[a][a - 1] = 0 <=> IsPowerOfTwo(a)
<1> DEFINE S == {n \in Nat : n # 0 => (And[n][n - 1] = 0 <=> IsPowerOfTwo(n))}
<1>1. ASSUME NEW n \in Nat, \A l \in 0 .. (n - 1) : l \in S, n # 0
      PROVE  And[n][n - 1] = 0 <=> IsPowerOfTwo(n)
  <2>1. PICK h \in Nat, r \in {0, 1} : h = n \div 2 /\ r = n % 2 /\ n = 2 * h + r
    BY Halving
  <2>2. And[n][n - 1] = 2 * And[h][(n - 1) \div 2] + r * ((n - 1) % 2)
    <3>1. n - 1 \in Nat
      BY <1>1
    <3>2. QED
      BY <1>1, <2>1, <3>1, AndIsDefined
  <2>3. CASE n = 1
    <3>1. h = 0 /\ (n - 1) \div 2 = 0 /\ (n - 1) % 2 = 0 /\ r = 1
      BY <2>1, <2>3
    <3>2. And[0][0] = 0
      BY AndIsDefined
    <3>3. And[n][n - 1] = 0
      BY <2>2, <3>1, <3>2
    <3>4. QED
      BY <2>3, <3>3, OneIsPower
  <2>4. CASE n # 1 /\ r = 0
    <3>1. h # 0 /\ h \in 0 .. (n - 1) /\ h - 1 \in Nat
      BY <1>1, <2>1, <2>4
    <3>2. n - 1 = 2 * (h - 1) + 1
      BY <2>1, <2>4
    <3>3. (n - 1) \div 2 = h - 1
      BY <3>1, <3>2, HalvesDecide
    <3>4. And[n][n - 1] = 2 * And[h][h - 1]
      <4>1. And[h][h - 1] \in Nat /\ (n - 1) % 2 \in {0, 1}
        BY <3>1, <3>2, AndIsDefined
      <4>2. QED
        BY <2>2, <2>4, <3>3, <4>1
    <3>5. And[h][h - 1] = 0 <=> IsPowerOfTwo(h)
      BY <1>1, <3>1
    <3>6. And[h][h - 1] \in Nat
      BY <3>1, AndIsDefined
    <3>7. IsPowerOfTwo(h) => IsPowerOfTwo(n)
      <4>1. n = 2 * h
        BY <2>1, <2>4
      <4>2. QED
        BY <4>1, DoublePower
    <3>8. IsPowerOfTwo(n) => IsPowerOfTwo(h)
      <4>1. n > 1
        BY <1>1, <2>4
      <4>2. QED
        BY <2>1, <4>1, HalfPower
    <3>9. QED
      BY <3>4, <3>5, <3>6, <3>7, <3>8
  <2>5. CASE n # 1 /\ r = 1
    <3>1. h # 0 /\ n - 1 = 2 * h + 0 /\ n > 1
      BY <1>1, <2>1, <2>5
    <3>2. (n - 1) \div 2 = h /\ (n - 1) % 2 = 0
      BY <3>1, HalvesDecide
    <3>3. And[h][h] = h
      BY AndItself
    <3>4. And[n][n - 1] # 0
      BY <2>2, <3>1, <3>2, <3>3
    <3>5. ~IsPowerOfTwo(n)
      <4>1. n # 2 * (n \div 2)
        BY <2>1, <2>5
      <4>2. QED
        BY <3>1, <4>1, HalfPower
    <3>6. QED
      BY <3>4, <3>5
  <2>6. QED
    BY <2>1, <2>3, <2>4, <2>5
<1>2. \A n \in Nat : n \in S
  <2>1. ASSUME NEW n \in Nat, \A l \in 0 .. (n - 1) : l \in S
        PROVE  n \in S
    BY <1>1, <2>1
  <2> HIDE DEF S
  <2>2. QED
    BY <2>1, StrongSetInduction
<1>3. QED
  BY <1>2

(* Every number lies between two powers of two that follow one another. *)
LEMMA BetweenPowers ==
  ASSUME NEW a \in Nat \ {0}
  PROVE  \E e \in Nat : Two[e] <= a /\ a < Two[e + 1]
<1> DEFINE S == {n \in Nat : \E e \in Nat : Two[e] <= n + 1 /\ n + 1 < Two[e + 1]}
<1>1. 0 \in S
  <2>1. Two[0] = 1 /\ Two[0 + 1] = 2
    BY TwoIsDefined
  <2>2. QED
    BY <2>1
<1>2. ASSUME NEW n \in Nat, n \in S
      PROVE  n + 1 \in S
  <2>1. PICK e \in Nat : Two[e] <= n + 1 /\ n + 1 < Two[e + 1]
    BY <1>2
  <2>2. /\ Two[e] \in Nat \ {0} /\ Two[e + 1] = 2 * Two[e]
        /\ Two[(e + 1) + 1] = 2 * Two[e + 1]
    BY TwoIsPower
  <2>3. CASE (n + 1) + 1 < Two[e + 1]
    BY <2>1, <2>2, <2>3
  <2>4. CASE (n + 1) + 1 >= Two[e + 1]
    <3>1. Two[e + 1] <= (n + 1) + 1 /\ (n + 1) + 1 < Two[(e + 1) + 1] /\ e + 1 \in Nat
      BY <2>1, <2>2, <2>4
    <3>2. QED
      BY <3>1
  <2>5. QED
    BY <2>2, <2>3, <2>4
<1>3. \A n \in Nat : n \in S
  <2> HIDE DEF S
  <2>1. QED
    BY <1>1, <1>2, SetInduction
<1>4. a - 1 \in S /\ (a - 1) + 1 = a
  BY <1>3
<1>5. QED
  BY <1>4

LEMMA OnePowerInDouble ==
  ASSUME NEW a \in Nat, NEW p \in Nat, NEW q \in Nat, IsPowerOfTwo(p), IsPowerOfTwo(q),
         a <= p, p < 2 * a, a <= q, q < 2 * a
  PROVE  p = q
<1>1. ASSUME NEW c \in Nat, NEW d \in Nat, IsPowerOfTwo(c), IsPowerOfTwo(d), c <= d, a <= c, d < 2 * a
      PROVE  c = d
  <2>1. PICK k \in Nat \ {0} : d = c * k
    BY <1>1, PowerDivides
  <2>2. CASE k = 1
    BY <2>1, <2>2
  <2>3. CASE k >= 2
    <3>1. c * k >= c * 2
      BY <2>3
    <3>2. QED
      BY <1>1, <2>1, <3>1
  <2>4. QED
    BY <2>2, <2>3
<1>2. CASE p <= q
  BY <1>1, <1>2
<1>3. CASE q <= p
  BY <1>1, <1>3
<1>4. QED
  BY <1>2, <1>3

(***************************************************************************)
(* One folding: when the highest bits, as many as the shift is long, are   *)
(* ones, the or with the shifted number makes ones of as many more.        *)
(***************************************************************************)
LEMMA FoldingSetsBits ==
  ASSUME NEW e \in Nat, NEW k \in Nat, NEW y \in 0 .. (Two[e] - 1),
         ((Two[e] - 1) - y) * Two[k] < Two[e]
  PROVE  /\ Or[y][y \div Two[k]] \in 0 .. (Two[e] - 1)
         /\ ((Two[e] - 1) - Or[y][y \div Two[k]]) * Two[k + k] < Two[e]
<1>1. PICK N \in Nat \ {0} : N = Two[e]
  BY TwoIsPower
<1>2. PICK K \in Nat \ {0} : K = Two[k]
  BY TwoIsPower
<1>3. PICK z \in Nat : z = (N - 1) - y
  BY <1>1
<1>4. y \in Nat /\ y < N /\ z * K < N /\ y = (N - 1) - z
  BY <1>1, <1>2, <1>3
<1>5. Two[k + k] = K * K
  BY <1>2, TwoOfSum
<1>6. y \div K \in 0 .. (N - 1)
  <2>1. PICK w \in Nat, r \in 0 .. (K - 1) : w = y \div K /\ y = K * w + r
    <3>1. /\ y \div K \in Nat /\ y % K \in 0 .. (K - 1)
          /\ y = K * (y \div K) + (y % K)
      BY <1>4, Quotient
    <3>2. QED
      BY <3>1
  <2>2. K * w >= w
    OBVIOUS
  <2>3. QED
    BY <1>4, <2>1, <2>2
<1>7. PICK o \in 0 .. (N - 1) : o = Or[y][y \div K]
  BY <1>1, <1>6, OrStaysInWidth
<1>8. ((N - 1) - o) * (K * K) < N
  <2>1. CASE k >= e
    <3>1. K >= N
      BY <1>1, <1>2, <2>1, TwoGrows
    <3>2. z = 0
      <4>1. SUFFICES ASSUME z >= 1
                     PROVE  FALSE
        OBVIOUS
      <4>2. z * K >= K
        BY <4>1
      <4>3. QED
        BY <1>4, <3>1, <4>2
    <3>3. y \div K = 0
      <4>1. y < K * 1 /\ 1 \in Nat
        BY <1>4, <3>1
      <4>2. y \div K < 1
        BY <1>4, <4>1, SmallQuotient
      <4>3. y \div K \in Nat
        BY <1>4, Quotient
      <4>4. QED
        BY <4>2, <4>3
    <3>4. o = N - 1
      BY <1>4, <1>7, <3>2, <3>3, OrWithNothing
    <3>5. ((N - 1) - o) * (K * K) = 0
      BY <3>4
    <3>6. QED
      BY <3>5
  <2>2. CASE k < e
    <3>1. PICK Q \in Nat \ {0} : Q = Two[e - k]
      BY <2>2, TwoIsPower
    <3>2. N = K * Q
      <4>1. e - k \in Nat /\ k + (e - k) = e
        BY <2>2
      <4>2. QED
        BY <1>1, <1>2, <3>1, <4>1, TwoOfSum
    <3>3. z < Q
      <4>1. SUFFICES ASSUME z >= Q
                     PROVE  FALSE
        OBVIOUS
      <4>2. z * K >= Q * K
        BY <4>1
      <4>3. QED
        BY <1>4, <3>2, <4>2
    <3>4. PICK s \in Nat, r \in 0 .. (K - 1) : z = K * s + r
      <4>1. /\ z \div K \in Nat /\ z % K \in 0 .. (K - 1)
            /\ z = K * (z \div K) + (z % K)
        BY Quotient
      <4>2. QED
        BY <4>1
    <3>5. s <= z
      <4>1. K * s >= s
        OBVIOUS
      <4>2. QED
        BY <3>4, <4>1
    <3>6. y \div K = (Q - 1) - s
      <4>1. K * ((Q - 1) - s) = (K * Q - K) - K * s
        OBVIOUS
      <4>2. y = K * ((Q - 1) - s) + ((K - 1) - r)
        BY <1>4, <3>2, <3>4, <4>1
      <4>3. (Q - 1) - s \in Int /\ (K - 1) - r \in 0 .. (K - 1)
        OBVIOUS
      <4>4. QED
        BY <4>2, <4>3, QuotientIsUnique
    <3>7. y \div Q = K - 1
      <4>1. Q * (K - 1) = K * Q - Q
        OBVIOUS
      <4>2. y = Q * (K - 1) + ((Q - 1) - z)
        BY <1>4, <3>2, <4>1
      <4>3. K - 1 \in Int /\ (Q - 1) - z \in 0 .. (Q - 1)
        BY <3>3
      <4>4. QED
        BY <4>2, <4>3, QuotientIsUnique
    <3>8. o >= Q * (K - 1) + ((Q - 1) - s)
      <4>1. (Q - 1) - s \in 0 .. (Two[e - k] - 1) /\ e - k \in Nat
        BY <2>2, <3>1, <3>3, <3>5
      <4>2. Or[y][(Q - 1) - s] >= Two[e - k] * (y \div Two[e - k]) + ((Q - 1) - s)
        BY <1>4, <4>1, OrSetsLowBits
      <4>3. QED
        BY <1>7, <3>1, <3>6, <3>7, <4>2
    <3>9. (N - 1) - o <= s
      <4>1. Q * (K - 1) = K * Q - Q
        OBVIOUS
      <4>2. PICK M \in Nat : M = K * Q
        OBVIOUS
      <4>3. QED
        BY <3>2, <3>8, <4>1, <4>2
    <3>10. PICK t \in Nat : t = (N - 1) - o
      BY <1>7
    <3>11. t * (K * K) <= s * (K * K)
      BY <3>9, <3>10
    <3>12. s * (K * K) = (K * s) * K
      OBVIOUS
    <3>13. (K * s) * K <= z * K
      <4>1. K * s <= z /\ K * s \in Nat
        BY <3>4
      <4>2. PICK v \in Nat : v = K * s
        BY <4>1
      <4>3. v * K <= z * K
        BY <4>1, <4>2
      <4>4. QED
        BY <4>2, <4>3
    <3>14. /\ t * (K * K) \in Int /\ s * (K * K) \in Int /\ (K * s) * K \in Int /\ z * K \in Int
      OBVIOUS
    <3>15. t * (K * K) < N
      BY <1>4, <3>11, <3>12, <3>13, <3>14
    <3>16. QED
      BY <3>10, <3>15
  <2>3. QED
    BY <2>1, <2>2
<1>9. QED
  BY <1>1, <1>2, <1>5, <1>7, <1>8

(* The powers of two that are shifts and bits of the constants. *)
LEMMA SmallPowers ==
  /\ Two[0] = 1 /\ Two[1] = 2 /\ Two[2] = 4 /\ Two[3] = 8
  /\ Two[4] = 16 /\ Two[5] = 32 /\ Two[6] = 64 /\ Two[7] = 128
  /\ Two[8] = 256 /\ Two[9] = 512 /\ Two[10] = 1024 /\ Two[11] = 2048
  /\ Two[12] = 4096 /\ Two[13] = 8192 /\ Two[14] = 16384 /\ Two[15] = 32768
  /\ Two[16] = 65536 /\ Two[17] = 131072 /\ Two[18] = 262144 /\ Two[19] = 524288
  /\ Two[20] = 1048576 /\ Two[21] = 2097152 /\ Two[22] = 4194304 /\ Two[23] = 8388608
  /\ Two[24] = 16777216 /\ Two[25] = 33554432 /\ Two[26] = 67108864 /\ Two[27] = 134217728
  /\ Two[28] = 268435456
<1>1. Two[0] = 1 /\ \A n \in Nat \ {0} : Two[n] = 2 * Two[n - 1]
  <2>1. ASSUME NEW n \in Nat \ {0}
        PROVE  Two[n] = 2 * Two[n - 1]
    <3>1. n - 1 \in Nat /\ (n - 1) + 1 = n
      OBVIOUS
    <3>2. QED
      BY <3>1, TwoIsDefined
  <2>2. QED
    BY <2>1, TwoIsDefined
<1>2. Two[1] = 2 /\ Two[2] = 4 /\ Two[3] = 8 /\ Two[4] = 16
  BY <1>1
<1>3. Two[5] = 32 /\ Two[6] = 64 /\ Two[7] = 128 /\ Two[8] = 256
  BY <1>1, <1>2
<1>4. Two[9] = 512 /\ Two[10] = 1024 /\ Two[11] = 2048 /\ Two[12] = 4096
  BY <1>1, <1>3
<1>5. Two[13] = 8192 /\ Two[14] = 16384 /\ Two[15] = 32768 /\ Two[16] = 65536
  BY <1>1, <1>4
<1>6. Two[17] = 131072 /\ Two[18] = 262144 /\ Two[19] = 524288 /\ Two[20] = 1048576
  BY <1>1, <1>5
<1>7. Two[21] = 2097152 /\ Two[22] = 4194304 /\ Two[23] = 8388608 /\ Two[24] = 16777216
  BY <1>1, <1>6
<1>8. Two[25] = 33554432 /\ Two[26] = 67108864 /\ Two[27] = 134217728 /\ Two[28] = 268435456
  BY <1>1, <1>7
<1>9. QED
  BY <1>1, <1>2, <1>3, <1>4, <1>5, <1>6, <1>7, <1>8

-----------------------------------------------------------------------------
(***************************************************************************)
(* The bits of a number, and what becomes of them.                         *)
(***************************************************************************)
Bit(a, p) == (a \div Two[p]) % 2

LEMMA BitIsBit ==
  ASSUME NEW a \in Nat, NEW p \in Nat
  PROVE  /\ Bit(a, p) \in {0, 1}
         /\ Bit(a, 0) = a % 2
         /\ Bit(a, p + 1) = Bit(a \div 2, p)
<1>1. Two[p] \in Nat \ {0} /\ Two[p + 1] = 2 * Two[p] /\ Two[0] = 1
  BY TwoIsPower, TwoIsDefined
<1>2. a \div Two[p] \in Nat
  BY <1>1, Quotient
<1>3. (a \div 2) \div Two[p] = a \div (2 * Two[p])
  BY <1>1, QuotientOfQuotient
<1>4. a \div 1 = a
  OBVIOUS
<1>5. Bit(a, p) \in {0, 1}
  BY <1>2 DEF Bit
<1>6. Bit(a, 0) = a % 2
  BY <1>1, <1>4 DEF Bit
<1>7. QED
  BY <1>1, <1>3, <1>5, <1>6 DEF Bit

LEMMA BitOfAnd ==
  ASSUME NEW p \in Nat, NEW a \in Nat, NEW b \in Nat
  PROVE  Bit(And[a][b], p) = Bit(a, p) * Bit(b, p)
<1> DEFINE S == {n \in Nat : \A i, j \in Nat : Bit(And[i][j], n) = Bit(i, n) * Bit(j, n)}
<1>1. ASSUME NEW i \in Nat, NEW j \in Nat
      PROVE  /\ And[i][j] \in Nat /\ And[i][j] \div 2 = And[i \div 2][j \div 2]
             /\ And[i][j] % 2 = (i % 2) * (j % 2)
  <2>1. i \div 2 \in Nat /\ j \div 2 \in Nat /\ i % 2 \in {0, 1} /\ j % 2 \in {0, 1}
    BY Halving
  <2>2. PICK q \in Nat : q = And[i \div 2][j \div 2]
    BY <2>1, AndIsDefined
  <2>3. PICK r \in {0, 1} : r = (i % 2) * (j % 2)
    BY <2>1
  <2>4. CASE i = 0
    <3>1. i \div 2 = 0 /\ i % 2 = 0 /\ And[i][j] = 0 /\ And[0][j \div 2] = 0
      <4>1. i \div 2 = 0 /\ i % 2 = 0
        BY <2>4
      <4>2. And[i][j] = 0 /\ And[0][j \div 2] = 0
        BY <2>1, <2>4, AndIsDefined
      <4>3. QED
        BY <4>1, <4>2
    <3>2. (i % 2) * (j % 2) = 0
      BY <2>1, <3>1
    <3>3. QED
      BY <3>1, <3>2
  <2>5. CASE i # 0
    <3>1. And[i][j] = 2 * q + r
      BY <2>2, <2>3, <2>5, AndIsDefined
    <3>2. (2 * q + r) \div 2 = q /\ (2 * q + r) % 2 = r /\ 2 * q + r \in Nat
      BY HalvesDecide
    <3>3. QED
      BY <2>2, <2>3, <3>1, <3>2
  <2>6. QED
    BY <2>4, <2>5
<1>2. 0 \in S
  <2>1. ASSUME NEW i \in Nat, NEW j \in Nat
        PROVE  Bit(And[i][j], 0) = Bit(i, 0) * Bit(j, 0)
    <3>1. PICK v \in Nat : v = And[i][j]
      BY <1>1
    <3>2. Bit(v, 0) = v % 2 /\ Bit(i, 0) = i % 2 /\ Bit(j, 0) = j % 2
      BY BitIsBit
    <3>3. v % 2 = (i % 2) * (j % 2)
      BY <1>1, <3>1
    <3>4. QED
      BY <3>1, <3>2, <3>3
  <2>2. QED
    BY <2>1
<1>3. ASSUME NEW n \in Nat, n \in S
      PROVE  n + 1 \in S
  <2>1. ASSUME NEW i \in Nat, NEW j \in Nat
        PROVE  Bit(And[i][j], n + 1) = Bit(i, n + 1) * Bit(j, n + 1)
    <3>1. i \div 2 \in Nat /\ j \div 2 \in Nat
      BY Halving
    <3>2. Bit(And[i][j], n + 1) = Bit(And[i \div 2][j \div 2], n)
      <4>1. PICK v \in Nat : v = And[i][j] /\ v \div 2 = And[i \div 2][j \div 2]
        BY <1>1
      <4>2. Bit(v, n + 1) = Bit(v \div 2, n)
        BY BitIsBit
      <4>3. QED
        BY <4>1, <4>2
    <3>3. Bit(And[i \div 2][j \div 2], n) = Bit(i \div 2, n) * Bit(j \div 2, n)
      BY <1>3, <3>1
    <3>4. Bit(i, n + 1) = Bit(i \div 2, n) /\ Bit(j, n + 1) = Bit(j \div 2, n)
      BY BitIsBit
    <3>5. QED
      BY <3>2, <3>3, <3>4
  <2>2. QED
    BY <2>1
<1>4. \A n \in Nat : n \in S
  <2> HIDE DEF S
  <2>1. QED
    BY <1>2, <1>3, SetInduction
<1>5. QED
  BY <1>4

LEMMA BitOfOr ==
  ASSUME NEW p \in Nat, NEW a \in Nat, NEW b \in Nat
  PROVE  Bit(Or[a][b], p) = IF Bit(a, p) = 1 THEN 1 ELSE Bit(b, p)
<1> DEFINE S == {n \in Nat : \A i, j \in Nat :
                   Bit(Or[i][j], n) = IF Bit(i, n) = 1 THEN 1 ELSE Bit(j, n)}
<1>1. ASSUME NEW i \in Nat, NEW j \in Nat
      PROVE  /\ Or[i][j] \in Nat /\ Or[i][j] \div 2 = Or[i \div 2][j \div 2]
             /\ Or[i][j] % 2 = IF i % 2 = 1 THEN 1 ELSE j % 2
  <2>1. i % 2 \in {0, 1} /\ j % 2 \in {0, 1}
    BY Halving
  <2>2. PICK q \in Nat : q = Or[i \div 2][j \div 2]
    BY OrHalves
  <2>3. PICK r \in {0, 1} : r = IF i % 2 = 1 THEN 1 ELSE j % 2
    BY <2>1
  <2>4. Or[i][j] = 2 * q + r
    BY <2>2, <2>3, OrHalves
  <2>5. (2 * q + r) \div 2 = q /\ (2 * q + r) % 2 = r /\ 2 * q + r \in Nat
    BY HalvesDecide
  <2>6. QED
    BY <2>2, <2>3, <2>4, <2>5
<1>2. 0 \in S
  <2>1. ASSUME NEW i \in Nat, NEW j \in Nat
        PROVE  Bit(Or[i][j], 0) = IF Bit(i, 0) = 1 THEN 1 ELSE Bit(j, 0)
    <3>1. PICK v \in Nat : v = Or[i][j]
      BY <1>1
    <3>2. Bit(v, 0) = v % 2 /\ Bit(i, 0) = i % 2 /\ Bit(j, 0) = j % 2
      BY BitIsBit
    <3>3. QED
      BY <1>1, <3>1, <3>2
  <2>2. QED
    BY <2>1
<1>3. ASSUME NEW n \in Nat, n \in S
      PROVE  n + 1 \in S
  <2>1. ASSUME NEW i \in Nat, NEW j \in Nat
        PROVE  Bit(Or[i][j], n + 1) = IF Bit(i, n + 1) = 1 THEN 1 ELSE Bit(j, n + 1)
    <3>1. i \div 2 \in Nat /\ j \div 2 \in Nat
      BY Halving
    <3>2. Bit(Or[i][j], n + 1) = Bit(Or[i \div 2][j \div 2], n)
      <4>1. PICK v \in Nat : v = Or[i][j] /\ v \div 2 = Or[i \div 2][j \div 2]
        BY <1>1
      <4>2. Bit(v, n + 1) = Bit(v \div 2, n)
        BY BitIsBit
      <4>3. QED
        BY <4>1, <4>2
    <3>3. Bit(Or[i \div 2][j \div 2], n) =
            IF Bit(i \div 2, n) = 1 THEN 1 ELSE Bit(j \div 2, n)
      BY <1>3, <3>1
    <3>4. Bit(i, n + 1) = Bit(i \div 2, n) /\ Bit(j, n + 1) = Bit(j \div 2, n)
      BY BitIsBit
    <3>5. QED
      BY <3>2, <3>3, <3>4
  <2>2. QED
    BY <2>1
<1>4. \A n \in Nat : n \in S
  <2> HIDE DEF S
  <2>1. QED
    BY <1>2, <1>3, SetInduction
<1>5. QED
  BY <1>4

LEMMA BitOfQuotient ==
  ASSUME NEW a \in Nat, NEW n \in Nat, NEW p \in Nat, NEW b \in Nat, b = a \div Two[n]
  PROVE  Bit(b, p) = Bit(a, n + p)
<1>1. Two[n] \in Nat \ {0} /\ Two[p] \in Nat \ {0} /\ Two[n + p] = Two[n] * Two[p]
  BY TwoIsPower, TwoOfSum
<1>2. (a \div Two[n]) \div Two[p] = a \div (Two[n] * Two[p])
  BY <1>1, QuotientOfQuotient
<1>3. QED
  BY <1>1, <1>2 DEF Bit

LEMMA BitOfProduct ==
  ASSUME NEW a \in Nat, NEW n \in Nat, NEW p \in Nat, NEW b \in Nat, b = a * Two[n]
  PROVE  Bit(b, p) = IF p < n THEN 0 ELSE Bit(a, p - n)
<1>1. PICK N \in Nat \ {0} : N = Two[n]
  BY TwoIsPower
<1>2. a * N \in Nat
  OBVIOUS
<1>3. CASE p < n
  <2>1. PICK P \in Nat \ {0} : P = Two[p]
    BY TwoIsPower
  <2>2. PICK k \in Nat : n = p + (k + 1)
    <3>1. n - (p + 1) \in Nat /\ n = p + ((n - (p + 1)) + 1)
      BY <1>3
    <3>2. QED
      BY <3>1
  <2>3. PICK K \in Nat \ {0} : K = Two[k] /\ Two[k + 1] = 2 * K
    BY TwoIsPower
  <2>4. N = P * (2 * K)
    BY <1>1, <2>1, <2>2, <2>3, TwoOfSum
  <2>5. a * N = P * (2 * (a * K)) + 0
    <3>1. a * (P * (2 * K)) = P * (2 * (a * K))
      OBVIOUS
    <3>2. QED
      BY <2>4, <3>1
  <2>6. 2 * (a * K) \in Int /\ 0 \in 0 .. (P - 1)
    OBVIOUS
  <2>7. (a * N) \div P = 2 * (a * K)
    BY <2>5, <2>6, QuotientIsUnique
  <2>8. PICK q \in Nat : q = a * K
    OBVIOUS
  <2>9. (2 * q) % 2 = 0
    OBVIOUS
  <2>10. QED
    BY <1>1, <1>2, <1>3, <2>1, <2>7, <2>8, <2>9 DEF Bit
<1>4. CASE p >= n
  <2>1. p - n \in Nat /\ n + (p - n) = p
    BY <1>4
  <2>2. Bit((a * N) \div N, p - n) = Bit(a * N, p)
    <3>1. PICK k \in Nat : k = p - n /\ n + k = p
      BY <2>1
    <3>2. PICK c \in Nat : c = b \div Two[n]
      BY <1>1, Quotient
    <3>3. Bit(c, k) = Bit(b, n + k)
      BY <3>2, BitOfQuotient
    <3>4. QED
      BY <1>1, <3>1, <3>2, <3>3
  <2>3. (a * N) \div N = a
    <3>1. a * N = N * a + 0 /\ 0 \in 0 .. (N - 1)
      OBVIOUS
    <3>2. QED
      BY <3>1, QuotientIsUnique
  <2>4. QED
    BY <1>1, <1>2, <1>4, <2>2, <2>3
<1>5. QED
  BY <1>3, <1>4

LEMMA BitAbove ==
  ASSUME NEW w \in Nat, NEW a \in 0 .. (Two[w] - 1), NEW p \in Nat, p >= w
  PROVE  Bit(a, p) = 0
<1>1. Two[w] \in Nat \ {0} /\ Two[p] \in Nat \ {0} /\ Two[w] <= Two[p]
  BY TwoIsPower, TwoGrows
<1>2. a \in Nat /\ a < Two[p] * 1
  BY <1>1
<1>3. a \div Two[p] < 1 /\ a \div Two[p] \in Nat
  BY <1>1, <1>2, SmallQuotient, Quotient
<1>4. a \div Two[p] = 0
  BY <1>3
<1>5. QED
  BY <1>4 DEF Bit

(***************************************************************************)
(* A number and its negative have the lowest bit of the number in common.  *)
(***************************************************************************)
LEMMA ComplementSharesNoBit ==
  ASSUME NEW w \in Nat, NEW a \in 0 .. (Two[w] - 1)
  PROVE  And[a][(Two[w] - 1) - a] = 0
<1> DEFINE S == {n \in Nat : \A i \in 0 .. (Two[n] - 1) : And[i][(Two[n] - 1) - i] = 0}
<1>1. 0 \in S
  <2>1. Two[0] = 1 /\ And[0][0] = 0
    BY TwoIsDefined, AndIsDefined
  <2>2. QED
    BY <2>1
<1>2. ASSUME NEW n \in Nat, n \in S
      PROVE  n + 1 \in S
  <2>1. PICK t \in Nat \ {0} : t = Two[n] /\ Two[n + 1] = 2 * t
    BY TwoIsPower
  <2>2. ASSUME NEW i \in 0 .. (2 * t - 1)
        PROVE  And[i][(2 * t - 1) - i] = 0
    <3>1. PICK h \in 0 .. (t - 1), r \in {0, 1} : h = i \div 2 /\ r = i % 2 /\ i = 2 * h + r
      <4>1. i \in Nat /\ i \div 2 \in 0 .. (t - 1)
        OBVIOUS
      <4>2. QED
        BY <4>1, Halving
    <3>2. (2 * t - 1) - i = 2 * ((t - 1) - h) + (1 - r)
      BY <3>1
    <3>3. (t - 1) - h \in Nat /\ 1 - r \in {0, 1}
      OBVIOUS
    <3>4. ((2 * t - 1) - i) \div 2 = (t - 1) - h /\ ((2 * t - 1) - i) % 2 = 1 - r
      BY <3>2, <3>3, HalvesDecide
    <3>5. And[h][(t - 1) - h] = 0
      BY <1>2, <2>1
    <3>6. r * (1 - r) = 0
      OBVIOUS
    <3>7. i \in Nat /\ (2 * t - 1) - i \in Nat
      OBVIOUS
    <3>8. CASE i = 0
      BY <3>7, <3>8, AndIsDefined
    <3>9. CASE i # 0
      <4>1. And[i][(2 * t - 1) - i] = 2 * And[h][(t - 1) - h] + r * (1 - r)
        BY <3>1, <3>4, <3>7, <3>9, AndIsDefined
      <4>2. QED
        BY <3>5, <3>6, <4>1
    <3>10. QED
      BY <3>8, <3>9
  <2>3. QED
    BY <2>1, <2>2
<1>3. \A n \in Nat : n \in S
  <2> HIDE DEF S
  <2>1. QED
    BY <1>1, <1>2, SetInduction
<1>4. QED
  BY <1>3

LEMMA NegativeSharesLowestBit ==
  ASSUME NEW w \in Nat, NEW a \in 1 .. (Two[w] - 1)
  PROVE  \E p \in 0 .. (w - 1) :
           /\ And[a][Two[w] - a] = Two[p]
           /\ Bit(a, p) = 1
           /\ \A q \in 0 .. (p - 1) : Bit(a, q) = 0
<1> DEFINE Low(n, i, p) ==
      And[i][Two[n] - i] = Two[p] /\ Bit(i, p) = 1 /\ \A q \in 0 .. (p - 1) : Bit(i, q) = 0
<1> DEFINE S == {n \in Nat : \A i \in 1 .. (Two[n] - 1) : \E p \in 0 .. (n - 1) : Low(n, i, p)}
<1>1. 0 \in S
  <2>1. Two[0] = 1
    BY TwoIsDefined
  <2>2. QED
    BY <2>1
<1>2. ASSUME NEW n \in Nat, n \in S
      PROVE  n + 1 \in S
  <2>1. PICK t \in Nat \ {0} : t = Two[n] /\ Two[n + 1] = 2 * t
    BY TwoIsPower
  <2>2. ASSUME NEW i \in 1 .. (2 * t - 1)
        PROVE  \E p \in 0 .. n : Low(n + 1, i, p)
    <3>1. PICK h \in 0 .. (t - 1), r \in {0, 1} : h = i \div 2 /\ r = i % 2 /\ i = 2 * h + r
      <4>1. i \in Nat /\ i \div 2 \in 0 .. (t - 1)
        OBVIOUS
      <4>2. QED
        BY <4>1, Halving
    <3>2. i \in Nat /\ i # 0 /\ 2 * t - i \in Nat /\ h \in Nat
      BY <2>1
    <3>3. And[i][2 * t - i] = 2 * And[h][(2 * t - i) \div 2] + r * ((2 * t - i) % 2)
      BY <3>1, <3>2, AndIsDefined
    <3>4. CASE r = 1
      <4>1. 2 * t - i = 2 * ((t - 1) - h) + 1 /\ (t - 1) - h \in Nat
        BY <3>1, <3>4
      <4>2. (2 * t - i) \div 2 = (t - 1) - h /\ (2 * t - i) % 2 = 1
        BY <4>1, HalvesDecide
      <4>3. And[h][(t - 1) - h] = 0
        BY <2>1, ComplementSharesNoBit
      <4>4. And[i][2 * t - i] = 1
        BY <3>3, <3>4, <4>2, <4>3
      <4>5. Two[0] = 1 /\ Bit(i, 0) = 1 /\ 0 \in 0 .. n
        <5>1. Bit(i, 0) = i % 2
          BY <3>2, BitIsBit
        <5>2. QED
          BY <3>1, <3>4, <5>1, TwoIsDefined
      <4>6. Low(n + 1, i, 0)
        BY <2>1, <4>4, <4>5
      <4>7. QED
        BY <4>5, <4>6
    <3>5. CASE r = 0
      <4>1. 2 * t - i = 2 * (t - h) + 0 /\ t - h \in Nat /\ h \in 1 .. (t - 1)
        BY <3>1, <3>5
      <4>2. (2 * t - i) \div 2 = t - h /\ (2 * t - i) % 2 = 0
        BY <4>1, HalvesDecide
      <4>3. PICK p \in 0 .. (n - 1) : Low(n, h, p)
        BY <1>2, <2>1, <4>1
      <4>4. p \in Nat /\ p + 1 \in 0 .. n /\ Two[p] \in Nat /\ Two[p + 1] = 2 * Two[p]
        BY <4>3, TwoIsPower
      <4>5. And[i][2 * t - i] = Two[p + 1]
        <5>1. And[h][t - h] = Two[p]
          BY <2>1, <4>3
        <5>2. r * ((2 * t - i) % 2) = 0
          BY <3>5, <4>2
        <5>3. And[i][2 * t - i] = 2 * And[h][t - h] + 0
          BY <3>3, <4>2, <5>2
        <5>4. QED
          BY <4>4, <5>1, <5>3
      <4>6. Bit(i, p + 1) = 1
        BY <3>1, <3>2, <4>3, <4>4, BitIsBit
      <4>7. ASSUME NEW q \in 0 .. ((p + 1) - 1)
            PROVE  Bit(i, q) = 0
        <5>1. CASE q = 0
          BY <3>1, <3>2, <3>5, <5>1, BitIsBit
        <5>2. CASE q # 0
          <6>1. q - 1 \in 0 .. (p - 1) /\ q - 1 \in Nat /\ (q - 1) + 1 = q
            BY <4>4, <5>2
          <6>2. Bit(i, (q - 1) + 1) = Bit(h, q - 1)
            BY <3>1, <3>2, <6>1, BitIsBit
          <6>3. Bit(h, q - 1) = 0
            BY <4>3, <6>1
          <6>4. QED
            BY <6>1, <6>2, <6>3
        <5>3. QED
          BY <5>1, <5>2
      <4>8. Low(n + 1, i, p + 1)
        BY <2>1, <4>5, <4>6, <4>7
      <4>9. QED
        BY <4>4, <4>8
    <3>6. QED
      BY <3>4, <3>5
  <2> HIDE DEF Low
  <2>3. QED
    BY <2>1, <2>2
<1>3. \A n \in Nat : n \in S
  <2> HIDE DEF S
  <2>1. QED
    BY <1>1, <1>2, SetInduction
<1>4. QED
  BY <1>3

=============================================================================
