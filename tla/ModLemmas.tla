----------------------------- MODULE ModLemmas -----------------------------
(***************************************************************************)
(* Arithmetic of remainders: what can be told of two counts from their     *)
(* values in an unsigned type.                                             *)
(***************************************************************************)
EXTENDS Integers, TLAPS

(* Division with remainder.                                                *)
LEMMA DivMod ==
  ASSUME NEW a \in Int, NEW m \in Nat \ {0}
  PROVE  /\ a \div m \in Int
         /\ a % m \in 0 .. m-1
         /\ a = m * (a \div m) + (a % m)
OBVIOUS

(* The remainder is the only number in range that differs from a by a      *)
(* multiple of m.                                                          *)
LEMMA ModUnique ==
  ASSUME NEW m \in Nat \ {0}, NEW q \in Int, NEW r \in 0 .. m-1
  PROVE  (m * q + r) % m = r
OBVIOUS

(* A product with a larger factor is larger by at least m.                 *)
LEMMA MulStep ==
  ASSUME NEW m \in Nat \ {0}, NEW x \in Int, NEW y \in Int, x < y
  PROVE  m * x + m <= m * y
OBVIOUS

(* Numbers less than m apart have different remainders.                    *)
LEMMA ModDiffer ==
  ASSUME NEW m \in Nat \ {0}, NEW a \in Int, NEW b \in Int,
         a < b, b - a < m
  PROVE  a % m # b % m
<1>1. SUFFICES ASSUME a % m = b % m PROVE FALSE
  OBVIOUS
<1>2. /\ a \div m \in Int /\ b \div m \in Int
      /\ a % m \in 0 .. m-1
      /\ a = m * (a \div m) + (a % m)
      /\ b = m * (b \div m) + (b % m)
  BY DivMod
<1>3. CASE a \div m < b \div m
  <2>1. m * (a \div m) + m <= m * (b \div m)
    BY <1>2, <1>3, MulStep
  <2>2. m * (a \div m) \in Int /\ m * (b \div m) \in Int
    BY <1>2
  <2> QED
    BY <2>1, <2>2, <1>1, <1>2
<1>4. CASE b \div m < a \div m
  <2>1. m * (b \div m) + m <= m * (a \div m)
    BY <1>2, <1>4, MulStep
  <2>2. m * (a \div m) \in Int /\ m * (b \div m) \in Int
    BY <1>2
  <2> QED
    BY <2>1, <2>2, <1>1, <1>2
<1>5. CASE a \div m = b \div m
  BY <1>1, <1>2, <1>5
<1> QED
  BY <1>2, <1>3, <1>4, <1>5

(* The unsigned difference of two remainders is the difference of the      *)
(* numbers when that is in range.                                          *)
LEMMA ModDiff ==
  ASSUME NEW m \in Nat \ {0}, NEW a \in Int, NEW b \in Int,
         a <= b, b - a < m
  PROVE  ((b % m) - (a % m)) % m = b - a
<1> DEFINE q == (a \div m) - (b \div m)
<1>1. /\ a \div m \in Int /\ b \div m \in Int
      /\ a = m * (a \div m) + (a % m)
      /\ b = m * (b \div m) + (b % m)
      /\ a % m \in Int /\ b % m \in Int
  BY DivMod
<1>2. m * q = m * (a \div m) - m * (b \div m)
  BY <1>1
<1>3. m * (a \div m) \in Int /\ m * (b \div m) \in Int
  BY <1>1
<1>4. (b % m) - (a % m) = m * q + (b - a)
  BY <1>1, <1>2, <1>3
<1>5. b - a \in 0 .. m-1 /\ q \in Int
  BY <1>1
<1> QED
  BY <1>4, <1>5, ModUnique

(* Reducing first by a multiple of m changes no remainder by m.            *)
LEMMA ModOfMod ==
  ASSUME NEW m \in Nat \ {0}, NEW k \in Nat \ {0}, NEW a \in Int,
         k % m = 0
  PROVE  (a % k) % m = a % m
<1> DEFINE c == k \div m
           q == a \div k
           p == a \div m
<1>1. c \in Int /\ k = m * c
  BY DivMod
<1>2. q \in Int /\ a % k \in Int /\ a = k * q + (a % k)
  BY DivMod
<1>3. p \in Int /\ a % m \in 0 .. m-1 /\ a = m * p + (a % m)
  BY DivMod
<1> HIDE DEF c, q, p
<1> DEFINE kq == k * q
           mcq == m * (c * q)
           mp == m * p
           md == m * (p - c * q)
           r == a % m
           rk == a % k
<1>4. kq = mcq /\ c * q \in Int
  BY <1>1, <1>2
<1>5. md = mp - mcq
  BY <1>3, <1>4
<1>6. mp \in Int /\ mcq \in Int /\ p - c * q \in Int
  BY <1>3, <1>4
<1>7. r \in 0 .. m-1 /\ rk \in Int /\ a = kq + rk /\ a = mp + r
  BY <1>2, <1>3
<1>8. (m * (p - c * q) + r) % m = r
  BY <1>6, <1>7, ModUnique
<1> HIDE DEF kq, mcq, mp, md, r, rk
<1>9. rk = md + r
  BY <1>4, <1>5, <1>6, <1>7
<1> QED
  BY <1>8, <1>9 DEF md, r, rk

(* One more moves to the next remainder.                                   *)
LEMMA ModNext ==
  ASSUME NEW m \in Nat \ {0}, NEW a \in Int
  PROVE  (a + 1) % m = IF (a % m) + 1 = m THEN 0 ELSE (a % m) + 1
<1> DEFINE q == a \div m
           r == a % m
<1>1. q \in Int /\ r \in 0 .. m-1 /\ a = m * q + r
  BY DivMod
<1> HIDE DEF q, r
<1>2. CASE r + 1 = m
  <2>1. (m * (q + 1) + 0) % m = 0
    BY <1>1, ModUnique
  <2>2. m * (q + 1) + 0 = a + 1
    BY <1>1, <1>2
  <2> QED
    BY <1>2, <2>1, <2>2 DEF r
<1>3. CASE r + 1 # m
  <2>1. (m * q + (r + 1)) % m = r + 1
    BY <1>1, <1>3, ModUnique
  <2>2. m * q + (r + 1) = a + 1
    BY <1>1
  <2> QED
    BY <1>3, <2>1, <2>2 DEF r
<1> QED
  BY <1>2, <1>3

(* Numbers with the same remainder have it after equal steps.              *)
LEMMA ModAdd ==
  ASSUME NEW m \in Nat \ {0}, NEW a \in Int, NEW c \in Int
  PROVE  ((a % m) + c) % m = (a + c) % m
<1> DEFINE q == a \div m
           r == a % m
           b == r + c
           p == b \div m
           s == b % m
<1>1. q \in Int /\ r \in Int /\ a = m * q + r
  BY DivMod
<1>2. b \in Int
  BY <1>1
<1>3. p \in Int /\ s \in 0 .. m-1 /\ b = m * p + s
  BY <1>2, DivMod
<1> HIDE DEF q, p, s
<1>4. m * q \in Int /\ m * p \in Int /\ m * (q + p) = m * q + m * p
  BY <1>1, <1>3
<1>5. a + c = m * (q + p) + s
  BY <1>1, <1>3, <1>4
<1>6. q + p \in Int
  BY <1>1, <1>3
<1>7. (m * (q + p) + s) % m = s
  BY <1>3, <1>6, ModUnique
<1> QED
  BY <1>5, <1>7 DEF s

(* Offsets less than s apart have different slots in a ring of s, provided *)
(* that s divides the m at which they wrap, or they have not wrapped.      *)
LEMMA RingDiffer ==
  ASSUME NEW s \in Nat \ {0}, NEW m \in Nat \ {0}, NEW a \in Nat, NEW b \in Nat,
         a < b, b - a < s, m % s = 0 \/ b < m
  PROVE  (a % m) % s # (b % m) % s
<1>1. a % s # b % s
  <2>1. a \in Int /\ b \in Int
    OBVIOUS
  <2> QED
    BY <2>1, ModDiffer
<1>2. CASE m % s = 0
  <2>1. a \in Int /\ b \in Int
    OBVIOUS
  <2>2. (a % m) % s = a % s /\ (b % m) % s = b % s
    BY <1>2, <2>1, ModOfMod
  <2> QED
    BY <1>1, <2>2
<1>3. CASE b < m
  <2>1. (m * 0 + a) % m = a /\ (m * 0 + b) % m = b
    BY <1>3, ModUnique
  <2>2. m * 0 + a = a /\ m * 0 + b = b
    OBVIOUS
  <2> QED
    BY <1>1, <2>1, <2>2
<1> QED
  BY <1>2, <1>3

=============================================================================
