--------------------------- MODULE TtaData_proofs ---------------------------
(***************************************************************************)
(* The bit, byte and float helpers find again what they stored.            *)
(*                                                                         *)
(* The loops over bits are recursive functions.  What they compute is      *)
(* proved by induction, which is taken here from the well-foundedness of   *)
(* the natural numbers: a set of numbers with 0 that has the successor of  *)
(* each of its elements has them all.                                      *)
(***************************************************************************)
EXTENDS TtaData, TLAPS, WellFoundedInduction

-----------------------------------------------------------------------------
(* Induction, and the powers of two.                                       *)

LEMMA NatIsWellFounded ==
  IsWellFoundedOn({p \in Nat \X Nat : p[1] < p[2]}, Nat)
  BY NatLessThanWellFounded DEF OpToRel

LEMMA Induction ==
  ASSUME NEW S, 0 \in S, \A n \in Nat : n \in S => n + 1 \in S
  PROVE  \A n \in Nat : n \in S
<1> SUFFICES ASSUME Nat \ S # {} PROVE FALSE
  OBVIOUS
<1> DEFINE R == {p \in Nat \X Nat : p[1] < p[2]}
<1>1. PICK m \in Nat \ S : \A k \in Nat \ S : ~(<<k, m>> \in R)
  <2> HIDE DEF R
  <2> QED
    BY NatIsWellFounded, WFMin DEF R
<1>2. m # 0 /\ m - 1 \in Nat /\ (m - 1) + 1 = m
  BY <1>1
<1>3. m - 1 \notin S
  BY <1>1, <1>2
<1>4. <<m - 1, m>> \in R
  BY <1>1, <1>2
<1> QED
  BY <1>1, <1>2, <1>3, <1>4

\* The first n powers of two.
Powers(n, f) ==
  /\ f \in [0..n -> Nat \ {0}] /\ f[0] = 1
  /\ \A i \in 1..n : f[i] = 2 * f[i - 1]

LEMMA PowersExist == \A n \in Nat : \E f : Powers(n, f)
<1> DEFINE S == {n \in Nat : \E f : Powers(n, f)}
<1>1. 0 \in S
  <2> DEFINE f == [i \in 0..0 |-> 1]
  <2>1. Powers(0, f)
    BY DEF Powers
  <2> HIDE DEF f
  <2> QED
    BY <2>1
<1>2. ASSUME NEW n \in Nat, n \in S PROVE n + 1 \in S
  <2>1. PICK f : Powers(n, f)
    BY <1>2
  <2> DEFINE g == [i \in 0..(n + 1) |-> IF i = n + 1 THEN 2 * f[n] ELSE f[i]]
  <2>2. g \in [0..(n + 1) -> Nat \ {0}] /\ g[0] = 1
    BY <2>1 DEF Powers
  <2>3. ASSUME NEW i \in 1..(n + 1) PROVE g[i] = 2 * g[i - 1]
    <3>1. i - 1 \in 0..(n + 1) /\ i - 1 # n + 1
      OBVIOUS
    <3>2. CASE i = n + 1
      BY <3>1, <3>2
    <3>3. CASE i # n + 1
      BY <2>1, <3>1, <3>3 DEF Powers
    <3> QED
      BY <3>2, <3>3
  <2> HIDE DEF g
  <2>4. Powers(n + 1, g)
    BY <2>2, <2>3 DEF Powers
  <2> QED
    BY <2>4
<1> HIDE DEF S
<1>3. \A n \in Nat : n \in S
  BY <1>1, <1>2, Induction
<1> QED
  BY <1>3 DEF S

LEMMA PowersAgree ==
  ASSUME NEW n \in Nat, NEW m \in Nat, NEW f, NEW g, Powers(n, f), Powers(m, g)
  PROVE  \A i \in Nat : i <= n /\ i <= m => f[i] = g[i]
<1> DEFINE S == {i \in Nat : i <= n /\ i <= m => f[i] = g[i]}
<1>1. 0 \in S
  BY DEF Powers
<1>2. ASSUME NEW i \in Nat, i \in S PROVE i + 1 \in S
  <2> SUFFICES ASSUME i + 1 <= n, i + 1 <= m PROVE f[i + 1] = g[i + 1]
    OBVIOUS
  <2>1. f[i] = g[i]
    BY <1>2
  <2>2. /\ i + 1 \in 1..n /\ i + 1 \in 1..m /\ (i + 1) - 1 = i
    OBVIOUS
  <2> QED
    BY <2>1, <2>2 DEF Powers
<1> HIDE DEF S
<1>3. \A i \in Nat : i \in S
  BY <1>1, <1>2, Induction
<1> QED
  BY <1>3 DEF S

\* The function that the recursive definition asks for exists.
LEMMA Pow2Def ==
  Pow2 = [n \in Nat |-> IF n = 0 THEN 1 ELSE 2 * Pow2[n - 1]]
<1> DEFINE G(n) == CHOOSE f : Powers(n, f)
           P == [n \in Nat |-> G(n)[n]]
<1>1. \A n \in Nat : Powers(n, G(n))
  BY PowersExist
<1> HIDE DEF G
<1>2. ASSUME NEW n \in Nat PROVE P[n] = IF n = 0 THEN 1 ELSE 2 * P[n - 1]
  <2>1. CASE n = 0
    BY <1>1, <2>1 DEF Powers
  <2>2. CASE n # 0
    <3>1. n - 1 \in Nat /\ n \in 1..n /\ n - 1 <= n
      BY <2>2
    <3>2. G(n)[n] = 2 * G(n)[n - 1]
      BY <1>1, <3>1 DEF Powers
    <3>3. G(n)[n - 1] = G(n - 1)[n - 1]
      <4>1. Powers(n, G(n)) /\ Powers(n - 1, G(n - 1))
        BY <1>1, <3>1
      <4> QED
        BY <3>1, <4>1, PowersAgree
    <3> QED
      BY <2>2, <3>1, <3>2, <3>3
  <2> QED
    BY <2>1, <2>2
<1>3. P = [n \in Nat |-> IF n = 0 THEN 1 ELSE 2 * P[n - 1]]
  <2>1. P = [n \in Nat |-> P[n]]
    OBVIOUS
  <2> HIDE DEF P
  <2> QED
    BY <1>2, <2>1
<1> HIDE DEF P
<1>4. \E f : f = [n \in Nat |-> IF n = 0 THEN 1 ELSE 2 * f[n - 1]]
  BY <1>3
<1> QED
  BY <1>4 DEF Pow2

LEMMA Pow2Step ==
  Pow2[0] = 1 /\ \A n \in Nat : Pow2[n + 1] = 2 * Pow2[n]
<1> DEFINE P == Pow2
<1>1. P = [n \in Nat |-> IF n = 0 THEN 1 ELSE 2 * P[n - 1]]
  BY Pow2Def
<1> HIDE DEF P
<1>2. P[0] = 1
  BY <1>1
<1>3. ASSUME NEW n \in Nat PROVE P[n + 1] = 2 * P[n]
  <2>1. n + 1 \in Nat /\ n + 1 # 0 /\ (n + 1) - 1 = n
    OBVIOUS
  <2>2. P[n + 1] = 2 * P[(n + 1) - 1]
    BY <1>1, <2>1
  <2> QED
    BY <2>1, <2>2
<1> QED
  BY <1>2, <1>3 DEF P

LEMMA Pow2Type == \A n \in Nat : Pow2[n] \in Nat \ {0}
<1> DEFINE S == {n \in Nat : Pow2[n] \in Nat \ {0}}
<1>1. 0 \in S
  BY Pow2Step
<1>2. ASSUME NEW n \in Nat, n \in S PROVE n + 1 \in S
  BY <1>2, Pow2Step
<1> HIDE DEF S
<1>3. \A n \in Nat : n \in S
  BY <1>1, <1>2, Induction
<1> QED
  BY <1>3 DEF S

LEMMA Pow2Sum ==
  ASSUME NEW i \in Nat, NEW j \in Nat
  PROVE  Pow2[i + j] = Pow2[i] * Pow2[j]
<1> DEFINE S == {n \in Nat : Pow2[i + n] = Pow2[i] * Pow2[n]}
<1>1. 0 \in S
  BY Pow2Step, Pow2Type
<1>2. ASSUME NEW n \in Nat, n \in S PROVE n + 1 \in S
  <2>1. i + n \in Nat /\ i + (n + 1) = (i + n) + 1
    OBVIOUS
  <2>2. Pow2[i + (n + 1)] = 2 * Pow2[i + n] /\ Pow2[n + 1] = 2 * Pow2[n]
    BY <2>1, Pow2Step
  <2>3. Pow2[i + n] = Pow2[i] * Pow2[n]
    BY <1>2
  <2>4. Pow2[i] \in Nat /\ Pow2[n] \in Nat
    BY Pow2Type
  <2>5. 2 * (Pow2[i] * Pow2[n]) = Pow2[i] * (2 * Pow2[n])
    BY <2>4
  <2> QED
    BY <2>2, <2>3, <2>5
<1> HIDE DEF S
<1>3. \A n \in Nat : n \in S
  BY <1>1, <1>2, Induction
<1> QED
  BY <1>3 DEF S

-----------------------------------------------------------------------------
(* Division.                                                               *)

LEMMA DivMod ==
  ASSUME NEW v \in Nat, NEW a \in Nat \ {0}
  PROVE  /\ v \div a \in Nat /\ v % a \in 0..(a - 1)
         /\ v = (v % a) + a * (v \div a)
<1>1. v \div a \in Nat
  OBVIOUS
<1>2. v % a \in 0..(a - 1)
  OBVIOUS
<1>3. v = a * (v \div a) + (v % a)
  OBVIOUS
<1> QED
  BY <1>1, <1>2, <1>3

LEMMA ProductGrows ==
  ASSUME NEW x \in Nat, NEW y \in Nat, NEW a \in Nat \ {0}, x >= y + 1
  PROVE  a * x >= a * y + a
  OBVIOUS

\* There is one quotient and one rest.
LEMMA DivUnique ==
  ASSUME NEW a \in Nat \ {0}, NEW q \in Nat, NEW r \in 0..(a - 1)
  PROVE  (r + a * q) \div a = q /\ (r + a * q) % a = r
<1> DEFINE v == r + a * q
           p == v \div a
           s == v % a
<1>1. v \in Nat
  OBVIOUS
<1>2. p \in Nat /\ s \in 0..(a - 1) /\ v = s + a * p
  BY <1>1, DivMod
<1> HIDE DEF p, s
<1>3. a * q \in Nat /\ a * p \in Nat
  BY <1>2
<1>4. ~(q >= p + 1)
  <2>1. q >= p + 1 => a * q >= a * p + a
    BY <1>2, ProductGrows
  <2> QED
    BY <1>2, <1>3, <2>1
<1>5. ~(p >= q + 1)
  <2>1. p >= q + 1 => a * p >= a * q + a
    BY <1>2, ProductGrows
  <2> QED
    BY <1>2, <1>3, <2>1
<1>6. p = q
  BY <1>2, <1>4, <1>5
<1>7. s = r
  BY <1>2, <1>3, <1>6
<1> QED
  BY <1>6, <1>7 DEF p, s

LEMMA DivDiv ==
  ASSUME NEW v \in Nat, NEW a \in Nat \ {0}, NEW b \in Nat \ {0}
  PROVE  (v \div a) \div b = v \div (a * b)
<1> DEFINE q == v \div a
           r == v % a
           p == q \div b
           s == q % b
<1>1. q \in Nat /\ r \in 0..(a - 1) /\ v = r + a * q
  BY DivMod
<1> HIDE DEF q, r
<1>2. p \in Nat /\ s \in 0..(b - 1) /\ q = s + b * p
  BY <1>1, DivMod
<1> HIDE DEF p, s
<1>3. v = (r + a * s) + (a * b) * p
  <2>1. a * (s + b * p) = a * s + (a * b) * p
    BY <1>2
  <2> QED
    BY <1>1, <1>2, <2>1
<1>4. a * b \in Nat \ {0} /\ r + a * s \in 0..(a * b - 1)
  <2>1. a * b \in Nat \ {0} /\ a * s \in Nat
    BY <1>2
  <2>2. a * b >= a * s + a
    BY <1>2, ProductGrows
  <2> QED
    BY <1>1, <2>1, <2>2
<1>5. v \div (a * b) = p
  <2> DEFINE c == a * b
             t == r + a * s
  <2>1. c \in Nat \ {0} /\ t \in 0..(c - 1) /\ v = t + c * p
    BY <1>3, <1>4
  <2> HIDE DEF c, t
  <2>2. v \div c = p
    BY <1>2, <2>1, DivUnique
  <2> QED
    BY <2>2 DEF c
<1> QED
  BY <1>5 DEF p, q

-----------------------------------------------------------------------------
(* Bits of a number.                                                       *)

LEMMA BitIsBit ==
  ASSUME NEW v \in Nat, NEW i \in Nat
  PROVE  Bit(v, i) \in {0, 1}
<1>1. v \div Pow2[i] \in Nat
  BY Pow2Type, DivMod
<1>2. (v \div Pow2[i]) % 2 \in 0..1
  BY <1>1, DivMod
<1> QED
  BY <1>2 DEF Bit

\* A bit of what is left when i bits are shifted out.
LEMMA BitAbove ==
  ASSUME NEW v \in Nat, NEW i \in Nat, NEW j \in Nat
  PROVE  Bit(v, i + j) = Bit(v \div Pow2[i], j)
<1>1. Pow2[i] \in Nat \ {0} /\ Pow2[j] \in Nat \ {0}
  BY Pow2Type
<1>2. (v \div Pow2[i]) \div Pow2[j] = v \div (Pow2[i] * Pow2[j])
  BY <1>1, DivDiv
<1> QED
  BY <1>2, Pow2Sum DEF Bit

\* A multiple of 2^k does not show in the bits below k.
LEMMA BitBelow ==
  ASSUME NEW x \in Nat, NEW y \in Nat, NEW k \in Nat, NEW j \in Nat, j < k
  PROVE  Bit(x + Pow2[k] * y, j) = Bit(x, j)
<1> DEFINE a == Pow2[j]
           c == Pow2[k - j - 1]
           q == x \div a
           r == x % a
           z == c * y
<1>1. k - j - 1 \in Nat /\ (j + (k - j - 1)) + 1 = k /\ j + (k - j - 1) \in Nat
  OBVIOUS
<1>2. a \in Nat \ {0} /\ c \in Nat \ {0}
  BY <1>1, Pow2Type
<1>3. Pow2[k] = 2 * (a * c)
  BY <1>1, Pow2Step, Pow2Sum
<1> HIDE DEF a, c
<1>4. q \in Nat /\ r \in 0..(a - 1) /\ x = r + a * q
  BY <1>2, DivMod
<1>5. z \in Nat
  BY <1>2
<1> HIDE DEF q, r
<1>6. x + Pow2[k] * y = r + a * (q + 2 * z)
  <2>1. (2 * (a * c)) * y = a * (2 * (c * y))
    BY <1>2
  <2>2. a * (q + 2 * z) = a * q + a * (2 * z)
    BY <1>2, <1>4, <1>5
  <2>3. a * q \in Nat /\ a * (2 * z) \in Nat
    BY <1>2, <1>4, <1>5
  <2> QED
    BY <1>3, <1>4, <2>1, <2>2, <2>3
<1> HIDE DEF z
<1>7. (x + Pow2[k] * y) \div a = q + 2 * z
  <2>1. q + 2 * z \in Nat
    BY <1>4, <1>5
  <2> QED
    BY <1>2, <1>4, <1>6, <2>1, DivUnique
<1>8. (q + 2 * z) % 2 = q % 2
  BY <1>4, <1>5
<1> QED
  BY <1>7, <1>8 DEF Bit, a, q

\* The bits from i on of a number: k of them, and the rest.
LEMMA LowBits ==
  ASSUME NEW w \in Nat, NEW m \in Nat
  PROVE  w % Pow2[m + 1] = (w % Pow2[m]) + Bit(w, m) * Pow2[m]
<1> DEFINE a == Pow2[m]
           q == w \div a
           r == w % a
           h == q \div 2
           b == q % 2
<1>1. a \in Nat \ {0} /\ Pow2[m + 1] = 2 * a
  BY Pow2Type, Pow2Step
<1> HIDE DEF a
<1>2. q \in Nat /\ r \in 0..(a - 1) /\ w = r + a * q
  BY <1>1, DivMod
<1> HIDE DEF q, r
<1>3. h \in Nat /\ b \in 0..1 /\ q = b + 2 * h
  BY <1>2, DivMod
<1> HIDE DEF h, b
<1>4. w = (r + a * b) + (2 * a) * h
  <2>1. a * (b + 2 * h) = a * b + (2 * a) * h
    BY <1>1, <1>3
  <2> QED
    BY <1>1, <1>2, <1>3, <2>1
<1>5. r + a * b \in 0..(2 * a - 1) /\ 2 * a \in Nat \ {0} /\ a * b = b * a
  <2>1. CASE b = 0
    BY <1>1, <1>2, <2>1
  <2>2. CASE b = 1
    BY <1>1, <1>2, <2>2
  <2> QED
    BY <1>3, <2>1, <2>2
<1>6. w % (2 * a) = r + a * b
  <2> DEFINE c == 2 * a
             t == r + a * b
  <2>1. c \in Nat \ {0} /\ t \in 0..(c - 1) /\ w = t + c * h
    BY <1>4, <1>5
  <2> HIDE DEF c, t
  <2>2. w % c = t
    BY <1>3, <2>1, DivUnique
  <2> QED
    BY <2>2 DEF c, t
<1>7. Bit(w, m) = b
  BY DEF Bit, a, b, q
<1> QED
  BY <1>1, <1>5, <1>6, <1>7 DEF a, r

\* What is below the replaced bits, they themselves, and what is above them.
LEMMA ReplacedParts ==
  ASSUME NEW v \in Nat, NEW u \in Nat, NEW i \in Nat, NEW k \in Nat
  PROVE  LET w == v \div Pow2[i]
         IN  Replaced(v, i, k, u) =
               (v % Pow2[i]) + Pow2[i] * ((u % Pow2[k]) + Pow2[k] * (w \div Pow2[k]))
<1> DEFINE a == Pow2[i]
           c == Pow2[k]
           w == v \div a
           lo == v % a
           h == w \div c
           m == w % c
           n == u % c
<1>1. a \in Nat \ {0} /\ c \in Nat \ {0}
  BY Pow2Type
<1> HIDE DEF a, c
<1>2. w \in Nat /\ lo \in Nat /\ v = lo + a * w
  BY <1>1, DivMod
<1> HIDE DEF w, lo
<1>3. h \in Nat /\ m \in Nat /\ w = m + c * h /\ n \in Nat
  BY <1>1, <1>2, DivMod
<1> HIDE DEF h, m, n
<1>4. /\ a * (m + c * h) = m * a + a * (c * h)
      /\ a * (n + c * h) = n * a + a * (c * h)
      /\ m * a \in Nat /\ n * a \in Nat /\ a * (c * h) \in Nat
  BY <1>1, <1>3
<1>5. v - m * a + n * a = lo + a * (n + c * h)
  <2>1. v = lo + (m * a + a * (c * h))
    BY <1>2, <1>3, <1>4
  <2> QED
    BY <1>2, <1>4, <2>1
<1> QED
  BY <1>5 DEF Replaced, a, c, w, lo, h, m, n

\* new is v with k bits from i on that are those of u.
Stores(new, v, i, k, u) ==
  /\ new \in Nat
  /\ \A j \in Nat :
       Bit(new, j) = IF j \in i..(i + k - 1) THEN Bit(u, j - i) ELSE Bit(v, j)

LEMMA ReplacedBits ==
  ASSUME NEW v \in Nat, NEW u \in Nat, NEW i \in Nat, NEW k \in Nat
  PROVE  Stores(Replaced(v, i, k, u), v, i, k, u)
<1> DEFINE a == Pow2[i]
           c == Pow2[k]
           w == v \div a
           lo == v % a
           h == w \div c
           m == w % c
           n == u % c
           g == u \div c
           x == n + c * h
           new == Replaced(v, i, k, u)
<1>1. a \in Nat \ {0} /\ c \in Nat \ {0}
  BY Pow2Type
<1>2. new = lo + a * x
  BY ReplacedParts
<1> HIDE DEF a, c, new
<1>3. w \in Nat /\ lo \in 0..(a - 1) /\ v = lo + a * w
  BY <1>1, DivMod
<1> HIDE DEF w, lo
<1>4. /\ h \in Nat /\ m \in 0..(c - 1) /\ w = m + c * h
      /\ g \in Nat /\ n \in 0..(c - 1) /\ u = n + c * g
  BY <1>1, <1>3, DivMod
<1> HIDE DEF h, m, n, g
<1>5. x \in Nat
  BY <1>1, <1>4
<1>6. x \div c = h /\ w \div c = h
  BY <1>1, <1>4, DivUnique
<1>7. \A j \in Nat : j < k => Bit(x, j) = Bit(n, j) /\ Bit(u, j) = Bit(n, j)
  <2> SUFFICES ASSUME NEW j \in Nat, j < k
               PROVE  Bit(x, j) = Bit(n, j) /\ Bit(u, j) = Bit(n, j)
    OBVIOUS
  <2>1. n \in Nat
    BY <1>1, <1>4
  <2>2. Bit(n + c * h, j) = Bit(n, j) /\ Bit(n + c * g, j) = Bit(n, j)
    BY <1>4, <2>1, BitBelow DEF c
  <2> QED
    BY <1>4, <2>2
<1> HIDE DEF x
<1>8. new \in Nat /\ new \div a = x /\ v \div a = w
  <2>1. lo \in Nat /\ a * x \in Nat
    BY <1>1, <1>3, <1>5
  <2>2. (lo + a * x) \div a = x /\ (lo + a * w) \div a = w
    BY <1>1, <1>3, <1>5, DivUnique
  <2> QED
    BY <1>2, <1>3, <2>1, <2>2
<1>9. ASSUME NEW j \in Nat
      PROVE  Bit(new, j) = IF j \in i..(i + k - 1) THEN Bit(u, j - i) ELSE Bit(v, j)
  <2>1. CASE j < i
    <3>1. lo \in Nat
      BY <1>1, <1>3
    <3>2. Bit(lo + a * x, j) = Bit(lo, j) /\ Bit(lo + a * w, j) = Bit(lo, j)
      BY <1>3, <1>5, <2>1, <3>1, BitBelow DEF a
    <3>3. j \notin i..(i + k - 1)
      BY <2>1
    <3> QED
      BY <1>2, <1>3, <3>2, <3>3
  <2>2. CASE j >= i
    <3> DEFINE d == j - i
    <3>1. d \in Nat /\ j = i + d /\ (j \in i..(i + k - 1) <=> d < k)
      BY <2>2
    <3> HIDE DEF d
    <3>2. Bit(new, j) = Bit(x, d) /\ Bit(v, j) = Bit(w, d)
      <4>1. Bit(new, i + d) = Bit(new \div Pow2[i], d)
        BY <1>8, <3>1, BitAbove
      <4>2. Bit(v, i + d) = Bit(v \div Pow2[i], d)
        BY <3>1, BitAbove
      <4>3. Bit(new, i + d) = Bit(x, d) /\ Bit(v, i + d) = Bit(w, d)
        BY <1>8, <4>1, <4>2 DEF a
      <4> QED
        BY <3>1, <4>3
    <3>3. CASE d < k
      BY <1>7, <3>1, <3>2, <3>3 DEF d
    <3>4. CASE d >= k
      <4>1. d - k \in Nat /\ d = k + (d - k)
        BY <3>1, <3>4
      <4>2. Bit(x, d) = Bit(h, d - k) /\ Bit(w, d) = Bit(h, d - k)
        BY <1>3, <1>5, <1>6, <4>1, BitAbove DEF c
      <4> QED
        BY <3>1, <3>2, <3>4, <4>2
    <3> QED
      BY <3>1, <3>3, <3>4
  <2> QED
    BY <2>1, <2>2
<1> QED
  BY <1>8, <1>9 DEF new, Stores

-----------------------------------------------------------------------------
(* The loops.                                                              *)

LEMMA Pow2Of8 == Pow2[8] = 256
<1> DEFINE P(n) == Pow2[n]
<1>1. P(0) = 1 /\ \A n \in Nat : P(n + 1) = 2 * P(n)
  BY Pow2Step
<1> HIDE DEF P
<1>2. /\ P(1) = 2 * P(0) /\ P(2) = 2 * P(1) /\ P(3) = 2 * P(2) /\ P(4) = 2 * P(3)
  <2>1. P(0 + 1) = 2 * P(0) /\ P(1 + 1) = 2 * P(1) /\ P(2 + 1) = 2 * P(2)
        /\ P(3 + 1) = 2 * P(3)
    BY <1>1
  <2> QED
    BY <2>1
<1>3. /\ P(5) = 2 * P(4) /\ P(6) = 2 * P(5) /\ P(7) = 2 * P(6) /\ P(8) = 2 * P(7)
  <2>1. P(4 + 1) = 2 * P(4) /\ P(5 + 1) = 2 * P(5) /\ P(6 + 1) = 2 * P(6)
        /\ P(7 + 1) = 2 * P(7)
    BY <1>1
  <2> QED
    BY <2>1
<1>4. P(8) = 256
  BY <1>1, <1>2, <1>3
<1> QED
  BY <1>4 DEF P

\* Bits of two bytes in a row are those of the number they make.
LEMMA TwoBytes ==
  ASSUME NEW b0 \in Byte, NEW b1 \in Byte, NEW j \in 0..15
  PROVE  /\ b0 + 256 * b1 \in Nat
         /\ Bit(b0 + 256 * b1, j) = Bit(<<b0, b1>>[(j \div 8) + 1], j % 8)
<1>1. /\ b0 \in Nat /\ b1 \in Nat /\ b0 \in 0..(256 - 1) /\ b0 + 256 * b1 \in Nat
      /\ j \in Nat
  BY DEF Byte
<1>2. CASE j < 8
  <2>1. Bit(b0 + Pow2[8] * b1, j) = Bit(b0, j)
    BY <1>1, <1>2, BitBelow
  <2>2. j \div 8 = 0 /\ j % 8 = j
    BY <1>1, <1>2
  <2> QED
    BY <1>1, <2>1, <2>2, Pow2Of8
<1>3. CASE j >= 8
  <2>1. (b0 + 256 * b1) \div 256 = b1
    BY <1>1, DivUnique
  <2>2. j - 8 \in Nat /\ j = 8 + (j - 8)
    BY <1>1, <1>3
  <2>3. Bit(b0 + 256 * b1, 8 + (j - 8)) = Bit((b0 + 256 * b1) \div Pow2[8], j - 8)
    BY <1>1, <2>2, BitAbove
  <2>4. j \div 8 = 1 /\ j % 8 = j - 8
    BY <1>1, <1>3
  <2> QED
    BY <1>1, <2>1, <2>2, <2>3, <2>4, Pow2Of8
<1> QED
  BY <1>1, <1>2, <1>3

\* The values that value takes in tta_get_byte_from_bits, one after each turn.
Sums(src, idx, n, f) ==
  f = [i \in 0..n |->
         IF i = 0 THEN 0 ELSE f[i - 1] + src[idx + i - 1] * Pow2[i - 1]]

LEMMA SumsExist ==
  ASSUME NEW src, NEW idx
  PROVE  \A n \in Nat : \E f : Sums(src, idx, n, f)
<1> DEFINE S == {n \in Nat : \E f : Sums(src, idx, n, f)}
           Term(i) == src[idx + i - 1] * Pow2[i - 1]
<1>1. 0 \in S
  <2> DEFINE f == [i \in 0..0 |-> 0]
  <2>1. f = [i \in 0..0 |-> IF i = 0 THEN 0 ELSE f[i - 1] + Term(i)]
    OBVIOUS
  <2> HIDE DEF f
  <2> QED
    BY <2>1 DEF Sums
<1>2. ASSUME NEW n \in Nat, n \in S PROVE n + 1 \in S
  <2>1. PICK f : f = [i \in 0..n |-> IF i = 0 THEN 0 ELSE f[i - 1] + Term(i)]
    BY <1>2 DEF Sums
  <2> HIDE DEF Term
  <2> DEFINE g == [i \in 0..(n + 1) |-> IF i = n + 1 THEN f[n] + Term(n + 1) ELSE f[i]]
  <2>2. ASSUME NEW i \in 0..(n + 1)
        PROVE  g[i] = IF i = 0 THEN 0 ELSE g[i - 1] + Term(i)
    <3>1. CASE i = 0
      BY <2>1, <3>1
    <3>2. CASE i = n + 1
      <4>1. i # 0 /\ i - 1 = n /\ n \in 0..(n + 1) /\ n # n + 1
        BY <3>2
      <4> QED
        BY <3>2, <4>1
    <3>3. CASE i # 0 /\ i # n + 1
      <4>1. i \in 0..n /\ i - 1 \in 0..(n + 1) /\ i - 1 # n + 1
        BY <3>3
      <4>2. f[i] = f[i - 1] + Term(i)
        BY <2>1, <3>3, <4>1
      <4> QED
        BY <3>3, <4>1, <4>2
    <3> QED
      BY <3>1, <3>2, <3>3
  <2>3. g = [i \in 0..(n + 1) |-> g[i]]
    OBVIOUS
  <2> HIDE DEF g
  <2>4. g = [i \in 0..(n + 1) |-> IF i = 0 THEN 0 ELSE g[i - 1] + Term(i)]
    BY <2>2, <2>3
  <2> QED
    BY <2>4 DEF Sums, Term
<1> HIDE DEF S
<1>3. \A n \in Nat : n \in S
  BY <1>1, <1>2, Induction
<1> QED
  BY <1>3 DEF S

LEMMA ByteIsSum ==
  ASSUME NEW src, NEW idx, NEW k
  PROVE  \E f : Sums(src, idx, 8, f) /\ ByteFromBits(src, idx, k) = f[k]
<1> DEFINE value == CHOOSE f : Sums(src, idx, 8, f)
<1>1. Sums(src, idx, 8, value)
  BY SumsExist
<1>2. ByteFromBits(src, idx, k) = value[k]
  BY DEF ByteFromBits, Sums
<1> QED
  BY <1>1, <1>2

LEMMA SumIsLow ==
  ASSUME NEW src, NEW idx \in Nat, NEW w \in Nat, NEW k \in 0..8,
         \A m \in 0..(k - 1) : src[idx + m] = Bit(w, m)
  PROVE  ByteFromBits(src, idx, k) = w % Pow2[k]
<1>1. PICK f : Sums(src, idx, 8, f) /\ ByteFromBits(src, idx, k) = f[k]
  BY ByteIsSum
<1> DEFINE S == {m \in Nat : m <= k => f[m] = w % Pow2[m]}
<1>2. 0 \in S
  <2>1. f[0] = 0
    BY <1>1 DEF Sums
  <2>2. w % Pow2[0] = 0
    BY Pow2Step
  <2> QED
    BY <2>1, <2>2
<1>3. ASSUME NEW m \in Nat, m \in S PROVE m + 1 \in S
  <2> SUFFICES ASSUME m + 1 <= k PROVE f[m + 1] = w % Pow2[m + 1]
    OBVIOUS
  <2>1. /\ m + 1 \in 0..8 /\ m + 1 # 0 /\ (m + 1) - 1 = m
        /\ idx + (m + 1) - 1 = idx + m /\ m \in 0..(k - 1)
    OBVIOUS
  <2>2. f[m + 1] = f[(m + 1) - 1] + src[idx + (m + 1) - 1] * Pow2[(m + 1) - 1]
    BY <1>1, <2>1 DEF Sums
  <2>3. f[m + 1] = f[m] + src[idx + m] * Pow2[m]
    BY <2>1, <2>2
  <2>4. f[m] = w % Pow2[m] /\ src[idx + m] = Bit(w, m)
    BY <1>3, <2>1
  <2> QED
    BY <2>3, <2>4, LowBits
<1> HIDE DEF S
<1>4. \A m \in Nat : m \in S
  BY <1>2, <1>3, Induction
<1>5. f[k] = w % Pow2[k]
  BY <1>4 DEF S
<1> QED
  BY <1>1, <1>5

-----------------------------------------------------------------------------
(* The bit array and the number.                                           *)

BitInv ==
  /\ num \in Nat
  /\ DOMAIN bits = 0..(Length - 1)
  /\ \A j \in 0..(Length - 1) : bits[j] = Bit(num, j)

LEMMA BitInit == DataInit => BitInv
<1> SUFFICES ASSUME DataInit PROVE BitInv
  OBVIOUS
<1>1. ASSUME NEW j \in 0..(Length - 1) PROVE Bit(0, j) = 0
  <2> DEFINE a == Pow2[j]
  <2>1. a \in Nat \ {0}
    BY DataAssumption, Pow2Type
  <2> HIDE DEF a
  <2>2. 0 \div a = 0
    BY <2>1
  <2> QED
    BY <2>2 DEF Bit, a
<1> QED
  BY <1>1 DEF DataInit, BitInv

LEMMA ByteStep ==
  ASSUME BitInv, NEW i \in 0..Length, NEW v \in Values, tta_set_bits_from_byte(i, v)
  PROVE  BitInv'
<1>1. Length \in Nat /\ i \in Nat /\ v \in Nat /\ num \in Nat
  BY DataAssumption DEF BitInv, Byte
<1>2. num' = Replaced(num, i, 8, v) /\ bits' = FromByte(bits, i, v)
  BY DEF tta_set_bits_from_byte
<1>3. /\ num' \in Nat
      /\ \A j \in Nat : Bit(num', j) = IF j \in i..(i + 7) THEN Bit(v, j - i)
                                                         ELSE Bit(num, j)
  <2>1. Stores(num', num, i, 8, v)
    BY <1>1, <1>2, ReplacedBits
  <2>2. i + 8 - 1 = i + 7
    BY <1>1
  <2> QED
    BY <2>1, <2>2 DEF Stores
<1>4. /\ DOMAIN bits' = 0..(Length - 1)
      /\ \A j \in 0..(Length - 1) :
           bits'[j] = IF j \in i..(i + 7) THEN Bit(v, j - i) ELSE Bit(num, j)
  BY <1>2 DEF FromByte, BitInv
<1>5. \A j \in 0..(Length - 1) : bits'[j] = Bit(num', j)
  BY <1>1, <1>3, <1>4
<1> QED
  BY <1>3, <1>4, <1>5 DEF BitInv

LEMMA BytesStep ==
  ASSUME BitInv, NEW i \in 0..Length, NEW k \in 0..Length,
         NEW b0 \in Values, NEW b1 \in Values, tta_set_bits_from_bytes(i, k, b0, b1)
  PROVE  BitInv'
<1> DEFINE u == b0 + 256 * b1
<1>1. /\ Length \in Nat /\ i \in Nat /\ k \in Nat /\ num \in Nat
      /\ b0 \in Byte /\ b1 \in Byte /\ u \in Nat
  <2>1. Length \in Nat /\ i \in Nat /\ k \in Nat /\ b0 \in Byte /\ b1 \in Byte
    BY DataAssumption
  <2>2. u \in Nat
    BY <2>1 DEF Byte
  <2> QED
    BY <2>1, <2>2 DEF BitInv
<1>2. /\ k <= 16 /\ num' = Replaced(num, i, k, u)
      /\ bits' = FromBytes(bits, i, k, <<b0, b1>>)
  BY DEF tta_set_bits_from_bytes
<1>3. ASSUME NEW d \in 0..15
      PROVE  Bit(<<b0, b1>>[(d \div 8) + 1], d % 8) = Bit(u, d)
  BY <1>1, TwoBytes
<1> HIDE DEF u
<1>4. /\ num' \in Nat
      /\ \A j \in Nat : Bit(num', j) = IF j \in i..(i + k - 1) THEN Bit(u, j - i)
                                                             ELSE Bit(num, j)
  <2>1. Stores(num', num, i, k, u)
    BY <1>1, <1>2, ReplacedBits
  <2> QED
    BY <2>1 DEF Stores
<1>5. /\ DOMAIN bits' = 0..(Length - 1)
      /\ \A j \in 0..(Length - 1) :
           bits'[j] = IF j \in i..(i + k - 1)
                        THEN Bit(<<b0, b1>>[((j - i) \div 8) + 1], (j - i) % 8)
                        ELSE Bit(num, j)
  BY <1>2 DEF FromBytes, BitInv
<1>6. ASSUME NEW j \in 0..(Length - 1) PROVE bits'[j] = Bit(num', j)
  <2>1. j \in Nat
    BY <1>1
  <2>2. CASE j \in i..(i + k - 1)
    <3>1. j - i \in 0..15
      BY <1>1, <1>2, <2>1, <2>2
    <3>2. bits'[j] = Bit(<<b0, b1>>[((j - i) \div 8) + 1], (j - i) % 8)
      BY <1>5, <2>2
    <3>3. bits'[j] = Bit(u, j - i)
      BY <1>3, <3>1, <3>2
    <3> QED
      BY <1>4, <2>1, <2>2, <3>3
  <2>3. CASE j \notin i..(i + k - 1)
    BY <1>4, <1>5, <2>1, <2>3
  <2> QED
    BY <2>2, <2>3
<1> QED
  BY <1>4, <1>5, <1>6 DEF BitInv

LEMMA BitsAreNumber == BitInv => BytesAreNumber
<1> SUFFICES ASSUME BitInv, NEW i \in 0..Length, NEW k \in 0..8, i + k <= Length
             PROVE  ByteFromBits(bits, i, k) = (num \div Pow2[i]) % Pow2[k]
  BY DEF BytesAreNumber
<1>1. Length \in Nat /\ i \in Nat /\ num \in Nat
  BY DataAssumption DEF BitInv
<1>2. num \div Pow2[i] \in Nat
  BY <1>1, Pow2Type, DivMod
<1>3. ASSUME NEW m \in 0..(k - 1) PROVE bits[i + m] = Bit(num \div Pow2[i], m)
  <2>1. i + m \in 0..(Length - 1) /\ m \in Nat
    BY <1>1
  <2>2. bits[i + m] = Bit(num, i + m)
    BY <2>1 DEF BitInv
  <2> QED
    BY <1>1, <2>1, <2>2, BitAbove
<1> QED
  BY <1>1, <1>2, <1>3, SumIsLow

-----------------------------------------------------------------------------
(* Floats.                                                                 *)

FourBytes == Byte \X Byte \X Byte \X Byte

\* The words are those of the float last stored.
FloatInv ==
  /\ set[1] \in FourBytes /\ set[2] \in {"abcd", "dcba"}
  /\ words = Words(IF set[2] = "abcd" THEN set[1] ELSE bswap_32(set[1]))

\* Two bytes in a word, the high one first.
LEMMA Halves ==
  ASSUME NEW hi \in Byte, NEW lo \in Byte
  PROVE  (hi * 256 + lo) \div 256 = hi /\ (hi * 256 + lo) % 256 = lo
  BY DEF Byte

LEMMA FloatBack ==
  ASSUME NEW f \in FourBytes
  PROVE  FloatOf(Words(f)) = f
<1>1. /\ f[1] \in Byte /\ f[2] \in Byte /\ f[3] \in Byte /\ f[4] \in Byte
      /\ f = <<f[1], f[2], f[3], f[4]>>
  BY DEF FourBytes
<1>2. /\ Words(f)[1] \div 256 = f[3] /\ Words(f)[1] % 256 = f[4]
      /\ Words(f)[2] \div 256 = f[1] /\ Words(f)[2] % 256 = f[2]
  BY <1>1, Halves DEF Words
<1> QED
  BY <1>1, <1>2 DEF FloatOf

LEMMA FloatSwapped ==
  ASSUME NEW f \in FourBytes
  PROVE  bswap_32(f) \in FourBytes /\ bswap_32(bswap_32(f)) = f
  BY DEF FourBytes, bswap_32

-----------------------------------------------------------------------------

\* What the helpers store they find again, in bit arrays of every length: the
\* loops of tta_set_bits_from_byte, tta_set_bits_from_bytes and
\* tta_get_byte_from_bits agree on the number, leave the bits beside alone, and
\* the float functions give back what was stored in the same order.
THEOREM StoredIsFound == DataSpec => []StoredIsKept
<1>1. DataInit => BitInv /\ FloatInv
  <2>1. DataInit => FloatInv
    BY DEF DataInit, FloatInv, FourBytes, Byte, Words
  <2> QED
    BY <2>1, BitInit
<1>2. (BitInv /\ FloatInv) /\ [DataNext]_dataVars => (BitInv /\ FloatInv)'
  <2> SUFFICES ASSUME BitInv, FloatInv, [DataNext]_dataVars PROVE (BitInv /\ FloatInv)'
    OBVIOUS
  <2> USE DEF bitVars, floatVars, dataVars
  <2>1. ASSUME NEW i \in 0..Length, NEW v \in Values, tta_set_bits_from_byte(i, v)
        PROVE  (BitInv /\ FloatInv)'
    <3>1. BitInv'
      BY <2>1, ByteStep
    <3>2. FloatInv'
      BY <2>1 DEF tta_set_bits_from_byte, FloatInv
    <3> QED
      BY <3>1, <3>2
  <2>2. ASSUME NEW i \in 0..Length, NEW k \in 0..Length, NEW u \in Values,
               NEW v \in Values, tta_set_bits_from_bytes(i, k, u, v)
        PROVE  (BitInv /\ FloatInv)'
    <3>1. BitInv'
      BY <2>2, BytesStep
    <3>2. FloatInv'
      BY <2>2 DEF tta_set_bits_from_bytes, FloatInv
    <3> QED
      BY <3>1, <3>2
  <2>3. ASSUME NEW f \in Floats, tta_set_float(f) \/ tta_set_float_dcba(f)
        PROVE  (BitInv /\ FloatInv)'
    <3>1. FloatInv'
      BY <2>3, DataAssumption DEF tta_set_float, tta_set_float_dcba, FloatInv, FourBytes
    <3>2. BitInv'
      BY <2>3 DEF tta_set_float, tta_set_float_dcba, BitInv
    <3> QED
      BY <3>1, <3>2
  <2>4. CASE UNCHANGED dataVars
    BY <2>4 DEF BitInv, FloatInv
  <2> QED
    BY <2>1, <2>2, <2>3, <2>4 DEF DataNext
<1>3. FloatInv => FloatKept
  <2> SUFFICES ASSUME FloatInv PROVE GetFloat(words, set[2]) = set[1]
    BY DEF FloatKept
  <2>1. CASE set[2] = "abcd"
    BY <2>1, FloatBack DEF FloatInv, GetFloat
  <2>2. CASE set[2] = "dcba"
    BY <2>2, FloatBack, FloatSwapped DEF FloatInv, GetFloat
  <2> QED
    BY <2>1, <2>2 DEF FloatInv
<1>4. BitInv /\ FloatInv => StoredIsKept
  BY <1>3, BitsAreNumber DEF StoredIsKept
<1> QED
  BY <1>1, <1>2, <1>4, PTL DEF DataSpec

=============================================================================
