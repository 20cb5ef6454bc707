--------------------------- MODULE PublishProofs ---------------------------
(***************************************************************************)
(* Publish for every value and every width of stamps and doubles: its      *)
(* types, that the values survive, and that the times of samples are in    *)
(* order and close to their stamps.                                        *)
(***************************************************************************)
EXTENDS Publish, SequenceTheorems, WellFoundedInduction, TLAPS

-----------------------------------------------------------------------------
(* Induction over the natural numbers, without an operator for a parameter. *)

(* A set of numbers that is not empty has a least one. *)
LEMMA Least ==
    ASSUME NEW T \in SUBSET Nat, T # {}
    PROVE  \E x \in T : \A y \in T : x <= y
PROOF
  <1>1. PICK R : R = OpToRel(<, Nat)
    OBVIOUS
  <1>2. IsWellFoundedOn(R, Nat)
    BY <1>1, NatLessThanWellFounded
  <1>3. PICK x \in T : \A y \in T : ~ (<<y, x>> \in R)
    BY <1>2, WFMin
  <1>4. \A a, b \in Nat : <<a, b>> \in R <=> a < b
    BY <1>1 DEF OpToRel
  <1>5. \A y \in T : ~(y < x) /\ x \in Nat /\ y \in Nat
    BY <1>3, <1>4
  <1> QED
    BY <1>5

(* A set with 0 and with the next of each of its numbers has all of them. *)
LEMMA Induction ==
    ASSUME NEW T, 0 \in T, \A n \in Nat : n \in T => n + 1 \in T
    PROVE  \A n \in Nat : n \in T
PROOF
  <1> SUFFICES ASSUME Nat \ T # {}
               PROVE  FALSE
    OBVIOUS
  <1>1. PICK x \in Nat \ T : \A y \in Nat \ T : x <= y
    BY Least
  <1>2. x - 1 \in Nat /\ x - 1 \in T
    BY <1>1
  <1> QED
    BY <1>1, <1>2

(* Functions by recursion: with f[0] = b, and f[n + 1] = g[n, f[n]].        *)
Approximates(f, b, g, n) ==
    f[0] = b /\ \A k \in 0..(n - 1) : f[k + 1] = g[<<k, f[k]>>]

Step(S) == [Nat \X S -> S]
Recursive(f, S, b, g) ==
    f \in [Nat -> S] /\ f[0] = b /\ \A n \in Nat : f[n + 1] = g[<<n, f[n]>>]

(* A recursive definition over Nat has the function it describes. *)
LEMMA Recursion ==
    ASSUME NEW S, NEW b \in S, NEW g \in Step(S)
    PROVE  \E f : Recursive(f, S, b, g)
PROOF
  <1> USE DEF Step
  <1> DEFINE Part(n) == {f \in [Nat -> S] : Approximates(f, b, g, n)}
             T == {n \in Nat : \E f \in Part(n) : TRUE}
             U(n) == {k \in Nat : k <= n => \A f, h \in Part(n) : f[k] = h[k]}
  <1>1. 0 \in T
    <2>1. [n \in Nat |-> b] \in Part(0)
      BY DEF Approximates
    <2> QED
      BY <2>1
  <1>2. \A n \in Nat : n \in T => n + 1 \in T
    <2> SUFFICES ASSUME NEW n \in Nat, NEW f \in Part(n)
                 PROVE  \E h \in Part(n + 1) : TRUE
      OBVIOUS
    <2>1. PICK h : h = [f EXCEPT ![n + 1] = g[<<n, f[n]>>]]
      OBVIOUS
    <2>2. h \in [Nat -> S] /\ h[0] = b
      BY <2>1 DEF Approximates
    <2>3. \A k \in 0..n : h[k + 1] = g[<<k, h[k]>>]
      BY <2>1 DEF Approximates
    <2> QED
      BY <2>2, <2>3 DEF Approximates
  <1>3. \A n \in Nat : n \in T
    <2> HIDE DEF T
    <2> QED
      BY <1>1, <1>2, Induction
  <1>4. \A n \in Nat : \A k \in Nat : k \in U(n)
    <2> SUFFICES ASSUME NEW n \in Nat
                 PROVE  \A k \in Nat : k \in U(n)
      OBVIOUS
    <2>1. 0 \in U(n)
      BY DEF Approximates
    <2>2. ASSUME NEW k \in Nat, k \in U(n), k + 1 <= n, NEW f \in Part(n), NEW h \in Part(n)
          PROVE  f[k + 1] = h[k + 1]
      <3>1. f[k] = h[k]
        BY <2>2
      <3>2. f[k + 1] = g[<<k, f[k]>>] /\ h[k + 1] = g[<<k, h[k]>>]
        BY <2>2 DEF Approximates
      <3> QED
        BY <3>1, <3>2
    <2>3. \A k \in Nat : k \in U(n) => k + 1 \in U(n)
      BY <2>2
    <2> HIDE DEF U
    <2> QED
      BY <2>1, <2>3, Induction
  <1>5. \A n \in Nat : \E f \in Part(n) : TRUE
    BY <1>3
  <1>6. PICK p : p = [n \in Nat |-> CHOOSE f \in Part(n) : TRUE]
    OBVIOUS
  <1>7. \A n \in Nat : p[n] \in Part(n)
    BY <1>5, <1>6
  <1>8. PICK f : f = [n \in Nat |-> p[n][n]]
    OBVIOUS
  <1>9. f \in [Nat -> S] /\ f[0] = b
    BY <1>7, <1>8 DEF Approximates
  <1>10. ASSUME NEW n \in Nat
         PROVE  f[n + 1] = g[<<n, f[n]>>]
    <2>1. p[n + 1] \in Part(n)
      BY <1>7 DEF Approximates
    <2>2. p[n + 1][n] = p[n][n]
      BY <2>1, <1>7, <1>4
    <2>3. p[n + 1][n + 1] = g[<<n, p[n + 1][n]>>]
      BY <1>7 DEF Approximates
    <2> QED
      BY <2>2, <2>3, <1>8
  <1> QED
    BY <1>9, <1>10 DEF Recursive

-----------------------------------------------------------------------------
(* Powers of two. *)

(* The equation that defines pow2. *)
LEMMA PowEquation ==
    pow2[0] = 1 /\ \A k \in Nat : pow2[k + 1] = 2 * pow2[k] /\ pow2[k] \in Nat
PROOF
  <1>1. PICK f \in [Nat -> Nat] : f[0] = 1 /\ \A n \in Nat : f[n + 1] = 2 * f[n]
    <2>1. PICK S, b, g : S = Nat /\ b = 1 /\ g = [p \in Nat \X Nat |-> 2 * p[2]]
      OBVIOUS
    <2>2. b \in S /\ g \in Step(S)
      BY <2>1 DEF Step
    <2>3. PICK f : Recursive(f, S, b, g)
      BY <2>2, Recursion
    <2>4. f \in [Nat -> Nat] /\ f[0] = 1 /\ \A n \in Nat : f[n + 1] = g[<<n, f[n]>>]
      BY <2>1, <2>3 DEF Recursive
    <2>5. \A n \in Nat : f[n + 1] = 2 * f[n]
      BY <2>1, <2>4
    <2> QED
      BY <2>4, <2>5
  <1>3. f = [k \in Nat |-> IF k = 0 THEN 1 ELSE 2 * f[k - 1]]
    <2>1. \A k \in Nat \ {0} : f[k] = 2 * f[k - 1]
      <3> SUFFICES ASSUME NEW k \in Nat \ {0}
                   PROVE  f[k] = 2 * f[k - 1]
        OBVIOUS
      <3>1. k - 1 \in Nat /\ (k - 1) + 1 = k
        OBVIOUS
      <3> QED
        BY <1>1, <3>1
    <2> QED
      BY <1>1, <2>1
  <1>4. pow2 = [k \in Nat |-> IF k = 0 THEN 1 ELSE 2 * pow2[k - 1]]
    BY <1>3 DEF pow2
  <1>5. pow2[0] = 1 /\ \A k \in Nat : pow2[k + 1] = 2 * pow2[k]
    <2>1. \A k \in Nat : k + 1 \in Nat /\ k + 1 # 0 /\ (k + 1) - 1 = k
      OBVIOUS
    <2> QED
      BY <1>4, <2>1
  <1>6. \A k \in Nat : pow2[k] \in Nat
    <2> DEFINE T == {k \in Nat : pow2[k] \in Nat}
    <2>1. 0 \in T /\ \A n \in Nat : n \in T => n + 1 \in T
      BY <1>5
    <2> HIDE DEF T
    <2>2. \A n \in Nat : n \in T
      BY <2>1, Induction
    <2> QED
      BY <2>2 DEF T
  <1> QED
    BY <1>5, <1>6

LEMMA PowPositive == \A k \in Nat : pow2[k] \in Nat /\ pow2[k] >= 1
PROOF
  <1> DEFINE T == {k \in Nat : pow2[k] >= 1}
  <1>1. 0 \in T /\ \A n \in Nat : n \in T => n + 1 \in T
    BY PowEquation
  <1> HIDE DEF T
  <1>2. \A n \in Nat : n \in T
    BY <1>1, Induction
  <1> QED
    BY <1>2, PowEquation DEF T

LEMMA PowAdd == \A j, k \in Nat : pow2[j + k] = pow2[j] * pow2[k]
PROOF
  <1> SUFFICES ASSUME NEW j \in Nat
               PROVE  \A k \in Nat : pow2[j + k] = pow2[j] * pow2[k]
    OBVIOUS
  <1> DEFINE T == {k \in Nat : pow2[j + k] = pow2[j] * pow2[k]}
  <1>1. 0 \in T
    BY PowEquation
  <1>2. ASSUME NEW k \in Nat, k \in T
        PROVE  k + 1 \in T
    <2>1. pow2[j + (k + 1)] = 2 * pow2[j + k]
      <3>1. j + (k + 1) = (j + k) + 1 /\ j + k \in Nat
        OBVIOUS
      <3> QED
        BY <3>1, PowEquation
    <2>2. pow2[j] * pow2[k + 1] = 2 * (pow2[j] * pow2[k])
      <3>1. pow2[k + 1] = 2 * pow2[k] /\ pow2[j] \in Nat /\ pow2[k] \in Nat
        BY PowEquation
      <3> QED
        BY <3>1
    <2> QED
      BY <1>2, <2>1, <2>2
  <1> HIDE DEF T
  <1>3. \A k \in Nat : k \in T
    BY <1>1, <1>2, Induction
  <1> QED
    BY <1>3 DEF T

IsSum(e, j, k) == e = j + k

(* The same, for a sum that has a name. *)
LEMMA PowSum ==
    ASSUME NEW j \in Nat, NEW k \in Nat, NEW e, IsSum(e, j, k)
    PROVE  /\ pow2[j] \in Nat /\ pow2[k] \in Nat /\ pow2[e] \in Nat
           /\ pow2[j] >= 1 /\ pow2[k] >= 1 /\ pow2[e] >= 1
           /\ pow2[e] = pow2[j] * pow2[k]
PROOF
  <1>1. e = j + k /\ e \in Nat
    BY DEF IsSum
  <1>2. pow2[j + k] = pow2[j] * pow2[k]
    BY PowAdd
  <1> QED
    BY <1>1, <1>2, PowPositive

LEMMA PowMono == \A j, k \in Nat : j <= k => pow2[j] <= pow2[k]
PROOF
  <1> SUFFICES ASSUME NEW j \in Nat, NEW k \in Nat, j <= k
               PROVE  pow2[j] <= pow2[k]
    OBVIOUS
  <1>1. k - j \in Nat /\ j + (k - j) = k
    OBVIOUS
  <1>2. pow2[k] = pow2[j] * pow2[k - j]
    BY <1>1, PowAdd
  <1>3. pow2[j] \in Nat /\ pow2[k - j] \in Nat /\ pow2[k - j] >= 1
    BY <1>1, PowPositive
  <1> QED
    BY <1>2, <1>3

(* The powers are in the order of their exponents. *)
LEMMA PowOrder == \A j, k \in Nat : pow2[j] <= pow2[k] => j <= k
PROOF
  <1> SUFFICES ASSUME NEW j \in Nat, NEW k \in Nat, k < j
               PROVE  pow2[k] < pow2[j]
    BY PowPositive
  <1>1. pow2[k + 1] <= pow2[j]
    BY PowMono
  <1>2. pow2[k + 1] = 2 * pow2[k] /\ pow2[k] \in Nat /\ pow2[k] >= 1 /\ pow2[j] \in Nat
    BY PowEquation, PowPositive
  <1> QED
    BY <1>1, <1>2

-----------------------------------------------------------------------------
(* Products and quotients. *)

LEMMA Product == \A a, b \in Nat : a * b \in Nat /\ a * b = b * a
OBVIOUS

LEMMA Positive == \A a, b \in Nat : a >= 1 /\ b >= 1 => a * b >= a /\ a * b >= 1
OBVIOUS

LEMMA TimesNext == \A a, b \in Nat : (a + 1) * b = a * b + b
OBVIOUS

LEMMA TimesMono == \A a, b, c \in Nat : a <= b => a * c <= b * c
OBVIOUS

LEMMA TimesCancel == \A a, b, c \in Nat : a * c <= b * c /\ c >= 1 => a <= b
OBVIOUS

LEMMA TimesStrict == \A a, b, c \in Nat : a * c < b * c => a < b
OBVIOUS

(* Quotient and remainder, as the provers use them. *)
LEMMA DivMod ==
    \A a, b \in Nat : b >= 1 =>
        /\ a \div b \in Nat /\ a % b \in Nat
        /\ a = b * (a \div b) + (a % b) /\ a % b < b
OBVIOUS

(* The quotient by its two bounds. *)
LEMMA Quotient ==
    ASSUME NEW a \in Nat, NEW b \in Nat, b >= 1, NEW m \in Nat, m * b <= a, a < (m + 1) * b
    PROVE  a \div b = m
PROOF
  <1>1. PICK q \in Nat, r \in Nat : q = a \div b /\ r < b /\ a = b * q + r
    BY DivMod
  <1>2. m * b < (q + 1) * b
    BY <1>1
  <1>3. q * b < (m + 1) * b
    BY <1>1
  <1>4. m < q + 1 /\ q < m + 1
    BY <1>2, <1>3, TimesStrict
  <1> QED
    BY <1>1, <1>4

(* Fractions in their order have quotients in their order. *)
LEMMA DivMono ==
    ASSUME NEW a \in Nat, NEW b \in Nat, NEW c \in Nat, NEW d \in Nat,
           b >= 1, d >= 1, a * d <= c * b
    PROVE  a \div b <= c \div d
PROOF
  <1>1. PICK m \in Nat, r \in Nat : m = a \div b /\ r < b /\ a = b * m + r
    BY DivMod
  <1>2. PICK k \in Nat, s \in Nat : k = c \div d /\ s < d /\ c = d * k + s
    BY DivMod
  <1>3. b * m <= a /\ c < d * (k + 1)
    BY <1>1, <1>2
  <1>4. (b * m) * d <= a * d
    BY <1>3, TimesMono, Product
  <1>5. c * b < (d * (k + 1)) * b
    BY <1>3
  <1>6. m * (b * d) < (k + 1) * (b * d)
    <2>1. (b * m) * d = m * (b * d) /\ (d * (k + 1)) * b = (k + 1) * (b * d)
      OBVIOUS
    <2> QED
      BY <2>1, <1>4, <1>5
  <1>7. m < k + 1
    BY <1>6, TimesStrict, Product
  <1> QED
    BY <1>1, <1>2, <1>7

(* Rounding to an integer keeps the order. *)
LEMMA NearestNat ==
    ASSUME NEW a \in Nat, NEW b \in Nat, b >= 1
    PROVE  Nearest(a, b) \in Nat /\ a \div b <= Nearest(a, b) /\ Nearest(a, b) <= a \div b + 1
PROOF
  <1>1. a \div b \in Nat
    BY DivMod
  <1> QED
    BY <1>1 DEF Nearest

(* A whole quotient is its own nearest integer. *)
LEMMA NearestExact ==
    ASSUME NEW b \in Nat, b >= 1, NEW m \in Nat
    PROVE  Nearest(m * b, b) = m
PROOF
  <1>1. m * b \in Nat /\ m * b <= m * b /\ m * b < (m + 1) * b
    OBVIOUS
  <1>2. (m * b) \div b = m
    BY <1>1, Quotient
  <1>3. (m * b) % b = 0
    BY <1>1, <1>2, DivMod
  <1> QED
    BY <1>2, <1>3 DEF Nearest

(* How far rounding goes, and where it goes on a tie. *)
LEMMA NearestBounds ==
    ASSUME NEW a \in Nat, NEW b \in Nat, b >= 1
    PROVE  /\ 2 * (Nearest(a, b) * b) <= 2 * a + b
           /\ 2 * a <= 2 * (Nearest(a, b) * b) + b
           /\ 2 * (Nearest(a, b) * b) = 2 * a + b => Nearest(a, b) % 2 = 0
           /\ 2 * a = 2 * (Nearest(a, b) * b) + b => Nearest(a, b) % 2 = 0
PROOF
  <1>1. PICK m \in Nat, r \in Nat : m = a \div b /\ r = a % b /\ r < b /\ a = m * b + r
    BY DivMod
  <1>2. PICK x : x = Nearest(a, b)
    OBVIOUS
  <1>3. CASE 2 * r > b \/ (2 * r = b /\ m % 2 = 1)
    <2>1. x = m + 1
      BY <1>1, <1>2, <1>3 DEF Nearest
    <2>2. x * b = m * b + b
      BY <2>1
    <2>3. m % 2 = 1 => x % 2 = 0
      BY <2>1
    <2>4. m * b \in Nat
      OBVIOUS
    <2> QED
      BY <1>1, <1>2, <1>3, <2>2, <2>3, <2>4
  <1>4. CASE ~(2 * r > b \/ (2 * r = b /\ m % 2 = 1))
    <2>1. x = m
      BY <1>1, <1>2, <1>4 DEF Nearest
    <2>2. m % 2 # 1 => m % 2 = 0
      OBVIOUS
    <2>3. m * b \in Nat
      OBVIOUS
    <2> QED
      BY <1>1, <1>2, <1>4, <2>1, <2>2, <2>3
  <1> QED
    BY <1>3, <1>4

(* The nearest integer grows with the quotient. *)
LEMMA NearestMono ==
    ASSUME NEW a \in Nat, NEW b \in Nat, NEW c \in Nat, NEW d \in Nat,
           b >= 1, d >= 1, a * d <= c * b
    PROVE  Nearest(a, b) <= Nearest(c, d)
PROOF
  <1>1. PICK x \in Nat : x = Nearest(a, b)
    BY NearestNat
  <1>2. PICK y \in Nat : y = Nearest(c, d)
    BY NearestNat
  <1> SUFFICES ASSUME y + 1 <= x
               PROVE  FALSE
    BY <1>1, <1>2
  <1>3. /\ 2 * (x * b) <= 2 * a + b
        /\ 2 * (x * b) = 2 * a + b => x % 2 = 0
    BY <1>1, NearestBounds
  <1>4. /\ 2 * c <= 2 * (y * d) + d
        /\ 2 * c = 2 * (y * d) + d => y % 2 = 0
    BY <1>2, NearestBounds
  <1>5. PICK p \in Nat : p = b * d
    BY Product
  <1>6. PICK u \in Nat, v \in Nat : u = a * d /\ v = c * b
    BY Product
  <1>7. (2 * (x * b)) * d = 2 * (x * p) /\ (2 * a + b) * d = 2 * u + p
    BY <1>5, <1>6
  <1>8. (2 * c) * b = 2 * v /\ (2 * (y * d) + d) * b = 2 * (y * p) + p
    BY <1>5, <1>6
  <1>9. 2 * (x * p) <= 2 * u + p
    BY <1>3, <1>7, TimesMono, Product
  <1>10. 2 * v <= 2 * (y * p) + p
    BY <1>4, <1>8, TimesMono, Product
  <1>11. p >= 1 /\ u <= v
    BY <1>5, <1>6
  <1>12. (y + 1) * p <= x * p /\ (y + 1) * p = y * p + p /\ x * p \in Nat /\ y * p \in Nat
    BY TimesMono, Product
  <1>13. 2 * (x * p) = 2 * u + p /\ 2 * v = 2 * (y * p) + p /\ x * p = y * p + p
    BY <1>9, <1>10, <1>11, <1>12
  <1>14. x = y + 1
    <2>1. x * p <= (y + 1) * p
      BY <1>12, <1>13
    <2> QED
      BY <2>1, <1>11, TimesCancel
  <1>15. x % 2 = 0
    <2>1. (2 * (x * b)) * d = (2 * a + b) * d
      BY <1>7, <1>13
    <2>2. 2 * (x * b) = 2 * a + b
      BY <2>1
    <2> QED
      BY <2>2, <1>3
  <1>16. y % 2 = 0
    <2>1. (2 * c) * b = (2 * (y * d) + d) * b
      BY <1>8, <1>13
    <2>2. 2 * c = 2 * (y * d) + d
      BY <2>1
    <2> QED
      BY <2>2, <1>4
  <1> QED
    BY <1>14, <1>15, <1>16

-----------------------------------------------------------------------------
(* Rounding to a double. *)

Top == pow2[MaxExponent]

(* Not zero, and far from the ends of the exponents. *)
InRange(n, d) ==
    /\ n \in Nat /\ d \in Nat /\ n >= 1 /\ d >= 1
    /\ pow2[Mantissa - 1] * d <= n * Top
    /\ n <= Top * d

(* The double r is m in places of 2^p / 2^q. *)
Form(n, d, r, p, q, m) ==
    /\ p \in 0..MaxExponent /\ q \in 0..MaxExponent /\ (p = 0 \/ q = 0)
    /\ pow2[Mantissa - 1] * (d * pow2[p]) <= n * pow2[q]
    /\ n * pow2[q] < pow2[Mantissa] * (d * pow2[p])
    /\ m \in Nat /\ m = Nearest(n * pow2[q], d * pow2[p])
    /\ pow2[Mantissa - 1] <= m /\ m <= pow2[Mantissa]
    /\ r = Double(m * pow2[p], pow2[q])

(* The same in places that are all a multiple of the smallest one.         *)
Scaled(n, d, r, e, m) ==
    /\ e \in Nat
    /\ m \in Nat /\ pow2[Mantissa - 1] <= m /\ m <= pow2[Mantissa]
    /\ pow2[Mantissa - 1] * (d * pow2[e]) <= n * Top
    /\ n * Top < pow2[Mantissa] * (d * pow2[e])
    /\ r.num \in Nat /\ r.den \in Nat /\ r.den >= 1
    /\ r.num * Top = (m * pow2[e]) * r.den

(* What the assumptions say of the constants, for the provers. *)
LEMMA Widths ==
    /\ FracBits \in Nat /\ SecBits \in Nat /\ Mantissa \in Nat /\ PerSecond \in Nat
    /\ FracBits >= 1 /\ SecBits >= 1 /\ Mantissa >= 1 /\ PerSecond >= 1
    /\ MaxExponent \in Nat /\ Mantissa - 1 \in Nat
    /\ pow2[Mantissa] = 2 * pow2[Mantissa - 1]
    /\ Top \in Nat /\ Top >= 1
PROOF
  <1>1. /\ FracBits \in Nat /\ SecBits \in Nat /\ Mantissa \in Nat /\ PerSecond \in Nat
        /\ FracBits >= 1 /\ SecBits >= 1 /\ Mantissa >= 1 /\ PerSecond >= 1
    BY WidthAssumption
  <1>2. MaxExponent \in Nat
    BY ExponentAssumption
  <1>3. Mantissa - 1 \in Nat /\ (Mantissa - 1) + 1 = Mantissa
    BY <1>1
  <1>4. pow2[Mantissa] = 2 * pow2[Mantissa - 1]
    BY <1>3, PowEquation
  <1> QED
    BY <1>1, <1>2, <1>3, <1>4, PowPositive DEF Top

(* Every quotient in the range of the exponents has a last place. *)
LEMMA UlpExists ==
    ASSUME NEW n, NEW d, InRange(n, d)
    PROVE  \E u \in (0..MaxExponent) \X (0..MaxExponent) :
              /\ u[1] = 0 \/ u[2] = 0
              /\ pow2[Mantissa - 1] * (d * pow2[u[1]]) <= n * pow2[u[2]]
              /\ n * pow2[u[2]] < pow2[Mantissa] * (d * pow2[u[1]])
PROOF
  <1>1. PICK h \in Nat, w \in Nat, K \in Nat, E \in Nat :
           /\ h = pow2[Mantissa - 1] /\ w = pow2[Mantissa] /\ w = 2 * h
           /\ K = Top /\ E = MaxExponent /\ K >= 1 /\ h >= 1
    BY Widths, PowPositive
  <1>2. n \in Nat /\ d \in Nat /\ n >= 1 /\ d >= 1 /\ h * d <= n * K /\ n <= K * d
    BY <1>1 DEF InRange
  <1> DEFINE T == {e \in Nat : n * K < w * (d * pow2[e])}
  <1>3. E + E \in T
    <2>1. pow2[E + E] = K * K
      BY <1>1, PowAdd DEF Top
    <2>2. n * K <= (K * d) * K
      BY <1>1, <1>2, TimesMono, Product
    <2>3. PICK z \in Nat : z = (K * d) * K /\ z = d * (K * K) /\ z >= 1
      <3>1. (K * d) * K = d * (K * K) /\ (K * d) * K \in Nat /\ d * K >= 1
        BY <1>1, <1>2
      <3>2. (d * K) * K >= 1 /\ (K * d) * K = (d * K) * K
        BY <3>1, <1>1, <1>2, Positive, Product
      <3> QED
        BY <3>1, <3>2
    <2>4. z < w * z
      BY <1>1, <2>3
    <2> QED
      BY <2>1, <2>2, <2>3, <2>4, <1>1, <1>2, Product
  <1>4. PICK e \in T : \A x \in T : e <= x
    <2>1. T \in SUBSET Nat /\ T # {}
      BY <1>3
    <2> HIDE DEF T
    <2> QED
      BY <2>1, Least
  <1>5. e \in Nat /\ e <= E + E /\ n * K < w * (d * pow2[e])
    BY <1>3, <1>4
  <1>6. h * (d * pow2[e]) <= n * K
    <2>1. CASE e = 0
      <3>1. pow2[e] = 1 /\ d * 1 = d
        BY <2>1, PowEquation, <1>2
      <3> QED
        BY <3>1, <1>2
    <2>2. CASE e # 0
      <3>1. PICK f \in Nat : f = e - 1
        BY <2>2, <1>5
      <3>2. ~(n * K < w * (d * pow2[f]))
        BY <3>1, <1>4, <1>5
      <3>3. PICK y \in Nat : y = pow2[f] /\ pow2[e] = 2 * y
        BY <3>1, <1>5, PowEquation
      <3>4. w * (d * y) = h * (d * (2 * y)) /\ w * (d * y) \in Nat /\ n * K \in Nat
        BY <1>1, <1>2, <3>3
      <3> QED
        BY <3>2, <3>3, <3>4
    <2> QED
      BY <2>1, <2>2
  <1>7. CASE e <= E
    <2>1. PICK q \in 0..E : q = E - e
      BY <1>5, <1>7, <1>1
    <2>2. PICK x \in Nat, y \in Nat : x = pow2[e] /\ y = pow2[q] /\ K = y * x /\ x >= 1 /\ y >= 1
      <3>1. IsSum(E, q, e)
        BY <2>1, <1>1, <1>5 DEF IsSum
      <3>2. pow2[E] = pow2[q] * pow2[e] /\ pow2[q] \in Nat /\ pow2[e] \in Nat /\ pow2[q] >= 1 /\ pow2[e] >= 1
        BY <3>1, <1>1, <1>5, <2>1, PowSum
      <3> QED
        BY <3>2, <1>1 DEF Top
    <2>3. h * (d * x) = (h * d) * x /\ n * K = (n * y) * x /\ w * (d * x) = (w * d) * x
      BY <1>1, <1>2, <2>2
    <2>4. h * d <= n * y
      BY <2>2, <2>3, <1>6, <1>1, <1>2, TimesCancel, Product
    <2>5. n * y < w * d
      BY <2>2, <2>3, <1>5, <1>1, <1>2, TimesStrict, Product
    <2>6. d * pow2[0] = d
      BY PowEquation, <1>2
    <2>7. <<0, q>> \in (0..MaxExponent) \X (0..MaxExponent)
      BY <1>1, <2>1
    <2> QED
      BY <2>2, <2>4, <2>5, <2>6, <2>7, <1>1
  <1>8. CASE e > E
    <2>1. PICK p \in 0..E : p = e - E
      BY <1>5, <1>8, <1>1
    <2>2. PICK x \in Nat, y \in Nat : x = pow2[e] /\ y = pow2[p] /\ x = y * K /\ x >= 1 /\ y >= 1
      <3>1. IsSum(e, p, E)
        BY <2>1, <1>1, <1>5 DEF IsSum
      <3>2. pow2[e] = pow2[p] * pow2[E] /\ pow2[p] \in Nat /\ pow2[E] \in Nat /\ pow2[p] >= 1 /\ pow2[E] >= 1
        BY <3>1, <1>1, <1>5, <2>1, PowSum
      <3> QED
        BY <3>2, <1>1 DEF Top
    <2>3. h * (d * x) = (h * (d * y)) * K /\ w * (d * x) = (w * (d * y)) * K
      BY <1>1, <1>2, <2>2
    <2>4. h * (d * y) <= n
      BY <2>2, <2>3, <1>6, <1>1, <1>2, TimesCancel, Product
    <2>5. n < w * (d * y)
      BY <2>2, <2>3, <1>5, <1>1, <1>2, TimesStrict, Product
    <2>6. n * pow2[0] = n
      BY PowEquation, <1>2
    <2>7. <<p, 0>> \in (0..MaxExponent) \X (0..MaxExponent)
      BY <1>1, <2>1
    <2> QED
      BY <2>2, <2>4, <2>5, <2>6, <2>7, <1>1
  <1> QED
    BY <1>5, <1>7, <1>8, <1>1

(* What Round returns: the nearest multiple of the last place. *)
LEMMA RoundForm ==
    ASSUME NEW n, NEW d, InRange(n, d)
    PROVE  \E p, q, m : Form(n, d, Round(n, d), p, q, m)
PROOF
  <1>1. PICK u \in (0..MaxExponent) \X (0..MaxExponent) :
           /\ u = UlpOf(n, d)
           /\ u[1] = 0 \/ u[2] = 0
           /\ pow2[Mantissa - 1] * (d * pow2[u[1]]) <= n * pow2[u[2]]
           /\ n * pow2[u[2]] < pow2[Mantissa] * (d * pow2[u[1]])
    BY UlpExists DEF UlpOf
  <1>2. PICK p \in 0..MaxExponent, q \in 0..MaxExponent : p = u[1] /\ q = u[2]
    BY <1>1
  <1>3. n \in Nat /\ d \in Nat /\ n >= 1 /\ d >= 1 /\ p \in Nat /\ q \in Nat
    BY <1>2, Widths DEF InRange
  <1>4. PICK a \in Nat, b \in Nat : a = n * pow2[q] /\ b = d * pow2[p] /\ b >= 1
    <2>1. pow2[q] \in Nat /\ pow2[p] \in Nat /\ pow2[q] >= 1 /\ pow2[p] >= 1
      BY <1>3, PowPositive
    <2> QED
      BY <2>1, <1>3
  <1>5. PICK m : m = Nearest(a, b)
    OBVIOUS
  <1>6. PICK h \in Nat, w \in Nat : h = pow2[Mantissa - 1] /\ w = pow2[Mantissa]
    BY Widths, PowPositive
  <1>7. h * b <= a /\ a < w * b
    BY <1>1, <1>2, <1>4, <1>6
  <1>8. m \in Nat /\ h <= m /\ m <= w
    <2>1. PICK x \in Nat, y \in Nat : x = a \div b /\ y = a % b /\ a = b * x + y /\ y < b
      BY <1>4, DivMod
    <2>2. h * b < (x + 1) * b /\ x * b < w * b
      <3>1. PICK z \in Nat : z = x * b /\ z = b * x /\ (x + 1) * b = z + b
        <4>1. (x + 1) * b = x * b + b /\ b * x = x * b /\ x * b \in Nat
          <5>1. x \in Nat /\ b \in Nat
            BY <1>4, <2>1
          <5> QED
            BY <5>1, TimesNext, Product
        <4> QED
          BY <4>1
      <3>2. PICK H \in Nat, W \in Nat : H = h * b /\ W = w * b
        BY <1>4, <1>6, Product
      <3>3. /\ H \in Nat /\ W \in Nat /\ z \in Nat /\ y \in Nat /\ b \in Nat /\ a \in Nat
            /\ H <= a /\ a < W /\ a = z + y /\ y < b
        BY <1>4, <3>1, <3>2, <1>7, <2>1
      <3>4. H < z + b /\ z < W
        BY <3>3
      <3> QED
        BY <3>1, <3>2, <3>4
    <2>3. h < x + 1 /\ x < w
      <3>1. x + 1 \in Nat
        BY <2>1
      <3> QED
        BY <3>1, <2>2, <1>4, <1>6, TimesStrict
    <2>4. m \in Nat /\ x <= m /\ m <= x + 1
      BY <1>4, <1>5, <2>1, NearestNat
    <2> QED
      BY <2>3, <2>4, <2>1, <1>6
  <1>9. Round(n, d) = Double(m * pow2[p], pow2[q])
    BY <1>1, <1>2, <1>3, <1>4, <1>5 DEF Round
  <1>10. Form(n, d, Round(n, d), p, q, m)
    BY <1>1, <1>2, <1>4, <1>5, <1>6, <1>8, <1>9 DEF Form
  <1> QED
    BY <1>10

(* The same, with the last place counted in the finest one. *)
LEMMA FormScaled ==
    ASSUME NEW n, NEW d, InRange(n, d), NEW r, NEW p, NEW q, NEW m, Form(n, d, r, p, q, m)
    PROVE  /\ p + (MaxExponent - q) \in Nat
           /\ Scaled(n, d, r, p + (MaxExponent - q), m)
PROOF
  <1>1. /\ n \in Nat /\ d \in Nat /\ n >= 1 /\ d >= 1 /\ m \in Nat
        /\ p \in Nat /\ q \in Nat /\ MaxExponent - q \in Nat /\ MaxExponent \in Nat
    BY Widths DEF InRange, Form
  <1>2. PICK e \in Nat, f \in Nat : 
           /\ e = p + (MaxExponent - q) /\ f = MaxExponent - q
           /\ IsSum(e, p, f) /\ IsSum(MaxExponent, q, f)
    BY <1>1 DEF IsSum
  <1>3. PICK P \in Nat, Q \in Nat, F \in Nat, X \in Nat :
           /\ P = pow2[p] /\ Q = pow2[q] /\ F = pow2[f] /\ X = pow2[e]
           /\ F >= 1 /\ Q >= 1 /\ X = P * F
    <2>1. /\ pow2[p] \in Nat /\ pow2[f] \in Nat /\ pow2[e] \in Nat
          /\ pow2[f] >= 1 /\ pow2[e] = pow2[p] * pow2[f]
      BY <1>1, <1>2, PowSum
    <2>2. pow2[q] \in Nat /\ pow2[q] >= 1
      BY <1>1, PowPositive
    <2> QED
      BY <2>1, <2>2
  <1>4. PICK K \in Nat : K = Top /\ K = Q * F
    <2>1. pow2[MaxExponent] \in Nat /\ pow2[MaxExponent] = pow2[q] * pow2[f]
      BY <1>1, <1>2, PowSum
    <2> QED
      BY <2>1, <1>3 DEF Top
  <1>5. PICK h \in Nat, w \in Nat : h = pow2[Mantissa - 1] /\ w = pow2[Mantissa]
    BY Widths, PowPositive
  <1>6. h * (d * P) <= n * Q /\ n * Q < w * (d * P) /\ h <= m /\ m <= w
    BY <1>3, <1>5 DEF Form
  <1>7. /\ h * (d * X) = (h * (d * P)) * F /\ w * (d * X) = (w * (d * P)) * F
        /\ n * K = (n * Q) * F
    BY <1>1, <1>3, <1>4, <1>5
  <1>8. h * (d * X) <= n * K
    BY <1>6, <1>7, <1>1, <1>3, <1>4, <1>5, TimesMono, Product
  <1>9. n * K < w * (d * X)
    <2>1. PICK a \in Nat, b \in Nat : a = n * Q /\ b = w * (d * P)
      BY <1>1, <1>3, <1>5, Product
    <2>2. a * F < b * F
      BY <2>1, <1>6, <1>3
    <2> QED
      BY <2>1, <2>2, <1>7
  <1>10. r.num = m * P /\ r.den = Q
    BY <1>3 DEF Form, Double
  <1>11. (m * P) * K = (m * X) * Q /\ m * P \in Nat
    <2>1. (m * P) * (Q * F) = (m * (P * F)) * Q
      BY <1>1, <1>3
    <2> QED
      BY <2>1, <1>1, <1>3, <1>4, Product
  <1> QED
    BY <1>1, <1>2, <1>3, <1>4, <1>5, <1>6, <1>8, <1>9, <1>10, <1>11 DEF Scaled

(* Rounding keeps the order, and the powers of two. *)
LEMMA RoundMono ==
    ASSUME NEW a, NEW b, InRange(a, b), NEW c, NEW d, InRange(c, d), a * d <= c * b,
           NEW r, r = Round(a, b), NEW s, s = Round(c, d)
    PROVE  r.num * s.den <= s.num * r.den
PROOF
  <1>1. PICK p1, q1, x : Form(a, b, r, p1, q1, x)
    BY RoundForm
  <1>2. PICK p2, q2, y : Form(c, d, s, p2, q2, y)
    BY RoundForm
  <1>3. PICK e \in Nat : e = p1 + (MaxExponent - q1) /\ Scaled(a, b, r, e, x)
    BY <1>1, FormScaled
  <1>4. PICK f \in Nat : f = p2 + (MaxExponent - q2) /\ Scaled(c, d, s, f, y)
    BY <1>2, FormScaled
  <1>5. /\ a \in Nat /\ b \in Nat /\ c \in Nat /\ d \in Nat
        /\ a >= 1 /\ b >= 1 /\ c >= 1 /\ d >= 1
    BY DEF InRange
  <1>6. PICK h \in Nat, w \in Nat : h = pow2[Mantissa - 1] /\ w = pow2[Mantissa] /\ w = 2 * h
    BY Widths, PowPositive
  <1>7. PICK X \in Nat, Y \in Nat, K \in Nat :
           X = pow2[e] /\ Y = pow2[f] /\ K = Top /\ K >= 1 /\ X >= 1 /\ Y >= 1
    BY Widths, PowPositive
  <1>8. /\ x \in Nat /\ h <= x /\ x <= w
        /\ h * (b * X) <= a * K /\ a * K < w * (b * X)
        /\ r.num \in Nat /\ r.den \in Nat /\ r.den >= 1 /\ r.num * K = (x * X) * r.den
    BY <1>3, <1>6, <1>7 DEF Scaled
  <1>9. /\ y \in Nat /\ h <= y /\ y <= w
        /\ h * (d * Y) <= c * K /\ c * K < w * (d * Y)
        /\ s.num \in Nat /\ s.den \in Nat /\ s.den >= 1 /\ s.num * K = (y * Y) * s.den
    BY <1>4, <1>6, <1>7 DEF Scaled
  <1>10. x * X <= y * Y
    <2>1. CASE e = f
      <3>1. p1 = p2 /\ q1 = q2 /\ p1 \in Nat /\ q1 \in Nat
        <4>1. PICK E \in Nat : E = MaxExponent
          BY Widths
        <4>2. p1 \in 0..E /\ q1 \in 0..E /\ (p1 = 0 \/ q1 = 0)
          BY <1>1, <4>1 DEF Form
        <4>3. p2 \in 0..E /\ q2 \in 0..E /\ (p2 = 0 \/ q2 = 0)
          BY <1>2, <4>1 DEF Form
        <4>4. p1 + (E - q1) = p2 + (E - q2)
          BY <2>1, <1>3, <1>4, <4>1
        <4> QED
          BY <4>2, <4>3, <4>4
      <3>2. PICK P \in Nat, Q \in Nat : P = pow2[p1] /\ Q = pow2[q1] /\ P >= 1 /\ Q >= 1
        BY <3>1, PowPositive
      <3>3. x = Nearest(a * Q, b * P) /\ y = Nearest(c * Q, d * P)
        BY <1>1, <1>2, <3>1, <3>2 DEF Form
      <3>4. PICK A \in Nat, B \in Nat, C \in Nat, D \in Nat :
               /\ A = a * Q /\ B = b * P /\ C = c * Q /\ D = d * P
               /\ B >= 1 /\ D >= 1
        <4>1. a * Q \in Nat /\ b * P \in Nat /\ c * Q \in Nat /\ d * P \in Nat
          BY <1>5, <3>2, Product
        <4>2. b * P >= 1 /\ d * P >= 1
          BY <1>5, <3>2, Positive
        <4> QED
          BY <4>1, <4>2
      <3>5. A * D <= C * B
        <4>1. A * D = (a * d) * (Q * P) /\ C * B = (c * b) * (Q * P)
          BY <3>4, <1>5, <3>2
        <4> QED
          BY <4>1, <1>5, <3>2, TimesMono, Product
      <3>6. x <= y
        BY <3>3, <3>4, <3>5, NearestMono
      <3> QED
        BY <3>6, <2>1, <1>7, <1>8, <1>9, TimesMono
    <2>2. CASE e < f
      <3>1. 2 * X <= Y
        <4>1. pow2[e + 1] = 2 * X /\ pow2[e + 1] <= Y
          BY <1>7, <2>2, PowEquation, PowMono
        <4> QED
          BY <4>1
      <3>2. x * X <= w * X /\ w * X = h * (2 * X)
        BY <1>6, <1>7, <1>8, TimesMono
      <3>3. h * (2 * X) <= h * Y /\ h * Y <= y * Y
        BY <3>1, <1>6, <1>7, <1>9, TimesMono, Product
      <3>4. x * X \in Nat /\ h * (2 * X) \in Nat /\ h * Y \in Nat /\ y * Y \in Nat
        BY <1>6, <1>7, <1>8, <1>9
      <3> QED
        BY <3>2, <3>3, <3>4
    <2>3. CASE f < e
      <3>1. 2 * Y <= X
        <4>1. pow2[f + 1] = 2 * Y /\ pow2[f + 1] <= X
          BY <1>7, <2>3, PowEquation, PowMono
        <4> QED
          BY <4>1
      <3>2. PICK g \in Nat : g = h * d /\ w * (d * Y) = g * (2 * Y)
        <4>1. (2 * h) * (d * Y) = (h * d) * (2 * Y) /\ h * d \in Nat
          BY <1>5, <1>6, <1>7
        <4> QED
          BY <4>1, <1>6
      <3>3. g * (2 * Y) <= g * X
        BY <3>1, <3>2, <1>7, TimesMono, Product
      <3>4. PICK u \in Nat, v \in Nat, z \in Nat : u = c * K /\ v = a * K /\ z = g * X
        BY <1>5, <1>7, <3>2, Product
      <3>5. u < z
        BY <3>2, <3>3, <3>4, <1>9, <1>7
      <3>6. u * b < z * b
        BY <3>4, <3>5, <1>5
      <3>7. z * b = (h * (b * X)) * d
        BY <3>2, <3>4, <1>5, <1>6, <1>7
      <3>8. (h * (b * X)) * d <= v * d
        BY <1>8, <3>4, <1>5, <1>6, <1>7, TimesMono, Product
      <3>9. v * d = (a * d) * K /\ u * b = (c * b) * K
        BY <3>4, <1>5, <1>7
      <3>10. (c * b) * K < (a * d) * K
        BY <3>4, <3>6, <3>7, <3>8, <3>9, <1>5, Product
      <3>11. c * b < a * d
        BY <3>10, <1>5, <1>7, Product, TimesStrict
      <3> QED
        BY <3>11, <1>5, Product
    <2> QED
      BY <2>1, <2>2, <2>3
  <1>11. PICK A \in Nat, B \in Nat : A = x * X /\ B = y * Y /\ A <= B
    BY <1>10, <1>7, <1>8, <1>9, Product
  <1>12. PICK k \in Nat, l \in Nat, m \in Nat, n \in Nat :
            k = r.num /\ l = r.den /\ m = s.num /\ n = s.den /\ k * K = A * l /\ m * K = B * n
    <2>1. r.num \in Nat /\ r.den \in Nat /\ s.num \in Nat /\ s.den \in Nat
      BY <1>8, <1>9
    <2>2. r.num * K = A * r.den /\ s.num * K = B * s.den
      BY <1>8, <1>9, <1>11
    <2> QED
      BY <2>1, <2>2, Zenon
  <1>13. A * (l * n) <= B * (l * n)
    BY <1>11, <1>12, TimesMono, Product
  <1>14. (k * n) * K = A * (l * n)
    <2>1. (k * n) * K = (k * K) * n /\ (A * l) * n = A * (l * n)
      BY <1>7, <1>11, <1>12
    <2> QED
      BY <2>1, <1>12
  <1>15. (m * l) * K = B * (l * n)
    <2>1. /\ m \in Nat /\ l \in Nat /\ K \in Nat /\ B \in Nat /\ n \in Nat
          /\ m * K = B * n
      BY <1>7, <1>11, <1>12
    <2>2. (m * l) * K = (m * K) * l
      BY <2>1
    <2>3. (B * n) * l = B * (l * n)
      BY <2>1
    <2> QED
      BY <2>1, <2>2, <2>3
  <1>16. k * n <= m * l
    BY <1>7, <1>12, <1>13, <1>14, <1>15, TimesCancel, Product
  <1> QED
    BY <1>12, <1>16

(* Rounding does not go past a power of two, and leaves the smallest place. *)
LEMMA RoundAtMost ==
    ASSUME NEW n, NEW d, InRange(n, d), NEW k \in Nat, n <= pow2[k] * d,
           NEW r, r = Round(n, d)
    PROVE  /\ r.num \in Nat /\ r.den \in Nat /\ r.den >= 1 /\ r.num >= 1
           /\ pow2[Mantissa - 1] * r.den <= r.num * Top
           /\ r.num <= pow2[k] * r.den
PROOF
  <1>1. PICK p, q, m : Form(n, d, r, p, q, m)
    BY RoundForm
  <1>2. PICK e \in Nat : e = p + (MaxExponent - q) /\ Scaled(n, d, r, e, m)
    BY <1>1, FormScaled
  <1>3. n \in Nat /\ d \in Nat /\ n >= 1 /\ d >= 1
    BY DEF InRange
  <1>4. PICK h \in Nat, w \in Nat, X \in Nat, K \in Nat, L \in Nat :
           /\ h = pow2[Mantissa - 1] /\ w = pow2[Mantissa] /\ w = 2 * h /\ h >= 1
           /\ X = pow2[e] /\ K = Top /\ L = pow2[k] /\ K >= 1 /\ X >= 1 /\ L >= 1
    BY Widths, PowPositive
  <1>5. /\ m \in Nat /\ h <= m /\ m <= w
        /\ h * (d * X) <= n * K /\ n * K < w * (d * X)
        /\ r.num \in Nat /\ r.den \in Nat /\ r.den >= 1 /\ r.num * K = (m * X) * r.den
    BY <1>2, <1>4 DEF Scaled
  <1>6. PICK a \in Nat, b \in Nat : a = r.num /\ b = r.den
    BY <1>5
  <1>7. h * b <= a * K
    <2>1. h * 1 <= m * X
      BY <1>4, <1>5
    <2>2. h * b <= (m * X) * b
      BY <2>1, <1>4, <1>5, <1>6, TimesMono, Product
    <2> QED
      BY <2>2, <1>5, <1>6
  <1>8. a >= 1
    <2>1. h * b >= 1
      BY <1>4, <1>5, <1>6, Positive
    <2>2. a # 0
      BY <2>1, <1>4, <1>6, <1>7
    <2> QED
      BY <2>2, <1>6
  <1>9. h * X <= L * K
    <2>1. n * K <= (L * d) * K
      BY <1>3, <1>4, TimesMono, Product
    <2>2. (h * X) * d = h * (d * X) /\ (L * d) * K = (L * K) * d
      BY <1>3, <1>4
    <2>3. (h * X) * d <= (L * K) * d
      BY <2>1, <2>2, <1>3, <1>4, <1>5, Product
    <2> QED
      BY <2>3, <1>3, <1>4, TimesCancel, Product
  <1>10. m * X <= L * K
    <2>1. PICK i \in Nat, j \in Nat : i = (Mantissa - 1) + e /\ j = k + MaxExponent
      BY Widths
    <2>2. IsSum(i, Mantissa - 1, e) /\ IsSum(j, k, MaxExponent)
      BY <2>1 DEF IsSum
    <2>3. pow2[i] = h * X /\ pow2[j] = L * K
      BY <2>2, <1>4, PowSum, Widths DEF Top
    <2>4. i <= j
      BY <2>1, <2>3, <1>9, PowOrder
    <2>5. CASE i < j
      <3>1. pow2[i + 1] = 2 * pow2[i] /\ pow2[i + 1] <= pow2[j]
        BY <2>1, <2>5, PowEquation, PowMono
      <3>2. m * X <= w * X /\ w * X = 2 * (h * X)
        BY <1>4, <1>5, TimesMono
      <3>3. PICK u \in Nat, v \in Nat : u = m * X /\ v = h * X
        BY <1>4, <1>5, Product
      <3>4. u <= 2 * v /\ 2 * v <= L * K
        BY <2>3, <3>1, <3>2, <3>3
      <3>5. L * K \in Nat
        BY <1>4, Product
      <3> QED
        BY <3>3, <3>4, <3>5
    <2>6. CASE i = j
      <3>1. p \in Nat /\ q \in Nat /\ m = Nearest(n * pow2[q], d * pow2[p])
        BY <1>1, Widths DEF Form
      <3>2. IsSum(i + q, k + q, MaxExponent) /\ IsSum(k + q, k, q)
        BY <2>1, <2>6, <3>1, Widths DEF IsSum
      <3>3. (Mantissa - 1) + p = k + q
        BY <2>1, <2>6, <3>1, <1>2, Widths
      <3>4. IsSum(k + q, Mantissa - 1, p) /\ k + q \in Nat
        BY <3>1, <3>3 DEF IsSum
      <3>5. PICK P \in Nat, Q \in Nat : P = pow2[p] /\ Q = pow2[q] /\ P >= 1
        BY <3>1, PowPositive
      <3>6. L * Q = h * P
        <4>1. pow2[k + q] = L * Q
          BY <3>1, <3>2, <3>5, <1>4, PowSum
        <4>2. pow2[k + q] = h * P
          BY <3>1, <3>4, <3>5, <1>4, PowSum, Widths
        <4> QED
          BY <4>1, <4>2
      <3>7. n = L * d
        <4>1. h * (d * X) = (L * d) * K
          <5>1. h * (d * X) = d * (h * X) /\ (L * d) * K = d * (L * K)
            BY <1>3, <1>4
          <5> QED
            BY <5>1, <2>3, <2>6
        <4>2. (L * d) * K <= n * K
          BY <4>1, <1>5
        <4>3. L * d <= n
          BY <4>2, <1>3, <1>4, TimesCancel, Product
        <4> QED
          BY <4>3, <1>3, <1>4, Product
      <3>8. n * Q = h * (d * P) /\ d * P \in Nat /\ d * P >= 1
        <4>1. (L * d) * Q = d * (L * Q) /\ d * (h * P) = h * (d * P)
          BY <1>3, <1>4, <3>5
        <4> QED
          BY <4>1, <3>5, <3>6, <3>7, <1>3, Product, Positive
      <3>9. m = h
        <4>1. PICK b1 \in Nat : b1 = d * P /\ b1 >= 1 /\ m = Nearest(h * b1, b1)
          BY <3>1, <3>5, <3>8
        <4> QED
          BY <4>1, <1>4, NearestExact
      <3> QED
        BY <3>9, <2>3, <2>6
    <2> QED
      BY <2>1, <2>4, <2>5, <2>6
  <1>11. a <= L * b
    <2>1. (m * X) * b <= (L * K) * b
      BY <1>10, <1>4, <1>5, <1>6, TimesMono, Product
    <2>2. a * K <= (L * b) * K
      <3>1. (L * K) * b = (L * b) * K
        BY <1>4, <1>6
      <3> QED
        BY <2>1, <3>1, <1>5, <1>6
    <2> QED
      BY <2>2, <1>4, <1>6, TimesCancel, Product
  <1> QED
    BY <1>4, <1>5, <1>6, <1>7, <1>8, <1>11

(* The same with zero, which has no places. *)
Fine(n, d) == n \in Nat /\ d \in Nat /\ d >= 1 /\ (n >= 1 => InRange(n, d))

(* A rounded number is zero or in range, and stays within a power of two. *)
LEMMA RoundFine ==
    ASSUME NEW n, NEW d, Fine(n, d), NEW k \in Nat, n <= pow2[k] * d, NEW r, r = Round(n, d)
    PROVE  /\ r.num \in Nat /\ r.den \in Nat /\ r.den >= 1
           /\ r.num >= 1 => pow2[Mantissa - 1] * r.den <= r.num * Top
           /\ r.num <= pow2[k] * r.den
PROOF
  <1>1. CASE n = 0
    <2>1. r.num = 0 /\ r.den = 1
      BY <1>1 DEF Round, Double
    <2> QED
      BY <2>1, PowPositive
  <1>2. CASE n # 0
    <2>1. InRange(n, d)
      BY <1>2 DEF Fine
    <2> QED
      BY <2>1, RoundAtMost
  <1> QED
    BY <1>1, <1>2

(* Rounding keeps the order, of zero too. *)
LEMMA FineMono ==
    ASSUME NEW a, NEW b, Fine(a, b), NEW c, NEW d, Fine(c, d), a * d <= c * b,
           NEW r, r = Round(a, b), NEW s, s = Round(c, d),
           r.den \in Nat, s.num \in Nat, s.den \in Nat
    PROVE  r.num * s.den <= s.num * r.den
PROOF
  <1>1. a \in Nat /\ b \in Nat /\ b >= 1 /\ c \in Nat /\ d \in Nat /\ d >= 1
    BY DEF Fine
  <1>2. CASE a = 0
    <2>1. r.num = 0
      BY <1>2 DEF Round, Double
    <2>2. 0 * s.den = 0 /\ s.num * r.den \in Nat
      BY Product
    <2> QED
      BY <2>1, <2>2
  <1>3. CASE a # 0
    <2>1. c # 0
      <3>1. a * d >= 1
        BY <1>1, <1>3, Positive
      <3> QED
        BY <3>1, <1>1
    <2>2. InRange(a, b) /\ InRange(c, d)
      BY <1>1, <1>3, <2>1 DEF Fine
    <2> QED
      BY <2>2, RoundMono
  <1> QED
    BY <1>2, <1>3

-----------------------------------------------------------------------------
(* The steps of the conversion. *)

Quot(s) == Round(Fractions(s), FractionMax)
Sum(s) == Round(Seconds(s) * Quot(s).den + Quot(s).num, Quot(s).den)
Prod(s) == Round(Sum(s).num * PerSecond, Sum(s).den)

Stamp == 0..LastStamp

(* Seconds and fraction of a stamp are in range and give it back. *)
LEMMA StampParts ==
    /\ LastStamp \in Nat
    /\ FractionMax \in Nat /\ FractionMax >= 1
    /\ \A s \in Stamp :
          /\ Seconds(s) \in Nat /\ Seconds(s) + 1 <= pow2[SecBits]
          /\ Fractions(s) \in Nat /\ Fractions(s) <= FractionMax
          /\ s = pow2[FracBits] * Seconds(s) + Fractions(s)
PROOF
  <1>1. PICK x \in Nat, y \in Nat :
           /\ x = pow2[SecBits] /\ y = pow2[FracBits] /\ x >= 1 /\ y >= 2
           /\ pow2[SecBits + FracBits] = x * y
    <2>1. pow2[SecBits + FracBits] = pow2[SecBits] * pow2[FracBits]
      BY Widths, PowAdd
    <2>2. pow2[1] = 2
      <3>1. pow2[0 + 1] = 2 * pow2[0] /\ pow2[0] = 1
        BY PowEquation
      <3> QED
        BY <3>1
    <2>3. pow2[1] <= pow2[FracBits]
      BY Widths, PowMono
    <2> QED
      BY <2>1, <2>2, <2>3, Widths, PowPositive
  <1>2. x * y \in Nat /\ x * y >= 1
    BY <1>1, Positive, Product
  <1>3. LastStamp \in Nat /\ LastStamp + 1 = x * y
    BY <1>1, <1>2 DEF LastStamp
  <1>4. FractionMax \in Nat /\ FractionMax >= 1 /\ FractionMax + 1 = y
    BY <1>1 DEF FractionMax
  <1>5. ASSUME NEW s \in Stamp
        PROVE  /\ Seconds(s) \in Nat /\ Seconds(s) + 1 <= x
               /\ Fractions(s) \in Nat /\ Fractions(s) <= FractionMax
               /\ s = y * Seconds(s) + Fractions(s)
    <2>1. s \in Nat /\ s < x * y
      BY <1>2, <1>3 DEF Stamp
    <2>2. PICK m \in Nat, r \in Nat : m = s \div y /\ r = s % y /\ r < y /\ s = y * m + r
      <3>1. s \in Nat /\ y \in Nat /\ y >= 1
        BY <2>1, <1>1
      <3>2. /\ s \div y \in Nat /\ s % y \in Nat
            /\ s = y * (s \div y) + (s % y) /\ s % y < y
        BY <3>1, DivMod
      <3> QED
        BY <3>2
    <2>3. m * y < x * y
      <3>1. m * y = y * m /\ m * y \in Nat
        BY <2>2, <1>1, Product
      <3> QED
        BY <3>1, <2>1, <2>2, <1>2
    <2>4. m < x
      BY <2>2, <2>3, <1>1, TimesStrict
    <2>5. m + 1 <= x /\ r <= FractionMax
      <3>1. m \in Nat /\ x \in Nat /\ r \in Nat /\ y \in Nat /\ r < y
        BY <2>2, <1>1
      <3> QED
        BY <3>1, <2>4, <1>4
    <2>6. Seconds(s) = m /\ Fractions(s) = r
      BY <2>2, <1>1 DEF Seconds, Fractions
    <2> QED
      BY <2>2, <2>5, <2>6
  <1> QED
    BY <1>1, <1>3, <1>4, <1>5

(* The quotient of fraction and FractionMax is in range and at most 1, *)
LEMMA QuotFine ==
    ASSUME NEW s \in Stamp, NEW q, q = Quot(s)
    PROVE  /\ Fine(Fractions(s), FractionMax)
           /\ q.num \in Nat /\ q.den \in Nat /\ q.den >= 1 /\ q.num <= q.den
           /\ q.num >= 1 => pow2[Mantissa - 1] * q.den <= q.num * Top
PROOF
  <1>1. PICK f \in Nat, F \in Nat :
           f = Fractions(s) /\ F = FractionMax /\ F >= 1 /\ f <= F
    BY StampParts
  <1>2. PICK h \in Nat, K \in Nat : h = pow2[Mantissa - 1] /\ K = Top /\ K >= 1 /\ h >= 1
    BY Widths, PowPositive
  <1>3. h * F <= K
    <2>1. PICK i \in Nat : i = (Mantissa - 1) + FracBits /\ i <= MaxExponent
      BY Widths, ExponentAssumption
    <2>2. pow2[i] = h * pow2[FracBits] /\ pow2[FracBits] \in Nat
      <3>1. IsSum(i, Mantissa - 1, FracBits)
        BY <2>1 DEF IsSum
      <3> QED
        BY <3>1, <1>2, Widths, PowSum
    <2>3. pow2[i] <= K
      BY <2>1, <1>2, Widths, PowMono DEF Top
    <2>4. F <= pow2[FracBits]
      BY <2>2, <1>1 DEF FractionMax
    <2>5. h * F <= h * pow2[FracBits]
      BY <2>2, <2>4, <1>1, <1>2, TimesMono, Product
    <2> QED
      BY <2>2, <2>3, <2>5, <1>1, <1>2, Product
  <1>4. ASSUME f >= 1
        PROVE  InRange(f, F)
    <2>1. K <= f * K /\ F <= K * F /\ f * K \in Nat /\ K * F \in Nat
      BY <1>1, <1>2, <1>4, Positive, Product
    <2>2. h * F \in Nat
      BY <1>1, <1>2, Product
    <2> QED
      BY <2>1, <2>2, <1>1, <1>2, <1>3, <1>4 DEF InRange
  <1>5. Fine(f, F)
    BY <1>1, <1>4 DEF Fine
  <1>6. f <= pow2[0] * F
    BY <1>1, PowEquation
  <1>7. /\ q.num \in Nat /\ q.den \in Nat /\ q.den >= 1
        /\ q.num >= 1 => h * q.den <= q.num * K
        /\ q.num <= pow2[0] * q.den
    BY <1>1, <1>2, <1>5, <1>6, RoundFine DEF Quot
  <1>8. q.num <= q.den
    BY <1>7, PowEquation
  <1> QED
    BY <1>1, <1>2, <1>5, <1>7, <1>8

(* ... so that the sum is in range, *)
LEMMA SumFine ==
    ASSUME NEW s \in Stamp, NEW q, q = Quot(s), NEW r, r = Sum(s)
    PROVE  /\ Fine(Seconds(s) * q.den + q.num, q.den)
           /\ r.num \in Nat /\ r.den \in Nat /\ r.den >= 1 /\ r.num <= pow2[SecBits] * r.den
           /\ r.num >= 1 => pow2[Mantissa - 1] * r.den <= r.num * Top
PROOF
  <1>1. PICK a \in Nat, b \in Nat : a = q.num /\ b = q.den /\ b >= 1 /\ a <= b
    BY QuotFine
  <1>2. PICK h \in Nat, K \in Nat, L \in Nat :
           /\ h = pow2[Mantissa - 1] /\ K = Top /\ K >= 1 /\ h >= 1 /\ h <= K
           /\ L = pow2[SecBits] /\ L <= K
    <2>1. pow2[Mantissa - 1] <= Top /\ pow2[SecBits] <= Top
      BY Widths, ExponentAssumption, PowMono DEF Top
    <2> QED
      BY <2>1, Widths, PowPositive
  <1>3. PICK S \in Nat : S = Seconds(s) /\ S + 1 <= L
    BY StampParts, <1>2
  <1>4. a >= 1 => h * b <= a * K
    BY QuotFine, <1>1, <1>2
  <1>5. PICK n \in Nat : n = S * b + a
    <2>1. S * b \in Nat
      BY <1>1, <1>3, Product
    <2> QED
      BY <2>1, <1>1
  <1>6. n <= L * b
    <2>1. (S + 1) * b <= L * b /\ (S + 1) * b = S * b + b /\ S * b \in Nat /\ L * b \in Nat
      BY <1>1, <1>2, <1>3, TimesMono, TimesNext, Product
    <2> QED
      BY <2>1, <1>1, <1>5
  <1>7. ASSUME n >= 1
        PROVE  h * b <= n * K
    <2>1. CASE S = 0
      BY <2>1, <1>1, <1>4, <1>5, <1>7
    <2>2. CASE S # 0
      <3>1. b <= n
        <4>1. b <= b * S /\ b * S = S * b /\ b * S \in Nat
          BY <2>2, <1>1, <1>3, Positive, Product
        <4> QED
          BY <4>1, <1>1, <1>5
      <3>2. h * b <= K * b /\ K * b <= n * K
        BY <3>1, <1>1, <1>2, <1>5, TimesMono, Product
      <3>3. h * b \in Nat /\ K * b \in Nat /\ n * K \in Nat
        BY <1>1, <1>2, <1>5, Product
      <3> QED
        BY <3>2, <3>3
    <2> QED
      BY <2>1, <2>2
  <1>8. n <= K * b
    <2>1. L * b <= K * b /\ L * b \in Nat /\ K * b \in Nat
      BY <1>1, <1>2, TimesMono, Product
    <2> QED
      BY <2>1, <1>5, <1>6
  <1>9. Fine(n, b)
    BY <1>1, <1>2, <1>5, <1>7, <1>8 DEF Fine, InRange
  <1>10. r = Round(n, b)
    BY <1>1, <1>3, <1>5 DEF Sum
  <1>11. /\ r.num \in Nat /\ r.den \in Nat /\ r.den >= 1
         /\ r.num >= 1 => h * r.den <= r.num * K
         /\ r.num <= L * r.den
    BY <1>2, <1>6, <1>9, <1>10, Widths, RoundFine
  <1> QED
    BY <1>1, <1>2, <1>3, <1>5, <1>9, <1>11

(* ... and the product. *)
LEMMA ProdFine ==
    ASSUME NEW s \in Stamp, NEW r, r = Sum(s), NEW t, t = Prod(s)
    PROVE  /\ Fine(r.num * PerSecond, r.den)
           /\ t.num \in Nat /\ t.den \in Nat /\ t.den >= 1
PROOF
  <1>1. PICK a \in Nat, b \in Nat :
           /\ a = r.num /\ b = r.den /\ b >= 1 /\ a <= pow2[SecBits] * b
           /\ a >= 1 => pow2[Mantissa - 1] * b <= a * Top
    BY SumFine
  <1>2. PICK h \in Nat, K \in Nat, L \in Nat, N \in Nat, M \in Nat :
           /\ h = pow2[Mantissa - 1] /\ K = Top /\ L = pow2[SecBits]
           /\ N = PerSecond /\ N >= 1 /\ M = pow2[MaxExponent - SecBits] /\ N <= M
           /\ K = L * M
    <2>1. PICK i \in Nat : i = MaxExponent - SecBits /\ IsSum(MaxExponent, SecBits, i)
      BY Widths, ExponentAssumption DEF IsSum
    <2>2. Top = pow2[SecBits] * pow2[i] /\ pow2[i] \in Nat /\ pow2[SecBits] \in Nat
      BY <2>1, Widths, PowSum DEF Top
    <2>3. PerSecond \in Nat /\ PerSecond >= 1 /\ PerSecond <= pow2[i]
      BY <2>1, <2>2, Widths, ExponentAssumption
    <2>4. pow2[Mantissa - 1] \in Nat /\ Top \in Nat
      BY Widths, PowPositive
    <2> QED
      BY <2>1, <2>2, <2>3, <2>4
  <1>3. PICK n \in Nat : n = a * N /\ a <= n
    BY <1>1, <1>2, Positive, Product
  <1>4. n <= K * b
    <2>1. a * N <= (L * b) * N
      BY <1>1, <1>2, TimesMono, Product
    <2>2. (L * b) * N <= (L * b) * M
      BY <1>1, <1>2, TimesMono, Product
    <2>3. (L * b) * M = K * b /\ (L * b) * N \in Nat /\ K * b \in Nat
      BY <1>1, <1>2
    <2> QED
      BY <2>1, <2>2, <2>3, <1>3
  <1>5. ASSUME n >= 1
        PROVE  h * b <= n * K
    <2>1. a >= 1
      BY <1>1, <1>2, <1>3, <1>5
    <2>2. h * b <= a * K
      BY <2>1, <1>1, <1>2
    <2>3. a * K <= n * K
      BY <1>1, <1>2, <1>3, TimesMono
    <2>4. h * b \in Nat /\ a * K \in Nat /\ n * K \in Nat
      BY <1>1, <1>2, <1>3, Product
    <2> QED
      BY <2>2, <2>3, <2>4
  <1>6. Fine(n, b)
    BY <1>1, <1>2, <1>3, <1>4, <1>5 DEF Fine, InRange
  <1>7. t = Round(n, b)
    BY <1>1, <1>2, <1>3 DEF Prod
  <1>8. n <= pow2[MaxExponent] * b
    BY <1>2, <1>4 DEF Top
  <1>9. t.num \in Nat /\ t.den \in Nat /\ t.den >= 1
    BY <1>6, <1>7, <1>8, Widths, RoundFine
  <1> QED
    BY <1>1, <1>2, <1>3, <1>6, <1>9

(* The conversion keeps the order of stamps. *)
LEMMA UnixTimeMono ==
    ASSUME NEW s \in Stamp, NEW t \in Stamp, s <= t
    PROVE  UnixTime(s) \in Nat /\ UnixTime(t) \in Nat /\ UnixTime(s) <= UnixTime(t)
PROOF
  <1>1. PICK x, y : x = Quot(s) /\ y = Quot(t)
    OBVIOUS
  <1>2. PICK a \in Nat, b \in Nat : a = x.num /\ b = x.den /\ b >= 1 /\ a <= b
    BY <1>1, QuotFine
  <1>3. PICK c \in Nat, d \in Nat : c = y.num /\ d = y.den /\ d >= 1 /\ c <= d
    BY <1>1, QuotFine
  <1>4. PICK S \in Nat, f \in Nat, T \in Nat, g \in Nat, F \in Nat :
           /\ S = Seconds(s) /\ f = Fractions(s) /\ T = Seconds(t) /\ g = Fractions(t)
           /\ F = FractionMax /\ F >= 1 /\ f <= F /\ g <= F
           /\ s = pow2[FracBits] * S + f /\ t = pow2[FracBits] * T + g
    BY StampParts
  <1>5. PICK H \in Nat : H = pow2[FracBits] /\ H = F + 1
    <2>1. pow2[FracBits] \in Nat
      BY Widths, PowPositive
    <2> QED
      BY <2>1, <1>4 DEF FractionMax
  <1>6. S * H + f <= T * H + g
    BY <1>4, <1>5, Product
  <1>7. S < T \/ (S = T /\ f <= g)
    <2>1. CASE T < S
      <3>1. (T + 1) * H <= S * H /\ (T + 1) * H = T * H + H
        BY <2>1, <1>4, <1>5, TimesMono, TimesNext
      <3>2. PICK u \in Nat, v \in Nat : u = S * H /\ v = T * H
        BY <1>4, <1>5, Product
      <3> QED
        BY <3>1, <3>2, <1>4, <1>5, <1>6
    <2>2. CASE T = S
      BY <2>2, <1>4, <1>5, <1>6, Product
    <2> QED
      BY <2>1, <2>2, <1>4
  <1>8. (S * b + a) * d <= (T * d + c) * b
    <2>1. CASE S < T
      <3>1. S * b + a <= (S + 1) * b /\ S * b + a \in Nat
        BY <1>2, <1>4, TimesNext, Product
      <3>2. T * d <= T * d + c /\ T * d + c \in Nat
        BY <1>3, <1>4, Product
      <3>3. (S * b + a) * d <= ((S + 1) * b) * d
        BY <3>1, <1>2, <1>3, <1>4, TimesMono, Product
      <3>4. ((S + 1) * b) * d = (S + 1) * (b * d)
        BY <1>2, <1>3, <1>4
      <3>5. (S + 1) * (b * d) <= T * (b * d)
        BY <2>1, <1>2, <1>3, <1>4, TimesMono, Product
      <3>6. T * (b * d) = (T * d) * b
        BY <1>2, <1>3, <1>4
      <3>7. (T * d) * b <= (T * d + c) * b
        BY <3>2, <1>2, <1>3, <1>4, TimesMono, Product
      <3>8. PICK i \in Nat, j \in Nat, k \in Nat, l \in Nat :
               /\ i = (S * b + a) * d /\ j = (S + 1) * (b * d)
               /\ k = T * (b * d) /\ l = (T * d + c) * b
        <4>1. b * d \in Nat /\ S + 1 \in Nat
          BY <1>2, <1>3, <1>4, Product
        <4>2. /\ (S * b + a) * d \in Nat /\ (S + 1) * (b * d) \in Nat
              /\ T * (b * d) \in Nat /\ (T * d + c) * b \in Nat
          BY <4>1, <3>1, <3>2, <1>2, <1>3, <1>4, Product
        <4> QED
          BY <4>2
      <3>9. i <= j /\ j <= k /\ k <= l
        BY <3>3, <3>4, <3>5, <3>6, <3>7, <3>8
      <3> QED
        BY <3>8, <3>9
    <2>2. CASE S = T /\ f <= g
      <3>1. a * d <= c * b
        <4>1. f * F <= g * F
          BY <2>2, <1>4, TimesMono
        <4>2. Fine(f, F) /\ Fine(g, F)
          BY <1>1, <1>4, QuotFine
        <4>3. x = Round(f, F) /\ y = Round(g, F)
          BY <1>1, <1>4 DEF Quot
        <4> QED
          BY <4>1, <4>2, <4>3, <1>2, <1>3, FineMono
      <3>2. (S * b + a) * d = S * (b * d) + a * d /\ (S * d + c) * b = S * (b * d) + c * b
        BY <1>2, <1>3, <1>4
      <3>3. S * (b * d) \in Nat /\ a * d \in Nat /\ c * b \in Nat
        BY <1>2, <1>3, <1>4
      <3> QED
        BY <2>2, <3>1, <3>2, <3>3
    <2> QED
      BY <1>7, <2>1, <2>2
  <1>9. PICK v, w : v = Sum(s) /\ w = Sum(t)
    OBVIOUS
  <1>10. PICK i \in Nat, j \in Nat, k \in Nat, l \in Nat :
            i = v.num /\ j = v.den /\ k = w.num /\ l = w.den /\ j >= 1 /\ l >= 1
    BY <1>1, <1>9, SumFine
  <1>11. i * l <= k * j
    <2>1. Fine(S * b + a, b) /\ Fine(T * d + c, d)
      BY <1>1, <1>2, <1>3, <1>4, <1>9, SumFine
    <2>2. v = Round(S * b + a, b) /\ w = Round(T * d + c, d)
      BY <1>1, <1>2, <1>3, <1>4, <1>9 DEF Sum
    <2> QED
      BY <2>1, <2>2, <1>8, <1>10, FineMono
  <1>12. PICK N \in Nat : N = PerSecond
    BY Widths
  <1>13. (i * N) * l <= (k * N) * j
    <2>1. (i * N) * l = (i * l) * N /\ (k * N) * j = (k * j) * N
      BY <1>10, <1>12
    <2> QED
      BY <2>1, <1>10, <1>11, <1>12, TimesMono, Product
  <1>14. PICK p, q : p = Prod(s) /\ q = Prod(t)
    OBVIOUS
  <1>15. /\ p.num \in Nat /\ p.den \in Nat /\ p.den >= 1
         /\ q.num \in Nat /\ q.den \in Nat /\ q.den >= 1
         /\ Fine(i * N, j) /\ Fine(k * N, l)
    BY <1>9, <1>10, <1>12, <1>14, ProdFine
  <1>16. p = Round(i * N, j) /\ q = Round(k * N, l)
    BY <1>9, <1>10, <1>12, <1>14 DEF Prod
  <1>17. p.num * q.den <= q.num * p.den
    BY <1>13, <1>15, <1>16, FineMono
  <1>18. p.num \div p.den <= q.num \div q.den
    BY <1>15, <1>17, DivMono
  <1>19. UnixTime(s) = p.num \div p.den /\ UnixTime(t) = q.num \div q.den
    BY <1>14 DEF UnixTime, Prod, Sum, Quot
  <1> QED
    BY <1>15, <1>18, <1>19, DivMod

-----------------------------------------------------------------------------
(* The error of the conversion. *)

(* a / b and c / d differ by at most e / X. *)
Near(X, a, b, c, d, e) ==
    /\ X * (a * d) <= X * (c * b) + e * (b * d)
    /\ X * (c * b) <= X * (a * d) + e * (b * d)

(* Distances add up along a chain. *)
LEMMA NearTriangle ==
    ASSUME NEW X \in Nat, NEW a \in Nat, NEW b \in Nat, NEW c \in Nat, NEW d \in Nat,
           NEW g \in Nat, NEW i \in Nat, NEW e \in Nat, NEW f \in Nat, d >= 1,
           Near(X, a, b, c, d, e), Near(X, c, d, g, i, f)
    PROVE  Near(X, a, b, g, i, e + f)
PROOF
  <1>1. PICK A \in Nat, C \in Nat, D \in Nat, G \in Nat, p \in Nat, q \in Nat :
           /\ A = X * (a * d) /\ C = X * (c * b) /\ p = e * (b * d)
           /\ D = X * (c * i) /\ G = X * (g * d) /\ q = f * (d * i)
    <2>1. a * d \in Nat /\ c * b \in Nat /\ b * d \in Nat
      BY Product
    <2>2. c * i \in Nat /\ g * d \in Nat /\ d * i \in Nat
      BY Product
    <2>3. X * (a * d) \in Nat /\ X * (c * b) \in Nat /\ e * (b * d) \in Nat
      BY <2>1, Product
    <2>4. X * (c * i) \in Nat /\ X * (g * d) \in Nat /\ f * (d * i) \in Nat
      BY <2>2, Product
    <2> QED
      BY <2>3, <2>4
  <1>2. A <= C + p /\ C <= A + p /\ D <= G + q /\ G <= D + q
    BY <1>1 DEF Near
  <1>3. C * i = D * b
    BY <1>1
  <1>4. /\ A * i = (X * (a * i)) * d /\ G * b = (X * (g * b)) * d
        /\ p * i = (e * (b * i)) * d /\ q * b = (f * (b * i)) * d
    BY <1>1
  <1>5. /\ A * i <= (C + p) * i /\ C * i <= (A + p) * i
        /\ D * b <= (G + q) * b /\ G * b <= (D + q) * b
    BY <1>1, <1>2, TimesMono
  <1>6. /\ (C + p) * i = C * i + p * i /\ (A + p) * i = A * i + p * i
        /\ (G + q) * b = G * b + q * b /\ (D + q) * b = D * b + q * b
    BY <1>1
  <1>7. PICK U \in Nat, V \in Nat, P \in Nat, Q \in Nat, W \in Nat :
           U = A * i /\ V = G * b /\ P = p * i /\ Q = q * b /\ W = C * i
    BY <1>1, Product
  <1>8. U <= V + (P + Q) /\ V <= U + (P + Q)
    BY <1>3, <1>5, <1>6, <1>7
  <1>9. PICK x \in Nat, y \in Nat, z \in Nat :
           x = X * (a * i) /\ y = X * (g * b) /\ z = (e + f) * (b * i)
    <2>1. a * i \in Nat /\ g * b \in Nat /\ b * i \in Nat /\ e + f \in Nat
      BY Product
    <2> QED
      BY <2>1, Product
  <1>10. P + Q = z * d /\ U = x * d /\ V = y * d
    <2>1. (e + f) * (b * i) = e * (b * i) + f * (b * i)
      OBVIOUS
    <2>2. z * d = (e * (b * i)) * d + (f * (b * i)) * d
      BY <2>1, <1>9
    <2> QED
      BY <2>2, <1>4, <1>7, <1>9
  <1>11. x * d <= (y + z) * d /\ y * d <= (x + z) * d
    <2>1. (y + z) * d = y * d + z * d /\ (x + z) * d = x * d + z * d
      BY <1>9
    <2> QED
      BY <2>1, <1>8, <1>10
  <1>12. x <= y + z /\ y <= x + z
    BY <1>9, <1>11, TimesCancel
  <1> QED
    BY <1>9, <1>12 DEF Near

(* Half of a last place, which is no more than this part of the value.     *)
LEMMA RoundError ==
    ASSUME NEW n, NEW d, Fine(n, d), NEW r, r = Round(n, d), r.num \in Nat, r.den \in Nat
    PROVE  /\ pow2[Mantissa] * (r.num * d) <= pow2[Mantissa] * (n * r.den) + n * r.den
           /\ pow2[Mantissa] * (n * r.den) <= pow2[Mantissa] * (r.num * d) + n * r.den
PROOF
  <1>1. PICK w \in Nat, h \in Nat : w = pow2[Mantissa] /\ h = pow2[Mantissa - 1] /\ w = 2 * h
    BY Widths, PowPositive
  <1>2. CASE n = 0
    <2>1. r.num = 0 /\ r.den = 1 /\ d \in Nat
      BY <1>2 DEF Round, Double, Fine
    <2> QED
      BY <2>1, <1>1, <1>2
  <1>3. CASE n # 0
    <2>1. InRange(n, d) /\ n \in Nat /\ d \in Nat
      BY <1>3 DEF Fine
    <2>2. PICK p, q, m : Form(n, d, r, p, q, m)
      BY <2>1, RoundForm
    <2>3. p \in Nat /\ q \in Nat
      BY <2>2, Widths DEF Form
    <2>4. PICK P \in Nat, Q \in Nat : P = pow2[p] /\ Q = pow2[q] /\ P >= 1
      BY <2>3, PowPositive
    <2>5. PICK a \in Nat, b \in Nat : a = n * Q /\ b = d * P /\ b >= 1
      BY <2>1, <2>4, Product, Positive DEF InRange
    <2>6. m \in Nat /\ m = Nearest(a, b) /\ h * b <= a /\ r.num = m * P /\ r.den = Q
      BY <1>1, <2>2, <2>4, <2>5 DEF Form, Double
    <2>7. 2 * (m * b) <= 2 * a + b /\ 2 * a <= 2 * (m * b) + b
      BY <2>5, <2>6, NearestBounds
    <2>8. PICK x \in Nat : x = m * b /\ x = r.num * d
      <3>1. m * (d * P) = (m * P) * d
        BY <2>1, <2>4, <2>6
      <3> QED
        BY <3>1, <2>5, <2>6, Product
    <2>9. PICK u \in Nat, v \in Nat, z \in Nat : u = h * x /\ v = h * a /\ z = h * b
      BY <1>1, <2>5, <2>8, Product
    <2>10. 2 * u <= 2 * v + z /\ 2 * v <= 2 * u + z
      <3>1. 2 * x <= 2 * a + b /\ 2 * a <= 2 * x + b
        BY <2>7, <2>8
      <3>2. h * (2 * x) <= h * (2 * a + b) /\ h * (2 * a) <= h * (2 * x + b)
        BY <3>1, <1>1, <2>5, <2>8, TimesMono, Product
      <3>3. /\ h * (2 * x) = 2 * (h * x) /\ h * (2 * a + b) = 2 * (h * a) + h * b
            /\ h * (2 * a) = 2 * (h * a) /\ h * (2 * x + b) = 2 * (h * x) + h * b
        BY <1>1, <2>5, <2>8
      <3> QED
        BY <3>2, <3>3, <2>9
    <2>11. w * x = 2 * u /\ w * a = 2 * v
      BY <1>1, <2>5, <2>8, <2>9
    <2>12. w * x <= w * a + a /\ w * a <= w * x + a
      <3>1. z <= a /\ u \in Nat /\ v \in Nat /\ z \in Nat /\ a \in Nat
        BY <2>5, <2>6, <2>9
      <3>2. 2 * u <= 2 * v + a /\ 2 * v <= 2 * u + a
        BY <3>1, <2>10
      <3> QED
        BY <3>2, <2>11
    <2> QED
      BY <2>12, <2>5, <2>6, <2>8, <1>1
  <1> QED
    BY <1>2, <1>3

(* And this part of any power of two that is not below the value.          *)
LEMMA RoundErrorAtMost ==
    ASSUME NEW n, NEW d, Fine(n, d), NEW r, r = Round(n, d), r.num \in Nat, r.den \in Nat,
           NEW k \in Nat, n <= pow2[k] * d
    PROVE  Near(2 * pow2[Mantissa], r.num, r.den, n, d, pow2[k])
PROOF
  <1>1. PICK w \in Nat, h \in Nat, L \in Nat :
           w = pow2[Mantissa] /\ h = pow2[Mantissa - 1] /\ w = 2 * h /\ h >= 1 /\ L = pow2[k]
    BY Widths, PowPositive
  <1>2. CASE n = 0
    <2>1. r.num = 0 /\ r.den = 1 /\ d \in Nat
      BY <1>2 DEF Round, Double, Fine
    <2> QED
      BY <2>1, <1>1, <1>2 DEF Near
  <1>3. CASE n # 0
    <2>1. InRange(n, d) /\ n \in Nat /\ d \in Nat /\ d >= 1
      BY <1>3 DEF Fine
    <2>2. PICK p, q, m : Form(n, d, r, p, q, m)
      BY <2>1, RoundForm
    <2>3. p \in Nat /\ q \in Nat
      BY <2>2, Widths DEF Form
    <2>4. PICK P \in Nat, Q \in Nat : P = pow2[p] /\ Q = pow2[q] /\ P >= 1
      BY <2>3, PowPositive
    <2>5. PICK a \in Nat, b \in Nat : a = n * Q /\ b = d * P /\ b >= 1
      BY <2>1, <2>4, Product, Positive DEF InRange
    <2>6. m \in Nat /\ m = Nearest(a, b) /\ h * b <= a /\ r.num = m * P /\ r.den = Q
      BY <1>1, <2>2, <2>4, <2>5 DEF Form, Double
    <2>7. PICK x \in Nat : x = m * b /\ x = r.num * d
      <3>1. m * (d * P) = (m * P) * d
        BY <2>1, <2>4, <2>6
      <3> QED
        BY <3>1, <2>5, <2>6, Product
    <2>8. 2 * x <= 2 * a + b /\ 2 * a <= 2 * x + b
      BY <2>5, <2>6, <2>7, NearestBounds
    <2>9. PICK c \in Nat : c = L * (Q * d) /\ c = (L * Q) * d
      <3>1. L * (Q * d) = (L * Q) * d /\ Q * d \in Nat
        BY <1>1, <2>1, <2>4
      <3> QED
        BY <3>1, <1>1, Product
    <2>10. a <= c
      <3>1. n * Q <= (L * d) * Q
        BY <1>1, <2>1, <2>4, TimesMono, Product
      <3>2. (L * d) * Q = L * (Q * d)
        BY <1>1, <2>1, <2>4
      <3> QED
        BY <3>1, <3>2, <2>5, <2>9
    <2>11. h * b = (h * P) * d
      BY <1>1, <2>1, <2>4, <2>5
    <2>12. PICK i \in Nat, j \in Nat :
              /\ i = (Mantissa - 1) + p /\ j = k + q
              /\ pow2[i] = h * P /\ pow2[j] = L * Q
      <3>1. PICK i \in Nat, j \in Nat : i = (Mantissa - 1) + p /\ j = k + q
        BY <2>3, Widths
      <3>2. IsSum(i, Mantissa - 1, p) /\ IsSum(j, k, q)
        BY <3>1 DEF IsSum
      <3>3. pow2[i] = h * P /\ pow2[j] = L * Q
        BY <3>2, <2>3, <2>4, <1>1, Widths, PowSum
      <3> QED
        BY <3>1, <3>3
    <2>13. i <= j
      <3>1. (h * P) * d <= (L * Q) * d
        BY <2>6, <2>9, <2>10, <2>11, <1>1, <2>5
      <3>2. pow2[i] <= pow2[j]
        BY <3>1, <2>1, <2>12, <1>1, <2>4, TimesCancel, Product
      <3> QED
        BY <3>2, <2>12, PowOrder
    <2>14. PICK u \in Nat, v \in Nat, z \in Nat : u = w * x /\ v = w * a /\ z = w * b
      BY <1>1, <2>5, <2>7, Product
    <2>15. 2 * u <= 2 * v + z /\ 2 * v <= 2 * u + z
      <3>1. w * (2 * x) <= w * (2 * a + b) /\ w * (2 * a) <= w * (2 * x + b)
        BY <2>8, <1>1, <2>5, <2>7, TimesMono, Product
      <3>2. /\ w * (2 * x) = 2 * (w * x) /\ w * (2 * a + b) = 2 * (w * a) + w * b
            /\ w * (2 * a) = 2 * (w * a) /\ w * (2 * x + b) = 2 * (w * x) + w * b
        BY <1>1, <2>5, <2>7
      <3> QED
        BY <3>1, <3>2, <2>14
    <2>16. 2 * u <= 2 * v + c /\ 2 * v <= 2 * u + c
      <3>1. CASE i < j
        <4>1. 2 * (h * P) <= L * Q
          <5>1. pow2[i + 1] = 2 * pow2[i] /\ pow2[i + 1] <= pow2[j]
            BY <2>12, <3>1, PowEquation, PowMono
          <5> QED
            BY <5>1, <2>12
        <4>2. (2 * (h * P)) * d <= (L * Q) * d
          BY <4>1, <1>1, <2>1, <2>4, TimesMono, Product
        <4>3. (2 * (h * P)) * d = w * b
          BY <1>1, <2>1, <2>4, <2>5
        <4>4. z <= c
          BY <4>2, <4>3, <2>9, <2>14
        <4> QED
          BY <4>4, <2>9, <2>14, <2>15
      <3>2. CASE i = j
        <4>1. h * b = c
          BY <3>2, <2>9, <2>11, <2>12
        <4>2. a = h * b
          BY <4>1, <2>6, <2>9, <2>10, <2>5
        <4>3. m = h
          BY <4>2, <2>5, <2>6, <1>1, NearestExact
        <4>4. u = v
          BY <4>2, <4>3, <2>7, <2>14
        <4> QED
          BY <4>4, <2>9, <2>14
      <3> QED
        BY <2>12, <2>13, <3>1, <3>2
    <2>17. (2 * w) * x = 2 * u /\ (2 * w) * a = 2 * v
      BY <1>1, <2>5, <2>7, <2>14
    <2>18. (2 * w) * x <= (2 * w) * a + c /\ (2 * w) * a <= (2 * w) * x + c
      BY <2>16, <2>17
    <2> QED
      BY <2>18, <2>5, <2>6, <2>7, <2>9, <1>1 DEF Near
  <1> QED
    BY <1>2, <1>3

(* A finer unit, a larger count of it: the same distance. *)
LEMMA NearScale ==
    ASSUME NEW X \in Nat, NEW a \in Nat, NEW b \in Nat, NEW c \in Nat, NEW d \in Nat,
           NEW e \in Nat, NEW H \in Nat, Near(X, a, b, c, d, e)
    PROVE  Near(X * H, a, b, c, d, e * H)
PROOF
  <1>1. PICK u \in Nat, v \in Nat, z \in Nat : u = a * d /\ v = c * b /\ z = b * d
    BY Product
  <1>2. PICK p \in Nat, q \in Nat, r \in Nat : p = X * u /\ q = X * v /\ r = e * z
    BY <1>1, Product
  <1>3. p <= q + r /\ q <= p + r
    BY <1>1, <1>2 DEF Near
  <1>4. p * H <= (q + r) * H /\ q * H <= (p + r) * H
    BY <1>2, <1>3, TimesMono
  <1>5. (q + r) * H = q * H + r * H /\ (p + r) * H = p * H + r * H
    BY <1>2
  <1>6. (X * H) * u = p * H /\ (X * H) * v = q * H /\ (e * H) * z = r * H
    BY <1>1, <1>2
  <1> QED
    BY <1>1, <1>4, <1>5, <1>6 DEF Near

(* The distance grows with a factor of both sides, *)
LEMMA NearTimes ==
    ASSUME NEW X \in Nat, NEW a \in Nat, NEW b \in Nat, NEW c \in Nat, NEW d \in Nat,
           NEW e \in Nat, NEW N \in Nat, Near(X, a, b, c, d, e)
    PROVE  Near(X, a * N, b, c * N, d, e * N)
PROOF
  <1>1. PICK u \in Nat, v \in Nat, z \in Nat : u = a * d /\ v = c * b /\ z = b * d
    BY Product
  <1>2. PICK p \in Nat, q \in Nat, r \in Nat : p = X * u /\ q = X * v /\ r = e * z
    BY <1>1, Product
  <1>3. p <= q + r /\ q <= p + r
    BY <1>1, <1>2 DEF Near
  <1>4. p * N <= (q + r) * N /\ q * N <= (p + r) * N
    BY <1>2, <1>3, TimesMono
  <1>5. (q + r) * N = q * N + r * N /\ (p + r) * N = p * N + r * N
    BY <1>2
  <1>6. (a * N) * d = u * N /\ (c * N) * b = v * N
    BY <1>1
  <1>7. X * (u * N) = p * N /\ X * (v * N) = q * N /\ (e * N) * z = r * N
    BY <1>1, <1>2
  <1> QED
    BY <1>1, <1>4, <1>5, <1>6, <1>7 DEF Near

(* ... and stays the same when both grow by an integer. *)
LEMMA NearPlus ==
    ASSUME NEW X \in Nat, NEW a \in Nat, NEW b \in Nat, NEW c \in Nat, NEW d \in Nat,
           NEW e \in Nat, NEW S \in Nat, Near(X, a, b, c, d, e)
    PROVE  Near(X, S * b + a, b, S * d + c, d, e)
PROOF
  <1>1. PICK u \in Nat, v \in Nat, z \in Nat, y \in Nat :
           u = a * d /\ v = c * b /\ z = b * d /\ y = S * (b * d)
    <2>1. b * d \in Nat
      BY Product
    <2> QED
      BY <2>1, Product
  <1>2. PICK p \in Nat, q \in Nat, r \in Nat, x \in Nat :
           p = X * u /\ q = X * v /\ r = e * z /\ x = X * y
    BY <1>1, Product
  <1>3. p <= q + r /\ q <= p + r
    BY <1>1, <1>2 DEF Near
  <1>4. (S * b + a) * d = y + u /\ (S * d + c) * b = y + v
    BY <1>1
  <1>5. X * (y + u) = x + p /\ X * (y + v) = x + q
    BY <1>1, <1>2
  <1>6. x + p <= (x + q) + r /\ x + q <= (x + p) + r
    BY <1>2, <1>3
  <1> QED
    BY <1>1, <1>2, <1>4, <1>5, <1>6 DEF Near

(* What a quotient of integers cuts off. *)
LEMMA NearQuotient ==
    ASSUME NEW X \in Nat, NEW g \in Nat, NEW i \in Nat, NEW t \in Nat, NEW r \in Nat,
           g = i * t + r, r < i
    PROVE  Near(X, t, 1, g, i, X)
PROOF
  <1>1. PICK u \in Nat : u = t * i /\ u = i * t
    BY Product
  <1>2. u <= g + i /\ g <= u + i
    BY <1>1
  <1>3. X * u <= X * (g + i) /\ X * g <= X * (u + i)
    BY <1>1, <1>2, TimesMono, Product
  <1>4. X * (g + i) = X * g + X * i /\ X * (u + i) = X * u + X * i
    BY <1>1
  <1>5. g * 1 = g /\ 1 * i = i
    OBVIOUS
  <1> QED
    BY <1>1, <1>3, <1>4, <1>5 DEF Near

(* A divisor that is one too small. *)
LEMMA NearDivisor ==
    ASSUME NEW k \in Nat, NEW S \in Nat, NEW f \in Nat, NEW F \in Nat, f <= F,
           NEW N \in Nat, NEW H \in Nat, H = F + 1
    PROVE  Near(k * H, (S * F + f) * N, F, (H * S + f) * N, H, k * N)
PROOF
  <1>1. PICK u \in Nat, v \in Nat :
           u = ((S * F + f) * N) * H /\ v = ((H * S + f) * N) * F
    <2>1. S * F + f \in Nat /\ H * S + f \in Nat
      BY Product
    <2>2. (S * F + f) * N \in Nat /\ (H * S + f) * N \in Nat
      BY <2>1, Product
    <2> QED
      BY <2>2, Product
  <1>2. PICK p \in Nat : p = N * f
    BY Product
  <1>3. u = v + p
    <2>1. PICK y \in Nat : y = (S * N) * (F * H)
      <3>1. S * N \in Nat /\ F * H \in Nat
        BY Product
      <3> QED
        BY <3>1, Product
    <2>2. u = y + p * H
      BY <1>1, <1>2, <2>1
    <2>3. v = y + p * F
      BY <1>1, <1>2, <2>1
    <2>4. p * H = p * F + p
      BY <1>2
    <2> QED
      BY <2>1, <2>2, <2>3, <2>4, <1>2
  <1>4. PICK K \in Nat, q \in Nat : K = k * H /\ q = N * F
    BY Product
  <1>5. p <= q
    BY <1>2, <1>4, TimesMono, Product
  <1>6. K * p <= K * q
    BY <1>2, <1>4, <1>5, TimesMono, Product
  <1>7. (k * N) * (F * H) = K * q
    BY <1>4
  <1>8. K * u = K * v + K * p
    BY <1>1, <1>2, <1>3, <1>4
  <1>9. K * u \in Nat /\ K * v \in Nat /\ K * p \in Nat /\ K * q \in Nat
    BY <1>1, <1>2, <1>4, Product
  <1>10. K * u <= K * v + K * q /\ K * v <= K * u + K * q
    BY <1>6, <1>8, <1>9
  <1> QED
    BY <1>1, <1>4, <1>7, <1>10 DEF Near

(* The time shown is within the stated distance of the stamp: the          *)
(* distances of the three conversions and the cast, added up.              *)
LEMMA UnixTimeClose ==
    ASSUME NEW s \in Stamp
    PROVE  Close(UnixTime(s), s)
PROOF
  <1>1. PICK x, y, z : x = Quot(s) /\ y = Sum(s) /\ z = Prod(s)
    OBVIOUS
  <1>2. PICK S \in Nat, f \in Nat, F \in Nat :
           /\ S = Seconds(s) /\ f = Fractions(s) /\ F = FractionMax /\ F >= 1 /\ f <= F
           /\ s = pow2[FracBits] * S + f /\ S + 1 <= pow2[SecBits]
    BY StampParts
  <1>3. PICK H \in Nat, w \in Nat, N \in Nat, L \in Nat :
           /\ H = pow2[FracBits] /\ w = pow2[Mantissa] /\ N = PerSecond /\ L = pow2[SecBits]
           /\ H = F + 1 /\ w >= 1 /\ L >= 1 /\ N >= 1
    <2>1. /\ pow2[FracBits] \in Nat /\ pow2[Mantissa] \in Nat /\ pow2[SecBits] \in Nat
          /\ pow2[Mantissa] >= 1 /\ pow2[SecBits] >= 1 /\ PerSecond \in Nat /\ PerSecond >= 1
      BY Widths, PowPositive
    <2>2. pow2[FracBits] = F + 1
      BY <2>1, <1>2 DEF FractionMax
    <2> QED
      BY <2>1, <2>2
  <1>4. PICK a \in Nat, b \in Nat :
           a = x.num /\ b = x.den /\ b >= 1 /\ a <= b /\ Fine(f, F)
    BY <1>1, <1>2, QuotFine
  <1>5. PICK c \in Nat, d \in Nat :
           c = y.num /\ d = y.den /\ d >= 1 /\ c <= L * d /\ Fine(S * b + a, b)
    BY <1>1, <1>2, <1>3, <1>4, SumFine
  <1>6. PICK g \in Nat, i \in Nat :
           g = z.num /\ i = z.den /\ i >= 1 /\ Fine(c * N, d)
    BY <1>1, <1>3, <1>5, ProdFine
  <1>7. PICK t \in Nat, r \in Nat : t = UnixTime(s) /\ g = i * t + r /\ r < i
    <2>1. UnixTime(s) = g \div i
      BY <1>1, <1>6 DEF UnixTime, Prod, Sum, Quot
    <2> QED
      BY <2>1, <1>6, DivMod
  <1>8. PICK X \in Nat, W \in Nat : W = 2 * w /\ X = W * H
    <2>1. PICK W \in Nat : W = 2 * w
      BY <1>3
    <2>2. W * H \in Nat
      BY <2>1, <1>3, Product
    <2> QED
      BY <2>1, <2>2
  <1>9. PICK LN \in Nat, NH \in Nat, C \in Nat, B \in Nat, A \in Nat :
           /\ LN = L * N /\ NH = N * H /\ C = c * N /\ B = S * b + a /\ A = S * F + f
    <2>1. L * N \in Nat /\ N * H \in Nat /\ c * N \in Nat /\ S * b \in Nat /\ S * F \in Nat
      BY <1>2, <1>3, <1>4, <1>5, Product
    <2>2. S * b + a \in Nat /\ S * F + f \in Nat
      BY <2>1, <1>2, <1>4
    <2> QED
      BY <2>1, <2>2
  (* What the cast cuts off. *)
  <1>10. Near(X, t, 1, g, i, X)
    BY <1>6, <1>7, <1>8, NearQuotient
  (* The rounding of the product. *)
  <1>11. Near(X, g, i, C, d, LN * (2 * H))
    <2>1. w * (g * d) <= w * (C * i) + C * i /\ w * (C * i) <= w * (g * d) + C * i
      <3>1. z = Round(C, d) /\ Fine(C, d)
        BY <1>1, <1>3, <1>5, <1>6, <1>9 DEF Prod
      <3> QED
        BY <3>1, <1>3, <1>6, RoundError
    <2>2. C * i <= LN * (i * d)
      <3>1. c * N <= (L * d) * N
        BY <1>3, <1>5, TimesMono, Product
      <3>2. (c * N) * i <= ((L * d) * N) * i
        BY <3>1, <1>3, <1>5, <1>6, TimesMono, Product
      <3>3. ((L * d) * N) * i = (L * N) * (i * d)
        BY <1>3, <1>5, <1>6
      <3> QED
        BY <3>2, <3>3, <1>9
    <2>3. PICK u \in Nat, v \in Nat, x1 \in Nat, x2 \in Nat :
             u = w * (g * d) /\ v = w * (C * i) /\ x1 = C * i /\ x2 = LN * (i * d)
      <3>1. g * d \in Nat /\ C * i \in Nat /\ i * d \in Nat
        BY <1>5, <1>6, <1>9, Product
      <3> QED
        BY <3>1, <1>3, <1>9, Product
    <2>4. u <= v + x2 /\ v <= u + x2
      BY <2>1, <2>2, <2>3
    <2>5. Near(w, g, i, C, d, LN)
      BY <2>3, <2>4 DEF Near
    <2>6. 2 * H \in Nat
      BY <1>3
    <2>7. Near(w * (2 * H), g, i, C, d, LN * (2 * H))
      BY <2>5, <2>6, <1>3, <1>5, <1>6, <1>9, NearScale
    <2>8. w * (2 * H) = X
      BY <1>3, <1>8
    <2> QED
      BY <2>7, <2>8
  (* The rounding of the sum. *)
  <1>12. Near(X, C, d, B * N, b, LN * H)
    <2>1. B <= L * b
      <3>1. (S + 1) * b <= L * b /\ (S + 1) * b = S * b + b
        BY <1>2, <1>3, <1>4, TimesMono, TimesNext
      <3>2. S * b \in Nat /\ L * b \in Nat
        BY <1>2, <1>3, <1>4, Product
      <3> QED
        BY <3>1, <3>2, <1>3, <1>4, <1>9
    <2>2. y = Round(B, b) /\ Fine(B, b)
      BY <1>1, <1>2, <1>4, <1>5, <1>9 DEF Sum
    <2>3. Near(W, c, d, B, b, L)
      BY <2>1, <2>2, <1>3, <1>5, <1>8, Widths, RoundErrorAtMost
    <2>4. Near(W, C, d, B * N, b, LN)
      BY <2>3, <1>3, <1>4, <1>5, <1>8, <1>9, NearTimes
    <2>5. B * N \in Nat
      BY <1>3, <1>9, Product
    <2> QED
      BY <2>4, <2>5, <1>3, <1>4, <1>5, <1>8, <1>9, NearScale
  (* The rounding of the quotient. *)
  <1>13. Near(X, B * N, b, A * N, F, NH)
    <2>1. x = Round(f, F) /\ Fine(f, F) /\ f <= pow2[0] * F
      BY <1>1, <1>2, <1>4, PowEquation DEF Quot
    <2>2. Near(W, a, b, f, F, 1)
      BY <2>1, <1>2, <1>3, <1>4, <1>8, PowEquation, RoundErrorAtMost
    <2>3. Near(W, B, b, A, F, 1)
      BY <2>2, <1>2, <1>4, <1>8, <1>9, NearPlus
    <2>4. PICK BN \in Nat, AN \in Nat, o \in Nat : BN = B * N /\ AN = A * N /\ o = 1
      BY <1>3, <1>9, Product
    <2>5. Near(W, B * N, b, A * N, F, o * N)
      BY <2>3, <2>4, <1>2, <1>3, <1>4, <1>8, <1>9, NearTimes
    <2>6. o * N = N
      BY <2>4, <1>3
    <2>7. Near(W, BN, b, AN, F, N)
      BY <2>4, <2>5, <2>6
    <2>8. Near(W * H, BN, b, AN, F, N * H)
      BY <2>4, <2>7, <1>2, <1>3, <1>4, <1>8, NearScale
    <2> QED
      BY <2>4, <2>8, <1>8, <1>9
  (* The divisor. *)
  <1>14. Near(X, A * N, F, s * N, H, W * N)
    BY <1>2, <1>3, <1>8, <1>9, NearDivisor
  <1>15. s \in Nat /\ s * N \in Nat /\ A * N \in Nat /\ B * N \in Nat /\ W * N \in Nat
    <2>1. s \in Nat
      BY StampParts DEF Stamp
    <2> QED
      BY <2>1, <1>3, <1>8, <1>9, Product
  <1>16. PICK E \in Nat, e1 \in Nat, e2 \in Nat :
            /\ e1 = LN * (2 * H) /\ e2 = LN * H
            /\ E = (((X + e1) + e2) + NH) + W * N
    <2>1. LN * (2 * H) \in Nat /\ LN * H \in Nat
      BY <1>3, <1>9, Product
    <2> QED
      BY <2>1, <1>8, <1>9, <1>15
  <1>17. Near(X, t, 1, s * N, H, E)
    <2>1. PICK e3 \in Nat, e4 \in Nat, e5 \in Nat, e6 \in Nat :
             /\ e3 = X + e1 /\ e4 = e3 + e2 /\ e5 = e4 + NH /\ e6 = W * N
             /\ E = e5 + e6
      BY <1>8, <1>9, <1>15, <1>16
    <2>2. PICK BN \in Nat, AN \in Nat, sN \in Nat : BN = B * N /\ AN = A * N /\ sN = s * N
      BY <1>15
    <2>3. /\ Near(X, t, 1, g, i, X) /\ Near(X, g, i, C, d, e1) /\ Near(X, C, d, BN, b, e2)
          /\ Near(X, BN, b, AN, F, NH) /\ Near(X, AN, F, sN, H, e6)
      BY <2>1, <2>2, <1>10, <1>11, <1>12, <1>13, <1>14, <1>16
    <2>4. /\ X \in Nat /\ t \in Nat /\ g \in Nat /\ i \in Nat /\ i >= 1 /\ C \in Nat
          /\ d \in Nat /\ d >= 1 /\ BN \in Nat /\ b \in Nat /\ b >= 1 /\ AN \in Nat
          /\ F \in Nat /\ F >= 1 /\ sN \in Nat /\ H \in Nat
      BY <2>2, <1>2, <1>3, <1>4, <1>5, <1>6, <1>7, <1>8, <1>9
    <2>5. /\ e1 \in Nat /\ e2 \in Nat /\ NH \in Nat
          /\ e3 \in Nat /\ e4 \in Nat /\ e5 \in Nat /\ e6 \in Nat
          /\ e3 = X + e1 /\ e4 = e3 + e2 /\ e5 = e4 + NH
      BY <2>1, <1>9, <1>16
    <2>6. Near(X, t, 1, C, d, e3)
      BY <2>3, <2>4, <2>5, NearTriangle
    <2>7. Near(X, t, 1, BN, b, e4)
      BY <2>3, <2>4, <2>5, <2>6, NearTriangle
    <2>8. Near(X, t, 1, AN, F, e5)
      BY <2>3, <2>4, <2>5, <2>7, NearTriangle
    <2>9. Near(X, t, 1, sN, H, e5 + e6)
      BY <2>3, <2>4, <2>5, <2>8, NearTriangle
    <2> QED
      BY <2>1, <2>2, <2>9
  <1>18. PICK G \in Nat, LH \in Nat, R \in Nat :
            /\ LH = L * H /\ R = (2 * N) * LH /\ G = (H + N) * w + R /\ E <= 2 * G
    <2>1. PICK LH \in Nat, Hw \in Nat, Nw \in Nat : LH = L * H /\ Hw = H * w /\ Nw = N * w
      BY <1>3, Product
    <2>2. PICK P \in Nat : P = N * LH /\ P = LN * H
      <3>1. N * (L * H) = (L * N) * H
        BY <1>3
      <3> QED
        BY <3>1, <2>1, <1>3, <1>9, Product
    <2>3. NH <= P
      <3>1. L * NH = (L * N) * H
        <4>1. L * (N * H) = (L * N) * H
          BY <1>3
        <4> QED
          BY <4>1, <1>9
      <3>2. NH <= NH * L /\ NH * L = L * NH
        BY <1>3, <1>9
      <3> QED
        BY <3>1, <3>2, <2>2, <1>9
    <2>4. e2 = P /\ e1 = 2 * P
      <3>1. LN * (2 * H) = 2 * (LN * H)
        <4>1. LN \in Nat /\ H \in Nat
          BY <1>3, <1>9
        <4> QED
          BY <4>1
      <3> QED
        BY <3>1, <2>2, <1>16
    <2>5. X = 2 * Hw /\ W * N = 2 * Nw
      BY <2>1, <1>3, <1>8
    <2>6. PICK R \in Nat : R = (2 * N) * LH /\ R = 2 * P
      <3>1. (2 * N) * LH = 2 * (N * LH)
        BY <2>1, <1>3
      <3> QED
        BY <3>1, <2>2
    <2>7. (H + N) * w = Hw + Nw
      BY <2>1, <1>3
    <2>8. PICK G \in Nat : G = (H + N) * w + R /\ G = (Hw + Nw) + R
      BY <2>1, <2>6, <2>7
    <2>9. E = (((2 * Hw + 2 * P) + P) + NH) + 2 * Nw
      BY <2>4, <2>5, <1>16
    <2>10. /\ Hw \in Nat /\ Nw \in Nat /\ P \in Nat /\ NH \in Nat /\ R \in Nat /\ G \in Nat
           /\ NH <= P /\ G = (Hw + Nw) + R /\ R = 2 * P
      BY <2>1, <2>2, <2>3, <2>6, <2>8, <1>9
    <2>11. E <= 2 * G
      BY <2>9, <2>10
    <2> QED
      BY <2>1, <2>6, <2>8, <2>11
  <1>19. PICK u \in Nat, v \in Nat : u = t * H /\ v = s * N
    BY <1>3, <1>7, <1>15, Product
  <1>20. u * w <= v * w + G /\ v * w <= u * w + G
    <2>1. X * u <= X * v + E * H /\ X * v <= X * u + E * H
      <3>1. v * 1 = v /\ 1 * H = H
        BY <1>3, <1>19
      <3> QED
        BY <3>1, <1>17, <1>19 DEF Near
    <2>2. PICK K \in Nat : K = 2 * H /\ K >= 1
      BY <1>2, <1>3
    <2>3. PICK p \in Nat, q \in Nat : p = u * w /\ q = v * w
      BY <1>3, <1>19, Product
    <2>4. X * u = p * K /\ X * v = q * K
      <3>1. u \in Nat /\ v \in Nat /\ w \in Nat /\ H \in Nat
        BY <1>3, <1>19
      <3>2. ((2 * w) * H) * u = (u * w) * (2 * H) /\ ((2 * w) * H) * v = (v * w) * (2 * H)
        BY <3>1
      <3> QED
        BY <3>2, <2>2, <2>3, <1>8
    <2>5. E * H <= G * K
      <3>1. E * H <= (2 * G) * H /\ (2 * G) * H = G * K
        BY <2>2, <1>3, <1>16, <1>18, TimesMono
      <3> QED
        BY <3>1
    <2>6. PICK x1 \in Nat, x2 \in Nat, x3 \in Nat, x4 \in Nat :
             x1 = p * K /\ x2 = q * K /\ x3 = E * H /\ x4 = G * K
      <3>1. p \in Nat /\ q \in Nat /\ K \in Nat /\ E \in Nat /\ H \in Nat /\ G \in Nat
        BY <2>2, <2>3, <1>3, <1>16, <1>18
      <3>2. p * K \in Nat /\ q * K \in Nat /\ E * H \in Nat /\ G * K \in Nat
        BY <3>1, Product
      <3> QED
        BY <3>2
    <2>7. x1 <= x2 + x3 /\ x2 <= x1 + x3 /\ x3 <= x4
      BY <2>1, <2>4, <2>5, <2>6
    <2>8. x1 <= x2 + x4 /\ x2 <= x1 + x4
      BY <2>6, <2>7
    <2>9. p * K <= (q + G) * K /\ q * K <= (p + G) * K
      <3>1. (q + G) * K = q * K + G * K /\ (p + G) * K = p * K + G * K
        BY <2>2, <2>3, <1>18
      <3> QED
        BY <3>1, <2>6, <2>8
    <2>10. q + G \in Nat /\ p + G \in Nat
      BY <2>3, <1>18
    <2>11. p <= q + G /\ q <= p + G
      BY <2>2, <2>3, <2>9, <2>10, TimesCancel
    <2> QED
      BY <2>3, <2>11
  <1>21. Abs(u - v) * w <= G
    <2>1. CASE u < v
      <3>1. Abs(u - v) = v - u /\ (v - u) * w = v * w - u * w
        BY <2>1, <1>19, <1>3 DEF Abs
      <3>2. u * w \in Nat /\ v * w \in Nat
        BY <1>3, <1>19, Product
      <3> QED
        BY <3>1, <3>2, <1>18, <1>20
    <2>2. CASE v <= u
      <3>1. Abs(u - v) = u - v /\ (u - v) * w = u * w - v * w
        BY <2>2, <1>19, <1>3 DEF Abs
      <3>2. u * w \in Nat /\ v * w \in Nat
        BY <1>3, <1>19, Product
      <3> QED
        BY <3>1, <3>2, <1>18, <1>20
    <2> QED
      BY <2>1, <2>2, <1>19
  <1>22. pow2[SecBits + FracBits] = LH
    <2>1. pow2[SecBits + FracBits] = pow2[SecBits] * pow2[FracBits]
      BY Widths, PowAdd
    <2> QED
      BY <2>1, <1>3, <1>18
  <1> QED
    BY <1>3, <1>7, <1>18, <1>19, <1>21, <1>22 DEF Close

-----------------------------------------------------------------------------
(* The decimal texts of numbers, and the numbers of texts. *)

Digit == Zero..(Zero + 9)

DigitsEquation(n) ==
    digits[n] = IF n < 10 THEN <<Zero + n>> ELSE Append(digits[n \div 10], Zero + (n % 10))

(* digits is what its equation says, and gives texts of digits. *)
LEMMA Digits ==
    \A n \in Nat : DigitsEquation(n) /\ digits[n] \in Seq(Digit) /\ digits[n] # <<>>
PROOF
  <1>1. PICK S, b, g :
           /\ S = [Nat -> Seq(Digit)]
           /\ b = [n \in Nat |-> <<>>]
           /\ g = [p \in Nat \X S |-> [n \in Nat |->
                     IF n < 10 THEN <<Zero + n>>
                     ELSE Append(p[2][n \div 10], Zero + (n % 10))]]
    OBVIOUS
  <1>2. \A n \in Nat : /\ n \div 10 \in Nat /\ (n >= 10 => n \div 10 < n)
                       /\ Zero + (n % 10) \in Digit
                       /\ n < 10 => Zero + n \in Digit
    BY DEF Digit, Zero
  <1>3. b \in S /\ g \in Step(S)
    <2>1. b \in S
      BY <1>1
    <2>2. ASSUME NEW p \in Nat \X S
          PROVE  g[p] \in S
      <3>1. p[2] \in [Nat -> Seq(Digit)]
        BY <1>1
      <3>2. ASSUME NEW n \in Nat
            PROVE  (IF n < 10 THEN <<Zero + n>>
                    ELSE Append(p[2][n \div 10], Zero + (n % 10))) \in Seq(Digit)
        <4>1. p[2][n \div 10] \in Seq(Digit)
          BY <1>2, <3>1
        <4> QED
          BY <4>1, <1>2
      <3> QED
        BY <1>1, <3>2
    <2> QED
      BY <1>1, <2>1, <2>2 DEF Step
  <1>4. PICK f : Recursive(f, S, b, g)
    BY <1>3, Recursion
  <1>5. f \in [Nat -> [Nat -> Seq(Digit)]] /\ \A k \in Nat : f[k + 1] = g[<<k, f[k]>>]
    BY <1>1, <1>4 DEF Recursive
  <1>6. \A k, n \in Nat :
           f[k + 1][n] = IF n < 10 THEN <<Zero + n>>
                         ELSE Append(f[k][n \div 10], Zero + (n % 10))
    BY <1>1, <1>5
  (* Below k the approximations agree. *)
  <1> DEFINE T == {k \in Nat : \A i, n \in Nat : n < k /\ k <= i => f[i][n] = f[k][n]}
  <1>7. \A k \in Nat : k \in T
    <2>1. 0 \in T
      OBVIOUS
    <2>2. ASSUME NEW k \in Nat, k \in T
          PROVE  k + 1 \in T
      <3> SUFFICES ASSUME NEW i \in Nat, NEW n \in Nat, n < k + 1, k + 1 <= i
                   PROVE  f[i][n] = f[k + 1][n]
        OBVIOUS
      <3>1. PICK j \in Nat : i = j + 1 /\ k <= j
        <4>1. i - 1 \in Nat /\ i = (i - 1) + 1 /\ k <= i - 1
          OBVIOUS
        <4> QED
          BY <4>1
      <3>2. CASE n < 10
        BY <3>1, <3>2, <1>6
      <3>3. CASE n >= 10
        <4>1. n \div 10 \in Nat /\ n \div 10 < k
          BY <1>2, <3>3
        <4>2. f[j][n \div 10] = f[k][n \div 10]
          BY <2>2, <3>1, <4>1
        <4>3. f[j + 1][n] = Append(f[j][n \div 10], Zero + (n % 10))
          <5>1. f[j + 1][n] = IF n < 10 THEN <<Zero + n>>
                              ELSE Append(f[j][n \div 10], Zero + (n % 10))
            BY <3>1, <1>6
          <5>2. ~(n < 10)
            BY <3>3
          <5> QED
            BY <5>1, <5>2, Zenon
        <4>4. f[k + 1][n] = Append(f[k][n \div 10], Zero + (n % 10))
          <5>1. f[k + 1][n] = IF n < 10 THEN <<Zero + n>>
                              ELSE Append(f[k][n \div 10], Zero + (n % 10))
            BY <1>6
          <5>2. ~(n < 10)
            BY <3>3
          <5> QED
            BY <5>1, <5>2, Zenon
        <4> QED
          BY <3>1, <4>2, <4>3, <4>4
      <3> QED
        BY <3>2, <3>3
    <2> HIDE DEF T
    <2> QED
      BY <2>1, <2>2, Induction
  <1>8. PICK h : h = [n \in Nat |-> f[n + 1][n]]
    OBVIOUS
  <1>9. ASSUME NEW n \in Nat
        PROVE  h[n] = IF n < 10 THEN <<Zero + n>>
                      ELSE Append(h[n \div 10], Zero + (n % 10))
    <2>1. CASE n < 10
      BY <2>1, <1>6, <1>8
    <2>2. CASE n >= 10
      <3>1. PICK m \in Nat : m = n \div 10 /\ m < n
        BY <1>2, <2>2
      <3>2. m + 1 \in T /\ m < m + 1 /\ m + 1 <= n
        BY <1>7, <3>1
      <3>3. f[n][m] = f[m + 1][m]
        BY <3>1, <3>2
      <3> QED
        BY <2>2, <3>1, <3>3, <1>6, <1>8
    <2> QED
      BY <2>1, <2>2
  <1>10. h = [n \in Nat |-> IF n < 10 THEN <<Zero + n>>
                            ELSE Append(h[n \div 10], Zero + (n % 10))]
    BY <1>8, <1>9
  <1>11. digits = [n \in Nat |-> IF n < 10 THEN <<Zero + n>>
                                 ELSE Append(digits[n \div 10], Zero + (n % 10))]
    BY <1>10 DEF digits
  <1>12. \A n \in Nat : DigitsEquation(n)
    BY <1>11 DEF DigitsEquation
  <1> DEFINE U == {k \in Nat : \A n \in Nat : n < k => digits[n] \in Seq(Digit) /\ digits[n] # <<>>}
  <1>13. 0 \in U
    OBVIOUS
  <1>14. ASSUME NEW k \in Nat, k \in U
         PROVE  k + 1 \in U
    <2> SUFFICES ASSUME NEW n \in Nat, n < k + 1
                 PROVE  digits[n] \in Seq(Digit) /\ digits[n] # <<>>
      OBVIOUS
    <2>1. CASE n < 10
      <3>1. digits[n] = <<Zero + n>>
        BY <1>12, <2>1 DEF DigitsEquation
      <3> QED
        BY <3>1, <2>1, <1>2
    <2>2. CASE n >= 10
      <3>1. PICK m \in Nat, c \in Digit : m = n \div 10 /\ m < n /\ c = Zero + (n % 10)
        BY <1>2, <2>2
      <3>2. digits[n] = Append(digits[m], c)
        <4>1. DigitsEquation(n)
          BY <1>12
        <4>2. digits[n] = Append(digits[n \div 10], Zero + (n % 10))
          BY <4>1, <2>2 DEF DigitsEquation
        <4> QED
          BY <4>2, <3>1
      <3>3. digits[m] \in Seq(Digit)
        BY <1>14, <3>1
      <3> QED
        BY <3>2, <3>3
    <2> QED
      BY <2>1, <2>2
  <1>15. \A k \in Nat : k \in U
    <2> HIDE DEF U
    <2> QED
      BY <1>13, <1>14, Induction
  <1>16. ASSUME NEW n \in Nat
         PROVE  digits[n] \in Seq(Digit) /\ digits[n] # <<>>
    <2>1. n + 1 \in U
      <3> HIDE DEF U
      <3> QED
        BY <1>15
    <2> QED
      BY <2>1
  <1> QED
    BY <1>12, <1>16

(* A function with the equation of the one in NumberOf. *)
Values(of, text) ==
    of = [n \in 0..Len(text) |-> IF n = 0 THEN 0 ELSE 10 * of[n - 1] + (text[n] - Zero)]

(* The function in NumberOf exists ... *)
LEMMA ValuesExist ==
    ASSUME NEW text \in Seq(Int)
    PROVE  \E of \in [0..Len(text) -> Int] : Values(of, text)
PROOF
  <1>1. PICK S, b, g :
           /\ S = Int /\ b = 0
           /\ g = [p \in Nat \X S |->
                     IF p[1] < Len(text) THEN 10 * p[2] + (text[p[1] + 1] - Zero) ELSE 0]
    OBVIOUS
  <1>2. b \in S /\ g \in Step(S)
    <2>1. \A p \in Nat \X S : p[1] < Len(text) => text[p[1] + 1] \in Int
      OBVIOUS
    <2> QED
      BY <1>1, <2>1 DEF Step, Zero
  <1>3. PICK f : Recursive(f, S, b, g)
    BY <1>2, Recursion
  <1>4. f \in [Nat -> Int] /\ f[0] = 0 /\ \A k \in Nat : f[k + 1] = g[<<k, f[k]>>]
    BY <1>1, <1>3 DEF Recursive
  <1>5. ASSUME NEW n \in 1..Len(text)
        PROVE  f[n] = 10 * f[n - 1] + (text[n] - Zero)
    <2>1. n - 1 \in Nat /\ (n - 1) + 1 = n /\ n - 1 < Len(text)
      OBVIOUS
    <2>2. f[n] = g[<<n - 1, f[n - 1]>>]
      BY <2>1, <1>4
    <2> QED
      BY <2>1, <2>2, <1>1, <1>4
  <1>6. PICK of : of = [n \in 0..Len(text) |-> f[n]]
    OBVIOUS
  <1>7. of \in [0..Len(text) -> Int]
    BY <1>4, <1>6
  <1>8. ASSUME NEW n \in 0..Len(text)
        PROVE  of[n] = IF n = 0 THEN 0 ELSE 10 * of[n - 1] + (text[n] - Zero)
    <2>1. CASE n = 0
      BY <2>1, <1>4, <1>6
    <2>2. CASE n # 0
      <3>1. n \in 1..Len(text) /\ n - 1 \in 0..Len(text)
        BY <2>2
      <3>2. of[n] = f[n] /\ of[n - 1] = f[n - 1]
        BY <3>1, <1>6
      <3> QED
        BY <2>2, <3>1, <3>2, <1>5
    <2> QED
      BY <2>1, <2>2
  <1> QED
    BY <1>6, <1>7, <1>8 DEF Values

SamePrefix(t, u, l) == \A i \in 1..l : t[i] = u[i]

(* ... which depends on the digits read so far alone, *)
LEMMA ValuesUnique ==
    ASSUME NEW t \in Seq(Int), NEW u \in Seq(Int), NEW f, NEW h, Values(f, t), Values(h, u),
           NEW l \in Nat, l <= Len(t), l <= Len(u), SamePrefix(t, u, l)
    PROVE  f[l] = h[l]
PROOF
  <1> DEFINE T == {k \in Nat : k <= l => f[k] = h[k]}
  <1>1. 0 \in T
    BY DEF Values
  <1>2. ASSUME NEW k \in Nat, k \in T
        PROVE  k + 1 \in T
    <2> SUFFICES ASSUME k + 1 <= l
                 PROVE  f[k + 1] = h[k + 1]
      OBVIOUS
    <2>1. f[k] = h[k] /\ t[k + 1] = u[k + 1]
      BY <1>2 DEF SamePrefix
    <2>2. PICK j : j = k + 1 /\ j \in 0..Len(t) /\ j \in 0..Len(u) /\ j # 0 /\ j - 1 = k
      OBVIOUS
    <2>3. f[j] = 10 * f[j - 1] + (t[j] - Zero)
      BY <2>2 DEF Values
    <2>4. h[j] = 10 * h[j - 1] + (u[j] - Zero)
      BY <2>2 DEF Values
    <2> QED
      BY <2>1, <2>2, <2>3, <2>4
  <1> HIDE DEF T
  <1>3. \A k \in Nat : k \in T
    BY <1>1, <1>2, Induction
  <1> QED
    BY <1>3 DEF T

(* ... so that NumberOf is its last value. *)
LEMMA NumberOfValues ==
    ASSUME NEW text \in Seq(Int)
    PROVE  \E of \in [0..Len(text) -> Int] : Values(of, text) /\ NumberOf(text) = of[Len(text)]
PROOF
  <1>1. PICK f \in [0..Len(text) -> Int] : Values(f, text)
    BY ValuesExist
  <1>2. PICK v : v = CHOOSE of : Values(of, text)
    OBVIOUS
  <1>3. Values(v, text)
    BY <1>1, <1>2
  <1>4. NumberOf(text) = v[Len(text)]
    BY <1>2 DEF NumberOf, Values
  <1>5. v[Len(text)] = f[Len(text)]
    <2>1. Len(text) \in Nat /\ SamePrefix(text, text, Len(text))
      BY DEF SamePrefix
    <2> QED
      BY <2>1, <1>1, <1>3, ValuesUnique
  <1> QED
    BY <1>1, <1>4, <1>5

(* One more digit. *)
LEMMA NumberOfAppend ==
    ASSUME NEW t \in Seq(Int), NEW c \in Int
    PROVE  /\ NumberOf(t) \in Int
           /\ NumberOf(Append(t, c)) = 10 * NumberOf(t) + (c - Zero)
PROOF
  <1>1. PICK f \in [0..Len(t) -> Int] : Values(f, t) /\ NumberOf(t) = f[Len(t)]
    BY NumberOfValues
  <1>2. PICK u : u = Append(t, c)
    OBVIOUS
  <1>3. u \in Seq(Int) /\ Len(u) = Len(t) + 1 /\ u[Len(t) + 1] = c
    BY <1>2
  <1>4. \A i \in 1..Len(t) : t[i] = u[i]
    BY <1>2
  <1>5. PICK h \in [0..Len(u) -> Int] : Values(h, u) /\ NumberOf(u) = h[Len(u)]
    BY <1>3, NumberOfValues
  <1>6. f[Len(t)] = h[Len(t)]
    <2>1. PICK l \in Nat : l = Len(t) /\ l <= Len(t) /\ l <= Len(u)
      BY <1>3
    <2>2. SamePrefix(t, u, l)
      BY <2>1, <1>4 DEF SamePrefix
    <2>3. Values(f, t) /\ Values(h, u) /\ u \in Seq(Int)
      BY <1>1, <1>3, <1>5
    <2>4. f[l] = h[l]
      BY <2>1, <2>2, <2>3, ValuesUnique
    <2> QED
      BY <2>1, <2>4
  <1>7. h[Len(t) + 1] = 10 * h[Len(t)] + (c - Zero)
    BY <1>3, <1>5 DEF Values
  <1> QED
    BY <1>1, <1>2, <1>3, <1>5, <1>6, <1>7

(* Every number has its text. *)
LEMMA NumberOfDigits == \A n \in Nat : NumberOf(digits[n]) = n
PROOF
  <1> DEFINE T == {k \in Nat : \A n \in Nat : n < k => NumberOf(digits[n]) = n}
  <1>1. 0 \in T
    OBVIOUS
  <1>2. ASSUME NEW k \in Nat, k \in T
        PROVE  k + 1 \in T
    <2> SUFFICES ASSUME NEW n \in Nat, n < k + 1
                 PROVE  NumberOf(digits[n]) = n
      OBVIOUS
    <2>1. DigitsEquation(n)
      BY Digits
    <2>2. CASE n < 10
      <3>1. digits[n] = Append(<<>>, Zero + n) /\ <<>> \in Seq(Int) /\ Zero + n \in Int
        BY <2>1, <2>2 DEF DigitsEquation, Zero
      <3>2. NumberOf(<<>>) = 0
        <4>1. PICK of : Values(of, <<>>) /\ NumberOf(<<>>) = of[Len(<<>>)]
          BY <3>1, NumberOfValues
        <4> QED
          BY <4>1 DEF Values
      <3>3. PICK t \in Seq(Int), c \in Int : t = <<>> /\ c = Zero + n
        BY <3>1
      <3>4. NumberOf(Append(t, c)) = 10 * NumberOf(t) + (c - Zero)
        BY NumberOfAppend
      <3>5. NumberOf(digits[n]) = 10 * 0 + (c - Zero)
        BY <3>1, <3>2, <3>3, <3>4
      <3> QED
        BY <3>3, <3>5 DEF Zero
    <2>3. CASE n >= 10
      <3>1. PICK m \in Nat, r \in Nat :
               m = n \div 10 /\ r = n % 10 /\ m < n /\ n = 10 * m + r
        BY <2>3
      <3>2. digits[n] = Append(digits[m], Zero + r)
        BY <2>1, <2>3, <3>1 DEF DigitsEquation
      <3>3. digits[m] \in Seq(Int)
        <4>1. digits[m] \in Seq(Digit)
          BY Digits
        <4> QED
          BY <4>1 DEF Digit, Zero
      <3>4. NumberOf(digits[m]) = m
        BY <1>2, <3>1
      <3>5. PICK t \in Seq(Int), c \in Int : t = digits[m] /\ c = Zero + r
        BY <3>3 DEF Zero
      <3>6. NumberOf(Append(t, c)) = 10 * NumberOf(t) + (c - Zero)
        BY NumberOfAppend
      <3>7. NumberOf(digits[n]) = 10 * m + (c - Zero)
        BY <3>2, <3>4, <3>5, <3>6
      <3> QED
        BY <3>1, <3>5, <3>7 DEF Zero
    <2> QED
      BY <2>2, <2>3
  <1>3. \A k \in Nat : k \in T
    <2> HIDE DEF T
    <2> QED
      BY <1>1, <1>2, Induction
  <1>4. ASSUME NEW n \in Nat
        PROVE  NumberOf(digits[n]) = n
    <2>1. n + 1 \in T
      <3> HIDE DEF T
      <3> QED
        BY <1>3
    <2> QED
      BY <2>1
  <1> QED
    BY <1>4

-----------------------------------------------------------------------------
(* Payloads. *)

Byte == 0..255

(* Cutting at NUL gives bytes, and leaves a text without NUL alone. *)
LEMMA CutAtNulOK ==
    ASSUME NEW text \in Seq(Byte)
    PROVE  /\ CutAtNul(text) \in Seq(Byte)
           /\ ~HasNul(text) => CutAtNul(text) = text
PROOF
  <1>1. CASE ~HasNul(text)
    BY <1>1 DEF CutAtNul
  <1>2. CASE HasNul(text)
    <2>1. PICK I \in SUBSET Nat : I = {i \in 1..Len(text) : text[i] = NUL} /\ I # {}
      <3>1. {i \in 1..Len(text) : text[i] = NUL} \in SUBSET Nat
        OBVIOUS
      <3>2. {i \in 1..Len(text) : text[i] = NUL} # {}
        BY <1>2 DEF HasNul, Contains
      <3> QED
        BY <3>1, <3>2
    <2>2. PICK k \in I : k = Min(I)
      BY <2>1, Least DEF Min
    <2>3. SelectInSeq(text, LAMBDA c : c = NUL) = k
      BY <2>1, <2>2 DEF SelectInSeq
    <2>4. CutAtNul(text) = SubSeq(text, 1, k - 1)
      BY <1>2, <2>3 DEF CutAtNul
    <2>5. k \in 1..Len(text)
      BY <2>1, <2>2
    <2>6. SubSeq(text, 1, k - 1) \in Seq(Byte)
      BY <2>5, SubSeqProperties
    <2> QED
      BY <1>2, <2>4, <2>6
  <1> QED
    BY <1>1, <1>2

(* The digits of a number are bytes. *)
LEMMA DigitsBytes ==
    ASSUME NEW n \in Nat
    PROVE  /\ digits[n] \in Seq(Byte) /\ digits[n] # <<>>
           /\ digits[n] \in Seq(Digit)
           /\ Head(digits[n]) # Minus
PROOF
  <1>1. digits[n] \in Seq(Digit) /\ digits[n] # <<>>
    BY Digits
  <1>2. Digit \subseteq Byte /\ Minus \notin Digit
    BY DEF Digit, Byte, Zero, Minus
  <1>3. Head(digits[n]) \in Digit
    BY <1>1
  <1> QED
    BY <1>1, <1>2, <1>3

(* A decimal text is bytes, has no NUL and is read back as its integer. *)
LEMMA DecimalOK ==
    ASSUME NEW v \in Int
    PROVE  /\ Decimal(v) \in Seq(Byte) /\ Decimal(v) # <<>>
           /\ v < 0 => Head(Decimal(v)) = Minus /\ Tail(Decimal(v)) = digits[-v]
           /\ v >= 0 => Head(Decimal(v)) # Minus /\ Decimal(v) = digits[v]
PROOF
  <1>1. CASE v >= 0
    <2>1. v \in Nat /\ Decimal(v) = digits[v]
      BY <1>1 DEF Decimal
    <2> QED
      BY <1>1, <2>1, DigitsBytes
  <1>2. CASE v < 0
    <2>1. PICK n \in Nat : n = -v
      BY <1>2
    <2>2. PICK t \in Seq(Byte) : t = digits[n]
      BY DigitsBytes
    <2>3. Decimal(v) = <<Minus>> \o t
      BY <1>2, <2>1, <2>2 DEF Decimal
    <2>4. <<Minus>> \in Seq(Byte)
      BY DEF Minus, Byte
    <2>5. /\ <<Minus>> \o t \in Seq(Byte) /\ Len(<<Minus>> \o t) = 1 + Len(t)
          /\ (<<Minus>> \o t)[1] = Minus
      BY <2>4
    <2>6. Tail(<<Minus>> \o t) = t
      OBVIOUS
    <2>7. Head(<<Minus>> \o t) = Minus /\ <<Minus>> \o t # <<>>
      BY <2>5
    <2> QED
      BY <1>2, <2>1, <2>2, <2>3, <2>5, <2>6, <2>7
  <1> QED
    BY <1>1, <1>2

(* Every type is of one kind. *)
LEMMA Kinds ==
    /\ Type = CharType \cup WholeType \cup {"bool"} \cup FloatType \cup BufferType \cup {"string"}
    /\ \A t \in WholeType : t \notin CharType
    /\ \A t \in FloatType : t \notin CharType /\ t \notin WholeType /\ t # "bool"
    /\ \A t \in BufferType \cup {"string"} :
          t \notin CharType /\ t \notin WholeType /\ t # "bool" /\ t \notin FloatType
    /\ "bool" \notin CharType /\ "bool" \notin WholeType
    /\ "string" \notin BufferType
    /\ \A t \in CharType \cup WholeType \cup {"bool"} \cup FloatType : t \notin BufferType
PROOF
  <1>1. CharType = {"int8", "uint8"}
    BY DEF CharType
  <1>2. WholeType = {"int16", "uint16", "int32", "uint32", "int64", "uint64"}
    BY DEF WholeType
  <1>3. FloatType = {"float", "double"} /\ BufferType = {"raw", "custom"}
    BY DEF FloatType, BufferType
  <1> QED
    BY <1>1, <1>2, <1>3 DEF Type

(* The encodings of the types, by type. *)
LEMMA Encodings ==
    /\ Encoding("bool") = "text/plain;bool" /\ Encoding("string") = "text/plain"
    /\ Encoding("int8") = "text/plain;int8" /\ Encoding("uint8") = "text/plain;uint8"
    /\ Encoding("int16") = "text/plain;int16" /\ Encoding("uint16") = "text/plain;uint16"
    /\ Encoding("int32") = "text/plain;int32" /\ Encoding("uint32") = "text/plain;uint32"
    /\ Encoding("int64") = "text/plain;int64" /\ Encoding("uint64") = "text/plain;uint64"
    /\ Encoding("float") = "text/plain;float32" /\ Encoding("double") = "text/plain;float64"
    /\ Encoding("raw") = "application/octet-stream"
    /\ Encoding("custom") = "application/octet-stream;custom_t"
BY DEF EncodingNames, Encoding

(* The values of the types, by type. *)
LEMMA ValuesOfTypes ==
    ASSUME NEW type \in Type, NEW v \in Value(type)
    PROVE  /\ type = "int8" => v \in -128..127
           /\ type = "uint8" => v \in Byte
           /\ type \in WholeType => v \in Int
           /\ type = "bool" => v \in BOOLEAN
           /\ type \in FloatType => v \in DOMAIN FloatText
           /\ type \in BufferType \cup {"string"} => v \in Seq(Byte)
PROOF
  <1>1. CASE type = "int8"
    <2>1. v \in Small
      BY <1>1 DEF Value, FloatType
    <2> QED
      BY <1>1, <2>1, SmallAssumption, Kinds DEF WholeType, FloatType, BufferType
  <1>2. CASE type = "uint8"
    <2>1. v \in {x % 256 : x \in Small}
      BY <1>2 DEF Value, FloatType
    <2>2. v \in Byte
      BY <2>1, SmallAssumption DEF Byte
    <2> QED
      BY <1>2, <2>2 DEF WholeType, FloatType, BufferType
  <1>3. CASE type \in WholeType
    <2>1. v \in Int
      <3>1. CASE type \in {"int16", "uint16"}
        BY <3>1, WholeAssumption DEF Value, FloatType
      <3>2. CASE type \in {"uint32", "uint64"}
        BY <3>2, WholeAssumption DEF Value, FloatType
      <3>3. CASE type \in {"int32", "int64"}
        BY <3>3, WholeAssumption DEF Value, FloatType
      <3> QED
        BY <1>3, <3>1, <3>2, <3>3 DEF WholeType
    <2>2. type # "int8" /\ type # "uint8"
      BY <1>3, Kinds DEF CharType
    <2> QED
      BY <1>3, <2>1, <2>2, Kinds
  <1>4. CASE type = "bool"
    <2>1. v \in BOOLEAN
      BY <1>4 DEF Value, FloatType
    <2> QED
      BY <1>4, <2>1, Kinds
  <1>5. CASE type \in FloatType
    <2>1. v \in DOMAIN FloatText
      <3>1. CASE type = "float"
        BY <3>1 DEF Value, FloatType
      <3>2. CASE type = "double"
        BY <3>2 DEF Value, FloatType
      <3> QED
        BY <1>5, <3>1, <3>2 DEF FloatType
    <2>2. type # "int8" /\ type # "uint8"
      BY <1>5, Kinds DEF CharType
    <2> QED
      BY <1>5, <2>1, <2>2, Kinds
  <1>6. CASE type \in BufferType \cup {"string"}
    <2>1. v \in Content
      <3>1. CASE type = "raw"
        BY <3>1 DEF Value, FloatType
      <3>2. CASE type = "custom"
        BY <3>2 DEF Value, FloatType
      <3>3. CASE type = "string"
        BY <3>3 DEF Value, FloatType
      <3> QED
        BY <1>6, <3>1, <3>2, <3>3 DEF BufferType
    <2>2. v \in Seq(Byte)
      BY <2>1, ContentAssumption DEF Byte
    <2>3. type # "int8" /\ type # "uint8"
      BY <1>6, Kinds DEF CharType
    <2> QED
      BY <1>6, <2>2, <2>3, Kinds
  <1> QED
    BY <1>1, <1>2, <1>3, <1>4, <1>5, <1>6, Kinds DEF CharType

(* The constant texts are bytes without NUL. *)
LEMMA Texts ==
    ASSUME NEW type, NEW v
    PROVE  /\ type \in CharType => Text(type, v) = <<v % 256>>
           /\ type \in WholeType => Text(type, v) = Decimal(v)
           /\ type = "bool" => Text(type, v) = IF v THEN True ELSE False
           /\ type \in FloatType => Text(type, v) = FloatText[v]
           /\ type = "string" => Text(type, v) = v
PROOF
  <1>1. CASE type \in CharType
    BY <1>1, Kinds DEF Text
  <1>2. CASE type \in WholeType
    BY <1>2, Kinds DEF Text
  <1>3. CASE type = "bool"
    BY <1>3, Kinds DEF Text
  <1>4. CASE type \in FloatType
    BY <1>4, Kinds DEF Text
  <1>5. CASE type = "string"
    BY <1>5, Kinds DEF Text
  <1> QED
    BY <1>1, <1>2, <1>3, <1>4, <1>5

(* The text of every value is bytes. *)
LEMMA TextOK ==
    ASSUME NEW type \in Type \ BufferType, NEW v \in Value(type)
    PROVE  Text(type, v) \in Seq(Byte)
PROOF
  <1>1. CASE type \in CharType
    <2>1. v \in Int
      <3>1. CASE type = "int8"
        <4>1. v \in -128..127
          BY <3>1, ValuesOfTypes
        <4> QED
          BY <4>1
      <3>2. CASE type = "uint8"
        <4>1. v \in Byte
          BY <3>2, ValuesOfTypes
        <4> QED
          BY <4>1 DEF Byte
      <3> QED
        BY <1>1, <3>1, <3>2 DEF CharType
    <2>2. v % 256 \in Byte
      BY <2>1 DEF Byte
    <2>3. <<v % 256>> \in Seq(Byte)
      BY <2>2
    <2>4. Text(type, v) = <<v % 256>>
      BY <1>1, Texts
    <2> QED
      BY <2>3, <2>4
  <1>2. CASE type \in WholeType
    <2>1. v \in Int /\ Text(type, v) = Decimal(v)
      BY <1>2, ValuesOfTypes, Texts
    <2> QED
      BY <2>1, DecimalOK
  <1>3. CASE type = "bool"
    <2>1. True \in Seq(Byte) /\ False \in Seq(Byte)
      BY DEF True, False, Byte
    <2>2. Text(type, v) = IF v THEN True ELSE False
      BY <1>3, Texts
    <2> QED
      BY <2>1, <2>2
  <1>4. CASE type \in FloatType
    <2>1. FloatText[v] \in Seq(1..255)
      BY <1>4, ValuesOfTypes, FloatAssumption
    <2>2. FloatText[v] \in Seq(Byte)
      BY <2>1 DEF Byte
    <2> QED
      BY <1>4, <2>2, Texts
  <1>5. CASE type = "string"
    BY <1>5, ValuesOfTypes, Texts
  <1> QED
    BY <1>1, <1>2, <1>3, <1>4, <1>5, Kinds

(* The payload of every value is bytes. *)
LEMMA ToBytesOK ==
    ASSUME NEW type \in Type, NEW v \in Value(type)
    PROVE  /\ ToBytes(type, v) \in Seq(Byte)
           /\ type \in BufferType => ToBytes(type, v) = v
           /\ type \notin BufferType /\ ~HasNul(Text(type, v)) => ToBytes(type, v) = Text(type, v)
PROOF
  <1>1. CASE type \in BufferType
    BY <1>1, ValuesOfTypes DEF ToBytes
  <1>2. CASE type \notin BufferType
    BY <1>2, TextOK, CutAtNulOK DEF ToBytes
  <1> QED
    BY <1>1, <1>2

(* What a subscriber reads. *)
FloatNames == {"text/plain;float32", "text/plain;float64"}
WholeNames ==
    {"text/plain;int16", "text/plain;int32", "text/plain;int64",
     "text/plain;uint16", "text/plain;uint32", "text/plain;uint64"}

(* The encodings that Read tells apart. *)
LEMMA Names ==
    /\ {Encoding(t) : t \in FloatType} = FloatNames
    /\ {Encoding(t) : t \in WholeType} = WholeNames
PROOF
  <1>1. {Encoding(t) : t \in FloatType} = {Encoding("float"), Encoding("double")}
    BY DEF FloatType
  <1>2. {Encoding(t) : t \in WholeType} =
          {Encoding("int16"), Encoding("int32"), Encoding("int64"),
           Encoding("uint16"), Encoding("uint32"), Encoding("uint64")}
    BY DEF WholeType
  <1> QED
    BY <1>1, <1>2, Encodings DEF FloatNames, WholeNames

(* Reading what ToBytes wrote, by its encoding, gives the value. *)
LEMMA ReadBack ==
    ASSUME NEW type \in Type, NEW v \in Value(type), NEW var,
           var.payload = ToBytes(type, v), var.encoding = Encoding(type),
           type \in BufferType \/ ~HasNul(Text(type, v))
    PROVE  Read(var) = v
PROOF
  <1>1. PICK e, p : e = var.encoding /\ p = var.payload
    OBVIOUS
  <1>2. /\ e = "text/plain;int8" => Read(var) = Signed(p[1])
        /\ e = "text/plain;uint8" => Read(var) = p[1]
        /\ e = "text/plain;bool" => Read(var) = (p = True)
        /\ e \in FloatNames => Read(var) = CHOOSE x \in DOMAIN FloatText : FloatText[x] = p
        /\ e \in WholeNames => Read(var) = IF Head(p) = Minus THEN -NumberOf(Tail(p)) ELSE NumberOf(p)
        /\ e \in {"text/plain", "application/octet-stream",
                  "application/octet-stream;custom_t"} => Read(var) = p
    <2>1. PICK fl, wh : fl = {Encoding(t) : t \in FloatType} /\ wh = {Encoding(t) : t \in WholeType}
      OBVIOUS
    <2>2. Read(var) =
            CASE e = "text/plain;int8" -> Signed(p[1])
              [] e = "text/plain;uint8" -> p[1]
              [] e = "text/plain;bool" -> p = True
              [] e \in fl -> CHOOSE x \in DOMAIN FloatText : FloatText[x] = p
              [] e \in wh -> IF Head(p) = Minus THEN -NumberOf(Tail(p)) ELSE NumberOf(p)
              [] OTHER -> p
      BY <1>1, <2>1, Zenon DEF Read
    <2>3. fl = FloatNames /\ wh = WholeNames
      BY <2>1, Names
    <2>4. CASE e = "text/plain;int8"
      BY <2>2, <2>3, <2>4 DEF FloatNames, WholeNames
    <2>5. CASE e = "text/plain;uint8"
      BY <2>2, <2>3, <2>5 DEF FloatNames, WholeNames
    <2>6. CASE e = "text/plain;bool"
      BY <2>2, <2>3, <2>6 DEF FloatNames, WholeNames
    <2>7. CASE e \in FloatNames
      BY <2>2, <2>3, <2>7 DEF FloatNames, WholeNames
    <2>8. CASE e \in WholeNames
      BY <2>2, <2>3, <2>8 DEF FloatNames, WholeNames
    <2>9. CASE e \in {"text/plain", "application/octet-stream",
                     "application/octet-stream;custom_t"}
      BY <2>2, <2>3, <2>9 DEF FloatNames, WholeNames
    <2> QED
      BY <2>4, <2>5, <2>6, <2>7, <2>8, <2>9
  <1>3. e = Encoding(type) /\ p = ToBytes(type, v)
    BY <1>1
  <1>4. CASE type = "int8"
    <2>1. v \in -128..127 /\ p = <<v % 256>>
      BY <1>3, <1>4, ValuesOfTypes, ToBytesOK, Texts, Kinds DEF CharType
    <2>2. Signed(v % 256) = v
      BY <2>1 DEF Signed
    <2>3. p[1] = v % 256
      BY <2>1
    <2> QED
      BY <1>2, <1>3, <1>4, <2>2, <2>3, Encodings
  <1>5. CASE type = "uint8"
    <2>1. v \in 0..255 /\ p = <<v % 256>>
      BY <1>3, <1>5, ValuesOfTypes, ToBytesOK, Texts, Kinds DEF CharType, Byte
    <2>2. p[1] = v
      BY <2>1
    <2> QED
      BY <1>2, <1>3, <1>5, <2>2, Encodings
  <1>6. CASE type = "bool"
    <2>1. v \in BOOLEAN /\ p = IF v THEN True ELSE False
      BY <1>3, <1>6, ValuesOfTypes, ToBytesOK, Texts, Kinds
    <2>2. True # False
      BY DEF True, False
    <2>3. Read(var) = (p = True)
      BY <1>2, <1>3, <1>6, Encodings
    <2>4. CASE v = TRUE
      BY <2>1, <2>3, <2>4
    <2>5. CASE v = FALSE
      BY <2>1, <2>2, <2>3, <2>5
    <2> QED
      BY <2>1, <2>4, <2>5
  <1>7. CASE type \in FloatType
    <2>1. v \in DOMAIN FloatText /\ p = FloatText[v]
      BY <1>3, <1>7, ValuesOfTypes, ToBytesOK, Texts, Kinds
    <2>2. e \in FloatNames
      BY <1>3, <1>7, Names
    <2>3. Read(var) = CHOOSE x \in DOMAIN FloatText : FloatText[x] = p
      BY <1>2, <2>2
    <2> QED
      BY <2>1, <2>3, FloatAssumption
  <1>8. CASE type \in WholeType
    <2>1. v \in Int /\ p = Decimal(v)
      BY <1>3, <1>8, ValuesOfTypes, ToBytesOK, Texts, Kinds
    <2>2. e \in WholeNames
      BY <1>3, <1>8, Names
    <2>3. Read(var) = IF Head(p) = Minus THEN -NumberOf(Tail(p)) ELSE NumberOf(p)
      BY <1>2, <2>2
    <2>4. CASE v < 0
      <3>1. PICK n \in Nat : n = -v /\ v = -n
        BY <2>1, <2>4
      <3>2. NumberOf(digits[n]) = n
        BY NumberOfDigits
      <3>3. Head(p) = Minus /\ Tail(p) = digits[n]
        BY <2>1, <2>4, <3>1, DecimalOK
      <3> QED
        BY <2>3, <3>1, <3>2, <3>3
    <2>5. CASE v >= 0
      <3>1. v \in Nat /\ NumberOf(digits[v]) = v
        BY <2>1, <2>5, NumberOfDigits
      <3>2. Head(p) # Minus /\ p = digits[v]
        BY <2>1, <2>5, DecimalOK
      <3> QED
        BY <2>3, <3>1, <3>2
    <2> QED
      BY <2>1, <2>4, <2>5
  <1>9. CASE type \in BufferType \cup {"string"}
    <2>1. p = v
      BY <1>3, <1>9, ToBytesOK, Texts, Kinds
    <2>2. e \in {"text/plain", "application/octet-stream",
                "application/octet-stream;custom_t"}
      BY <1>3, <1>9, Encodings DEF BufferType
    <2> QED
      BY <1>2, <2>1, <2>2
  <1> QED
    BY <1>4, <1>5, <1>6, <1>7, <1>8, <1>9, Kinds DEF CharType

-----------------------------------------------------------------------------
(* The inductive invariant. *)

Published(type, v) == type \in Type /\ v \in Value(type)

(* What is on its way, and what a callback is given, was made by the last  *)
(* publish().                                                              *)
SampleInv ==
    sample # None =>
        /\ sample = [payload |-> ToBytes(call.type, call.value),
                     encoding |-> Encoding(call.type), stamp |-> clock - 1]
        /\ clock - 1 \in Stamp /\ variable = None
        /\ Published(call.type, call.value)

VariableInv ==
    variable # None =>
        /\ variable = [payload |-> ToBytes(call.type, call.value),
                       encoding |-> Encoding(call.type), time |-> UnixTime(clock - 1)]
        /\ clock - 1 \in Stamp /\ sample = None
        /\ Published(call.type, call.value)

(* No stamp that is still to come is shown with an earlier time. *)
TimeInv ==
    /\ clock \in 0..LastStamp + 1
    /\ shown \in Nat \X Nat /\ shown[1] <= shown[2]
    /\ \A s \in Stamp : clock - 1 <= s => shown[2] <= UnixTime(s)

Inv == connected \in BOOLEAN /\ SampleInv /\ VariableInv /\ TimeInv

LEMMA InitInv == Init => Inv
PROOF
  <1> SUFFICES ASSUME Init
               PROVE  Inv
    OBVIOUS
  <1>1. /\ connected = FALSE /\ sample = None /\ variable = None
        /\ clock = 0 /\ shown = <<0, 0>>
    BY DEF Init
  <1>2. LastStamp \in Nat /\ \A s \in Stamp : UnixTime(s) \in Nat
    BY StampParts, UnixTimeMono DEF Stamp
  <1>3. TimeInv
    BY <1>1, <1>2 DEF TimeInv
  <1> QED
    BY <1>1, <1>3 DEF Inv, SampleInv, VariableInv

(* A stamp is given: it is later than those already shown. *)
LEMMA PublishInv ==
    ASSUME Inv, NEW type \in Type, NEW v \in Value(type), Publish(type, v)
    PROVE  Inv'
PROOF
  <1>1. /\ sample = None /\ variable = None /\ variable' = variable
        /\ clock <= LastStamp /\ clock' = clock + 1
        /\ call' = [type |-> type, value |-> v]
        /\ sample' = [payload |-> ToBytes(type, v), encoding |-> Encoding(type), stamp |-> clock]
        /\ connected' = connected /\ shown' = shown
    BY DEF Publish
  <1>2. LastStamp \in Nat /\ clock \in 0..LastStamp + 1
    BY StampParts DEF Inv, TimeInv
  <1>3. clock \in Stamp /\ clock' - 1 = clock /\ clock' \in 0..LastStamp + 1
    BY <1>1, <1>2 DEF Stamp
  <1>4. call'.type = type /\ call'.value = v
    BY <1>1
  <1>5. SampleInv'
    BY <1>1, <1>3, <1>4 DEF SampleInv, Published
  <1>6. VariableInv'
    BY <1>1 DEF VariableInv
  <1>7. TimeInv'
    <2>1. ASSUME NEW s \in Stamp, clock' - 1 <= s
          PROVE  shown[2] <= UnixTime(s)
      <3>1. clock - 1 <= s
        <4>1. s \in Nat /\ clock \in Nat
          BY <1>2 DEF Stamp
        <4>2. clock <= s
          <5>1. PICK c : c = clock' - 1
            OBVIOUS
          <5>2. c <= s /\ c = clock
            BY <5>1, <2>1, <1>3
          <5> QED
            BY <5>2
        <4> QED
          BY <4>1, <4>2
      <3> QED
        BY <3>1 DEF Inv, TimeInv
    <2> QED
      BY <2>1, <1>1, <1>3 DEF Inv, TimeInv
  <1> QED
    BY <1>1, <1>5, <1>6, <1>7 DEF Inv

(* A sample arrives: the time it is shown with has its stamp. *)
LEMMA DeliverInv ==
    ASSUME Inv, Deliver
    PROVE  Inv'
PROOF
  <1>1. /\ sample # None
        /\ variable' = [payload |-> sample.payload, encoding |-> sample.encoding,
                        time |-> UnixTime(sample.stamp)]
        /\ shown' = <<shown[2], variable'.time>>
        /\ sample' = None
        /\ connected' = connected /\ call' = call /\ clock' = clock
    BY DEF Deliver
  <1>2. /\ sample = [payload |-> ToBytes(call.type, call.value),
                     encoding |-> Encoding(call.type), stamp |-> clock - 1]
        /\ clock - 1 \in Stamp
        /\ Published(call.type, call.value)
    BY <1>1 DEF Inv, SampleInv
  <1>3. variable' = [payload |-> ToBytes(call.type, call.value),
                     encoding |-> Encoding(call.type), time |-> UnixTime(clock - 1)]
    BY <1>1, <1>2
  <1>4. VariableInv'
    BY <1>1, <1>2, <1>3 DEF VariableInv
  <1>5. TimeInv'
    <2>1. shown[2] \in Nat /\ shown[2] <= UnixTime(clock - 1) /\ UnixTime(clock - 1) \in Nat
      <3>1. PICK s \in Stamp : s = clock - 1 /\ s <= s
        BY <1>2, StampParts DEF Stamp
      <3> QED
        BY <3>1, UnixTimeMono DEF Inv, TimeInv
    <2>2. shown' = <<shown[2], UnixTime(clock - 1)>>
      BY <1>1, <1>3
    <2>3. ASSUME NEW s \in Stamp, clock - 1 <= s
          PROVE  UnixTime(clock - 1) <= UnixTime(s)
      BY <2>3, <1>2, UnixTimeMono
    <2> QED
      BY <2>1, <2>2, <2>3, <1>1 DEF Inv, TimeInv
  <1> QED
    BY <1>1, <1>4, <1>5 DEF Inv, SampleInv

LEMMA NextInv == Inv /\ [Next]_vars => Inv'
PROOF
  <1> SUFFICES ASSUME Inv, [Next]_vars
               PROVE  Inv'
    OBVIOUS
  <1>1. CASE SessionChanges
    <2>1. connected' \in BOOLEAN
      BY <1>1 DEF SessionChanges
    <2> QED
      BY <2>1, <1>1 DEF SessionChanges, Inv, SampleInv, VariableInv, TimeInv
  <1>2. ASSUME NEW type \in Type, NEW v \in Value(type), Publish(type, v)
        PROVE  Inv'
    BY <1>2, PublishInv
  <1>3. ASSUME NEW f \in CFunction, NEW v \in Value(OverloadOf(f)), FlunderPublish(f, v)
        PROVE  Inv'
    <2>1. OverloadOf(f) \in Type
      BY Kinds DEF OverloadOf, CFunction, WholeType
    <2> QED
      BY <2>1, <1>3, PublishInv DEF FlunderPublish
  <1>4. CASE Deliver
    BY <1>4, DeliverInv
  <1>5. CASE CallbackReturns
    <2>1. variable # None /\ sample = None
      BY <1>5 DEF CallbackReturns, Inv, VariableInv
    <2> QED
      BY <2>1, <1>5 DEF CallbackReturns, Inv, SampleInv, VariableInv, TimeInv
  <1>6. CASE UNCHANGED vars
    BY <1>6 DEF vars, Inv, SampleInv, VariableInv, TimeInv
  <1> QED
    BY <1>1, <1>2, <1>3, <1>4, <1>5, <1>6 DEF Next

LEMMA InvHolds == Spec => []Inv
PROOF
  <1> QED
    BY InitInv, NextInv, PTL DEF Spec

-----------------------------------------------------------------------------

(* For every value that is published and every width of the stamp: what    *)
(* z_put() carries and lib_subscribe_callback builds has the types that    *)
(* TypeOK says, and payloads are bytes.                                    *)
THEOREM TypeCorrect == Spec => []TypeOK
PROOF
  <1>1. ASSUME Inv
        PROVE  TypeOK
    <2>1. ASSUME NEW s \in {sample, variable} \ {None}
          PROVE  /\ s.payload \in Seq(0..255)
                 /\ s.encoding \in {Encoding(type) : type \in Type}
                 /\ call.type \in Type /\ call.value \in Value(call.type)
      <3>1. /\ s.payload = ToBytes(call.type, call.value)
            /\ s.encoding = Encoding(call.type)
            /\ Published(call.type, call.value)
        <4>1. CASE s = sample
          BY <1>1, <4>1 DEF Inv, SampleInv
        <4>2. CASE s = variable
          BY <1>1, <4>2 DEF Inv, VariableInv
        <4> QED
          BY <4>1, <4>2
      <3>2. call.type \in Type /\ call.value \in Value(call.type)
        BY <3>1 DEF Published
      <3>3. ToBytes(call.type, call.value) \in Seq(0..255)
        BY <3>2, ToBytesOK DEF Byte
      <3> QED
        BY <3>1, <3>2, <3>3
    <2> QED
      BY <1>1, <2>1 DEF TypeOK, Inv, TimeInv
  <1> QED
    BY <1>1, InvHolds, PTL

(* For every value that is published: a subscriber that reads the variable *)
(* by its encoding, made by to_bytes() and the publish_*() of the type,    *)
(* gets that value, unless its text has a NUL.                             *)
THEOREM ValuesSurvive == Spec => []ValueSurvives
PROOF
  <1>1. ASSUME Inv
        PROVE  ValueSurvives
    <2> SUFFICES ASSUME variable # None,
                        call.type \in BufferType \/ ~HasNul(Text(call.type, call.value))
                 PROVE  Read(variable) = call.value
      BY DEF ValueSurvives
    <2>1. /\ variable.payload = ToBytes(call.type, call.value)
          /\ variable.encoding = Encoding(call.type)
          /\ call.type \in Type /\ call.value \in Value(call.type)
      BY <1>1 DEF Inv, VariableInv, Published
    <2> QED
      BY <2>1, ReadBack
  <1> QED
    BY <1>1, InvHolds, PTL

(* For every width of stamps and doubles, those of the code among them:    *)
(* the times that ntp64_to_unix_time() gives to two samples are in the     *)
(* order of their stamps, whatever quotient, sum and product round to.     *)
THEOREM TimeIsMonotone == Spec => []TimeNeverBackwards
PROOF
  <1>1. Inv => TimeNeverBackwards
    BY DEF Inv, TimeInv, TimeNeverBackwards
  <1> QED
    BY <1>1, InvHolds, PTL

(* For every width of stamps and doubles: the time shown is as close to    *)
(* the stamp as the three roundings, the divisor and the cast allow.       *)
THEOREM TimeIsClose == Spec => []CloseToClock
PROOF
  <1>1. ASSUME Inv
        PROVE  CloseToClock
    <2> SUFFICES ASSUME variable # None
                 PROVE  Close(variable.time, clock - 1)
      BY DEF CloseToClock
    <2>1. variable.time = UnixTime(clock - 1) /\ clock - 1 \in Stamp
      BY <1>1 DEF Inv, VariableInv
    <2> QED
      BY <2>1, UnixTimeClose
  <1> QED
    BY <1>1, InvHolds, PTL
=============================================================================
