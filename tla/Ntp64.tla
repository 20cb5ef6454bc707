------------------------------- MODULE Ntp64 --------------------------------
(***************************************************************************)
(* ntp64_to_unix_time(): the stamp of a sample, whole seconds and a binary *)
(* fraction in one integer, becomes a count of nanoseconds, by way of      *)
(* doubles. The application sees it as a text: see Publish.                *)
(*                                                                         *)
(* The widths are parameters, so that small formats can be gone through    *)
(* completely: in the code FracBits is 32, SecBits is 32, of which 31 have *)
(* been in use so far, Mantissa is 53, MaxExponent is 1023 and PerSecond   *)
(* is 10^9; seconds, fraction and PerSecond have doubles of their own. A   *)
(* small format shows the same cases when a sum of seconds and fraction    *)
(* has not room for all bits of the fraction: Mantissa < SecBits +         *)
(* FracBits.                                                               *)
(***************************************************************************)
EXTENDS Integers

CONSTANTS FracBits, SecBits, Mantissa, PerSecond,
          MaxExponent

(* 2^k, as a function so that it can be reasoned about. *)
pow2[k \in Nat] == IF k = 0 THEN 1 ELSE 2 * pow2[k - 1]

ASSUME WidthAssumption ==
    {FracBits, SecBits, Mantissa, PerSecond} \subseteq Nat \ {0}

(* No conversion comes near the ends of the exponents. *)
ASSUME ExponentAssumption ==
    /\ MaxExponent \in Nat
    /\ Mantissa + FracBits <= MaxExponent /\ SecBits <= MaxExponent
    /\ PerSecond < pow2[MaxExponent - SecBits]

LastStamp == pow2[SecBits + FracBits] - 1

(* A double is num / den, den a power of two. *)
Double(num, den) == [num |-> num, den |-> den]

(* The exponent of n / d in a format of Mantissa bits: the power of two    *)
(* that counts for one in its last place is 2^up / 2^down.                 *)
UlpOf(n, d) ==
    CHOOSE u \in (0..MaxExponent) \X (0..MaxExponent) :
        /\ u[1] = 0 \/ u[2] = 0
        /\ pow2[Mantissa - 1] * (d * pow2[u[1]]) <= n * pow2[u[2]]
        /\ n * pow2[u[2]] < pow2[Mantissa] * (d * pow2[u[1]])

(* The integer next to top / bottom, and the even one of two. *)
Nearest(top, bottom) ==
    LET m == top \div bottom
        rest == 2 * (top % bottom)
        up == rest > bottom \/ (rest = bottom /\ m % 2 = 1)
    IN  IF up THEN m + 1 ELSE m

(* n / d as a double. *)
Round(n, d) ==
    IF n = 0 THEN Double(0, 1) ELSE
    LET u == UlpOf(n, d)
    IN  Double(Nearest(n * pow2[u[2]], d * pow2[u[1]]) * pow2[u[1]], pow2[u[2]])

Seconds(s) == s \div pow2[FracBits]
Fractions(s) == s % pow2[FracBits]

(* Variant with a bug: the largest value of the signed type. *)
SignedMax == pow2[FracBits - 1] - 1

(* std::numeric_limits<std::uint32_t>::max() *)
FractionMax == pow2[FracBits] - 1

(* Variant with a bug: the fraction is divided as an integer. *)
IntegerUnixTime(s) == (Seconds(s) + Fractions(s) \div FractionMax) * PerSecond

(* Quotient, sum and product are rounded each; the cast cuts off. *)
UnixTime(s) ==
    LET quotient == Round(Fractions(s), FractionMax)
        sum == Round(Seconds(s) * quotient.den + quotient.num, quotient.den)
        product == Round(sum.num * PerSecond, sum.den)
    IN  product.num \div product.den

Abs(n) == IF n < 0 THEN -n ELSE n

(* How far a time t may be from the stamp s it is shown for: the           *)
(* nanosecond that the cast cuts off, one fraction for the divisor that is *)
(* one too small, and half a place for each rounding of quotient, sum and  *)
(* product. For 53 bits and stamps of today it comes to less than half a   *)
(* microsecond.                                                            *)
Close(t, s) ==
    LET error == Abs(t * pow2[FracBits] - s * PerSecond)
        exact == pow2[FracBits] + PerSecond
        rounding == 2 * PerSecond * pow2[SecBits + FracBits]
    IN  error * pow2[Mantissa] <= exact * pow2[Mantissa] + rounding
=============================================================================
