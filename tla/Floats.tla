------------------------------- MODULE Floats -------------------------------
(***************************************************************************)
(* Binary floating-point numbers as the integers they are stored in, for   *)
(* any width: a format is [sig, exp], the bits of the fraction and of the  *)
(* exponent.  The long double arithmetic of src/internal/float_gcc.cpp     *)
(* and the functions of src/ansi/musl-math are written on these integers.  *)
(***************************************************************************)
EXTENDS Integers, FiniteSets, FiniteSetsExt, Samples

Implicit(f)    == 2 ^ f.sig
MaxExponent(f) == 2 ^ f.exp - 1
Bias(f)        == MaxExponent(f) \div 2
SignBit(f)     == 2 ^ (f.sig + f.exp)
InfRep(f)      == MaxExponent(f) * Implicit(f)
QuietBit(f)    == Implicit(f) \div 2
QNaN(f)        == InfRep(f) + QuietBit(f)
TypeWidth(f)   == 1 + f.exp + f.sig
Floats(f)      == 0..2 * SignBit(f) - 1

AbsRep(f, x)   == x % SignBit(f)
Negative(f, x) == x >= SignBit(f)
Exponent(f, x) == AbsRep(f, x) \div Implicit(f)
Fraction(f, x) == x % Implicit(f)
WithSign(f, negative, abs) == IF negative THEN abs + SignBit(f) ELSE abs
IsNaN(f, x)    == AbsRep(f, x) > InfRep(f)
IsFinite(f, x) == AbsRep(f, x) < InfRep(f)
SetQuiet(f, x) == IF (x \div QuietBit(f)) % 2 = 1 THEN x ELSE x + QuietBit(f)

Bit(x, k) == (x \div 2 ^ k) % 2
OrBits(x, y) == SumSet({2 ^ k : k \in {j \in 0..20 : Bit(x, j) = 1 \/ Bit(y, j) = 1}})
FlipBit(x, k) == IF Bit(x, k) = 1 THEN x - 2 ^ k ELSE x + 2 ^ k

(* The highest and the lowest bit of a positive number: what the counts of *)
(* leading and of trailing zeros are relative to.                          *)
HighestBit(n) == CHOOSE k \in 0..30 : 2 ^ k <= n /\ n \div 2 < 2 ^ k
LowestBit(n)  == CHOOSE k \in 0..30 : n % 2 ^ k = 0 /\ Bit(n, k) = 1

(* A significand with its leading bit in place and the exponent that goes  *)
(* with it; denormals are normalised.                                      *)
Normalized(f, x) ==
  LET fraction == Fraction(f, x)
      shift == f.sig - HighestBit(fraction)
  IN IF Exponent(f, x) = 0
       THEN [exp |-> 1 - shift, sig |-> fraction * 2 ^ shift]
       ELSE [exp |-> Exponent(f, x), sig |-> fraction + Implicit(f)]

-----------------------------------------------------------------------------
(* What the integers stand for, in units of the smallest denormal: the     *)
(* reference that the functions are compared with.                         *)
Magnitude(f, abs) == IF abs < Implicit(f) THEN abs
                     ELSE (Implicit(f) + (abs % Implicit(f))) * 2 ^ (abs \div Implicit(f) - 1)
Value(f, x) == IF Negative(f, x) THEN - Magnitude(f, AbsRep(f, x)) ELSE Magnitude(f, x)

(* abs is the float nearest to v (units of 2^-scale of the smallest        *)
(* denormal), the even one of two, and infinity from half a step on.       *)
IsNearest(f, abs, v, scale) ==
  LET at(r) == Magnitude(f, r) * 2 ^ scale
      even == abs % 2 = 0
  IN /\ abs <= InfRep(f)
     /\ abs > 0 => IF even THEN at(abs - 1) + at(abs) <= 2 * v ELSE at(abs - 1) + at(abs) < 2 * v
     /\ abs < InfRep(f) => IF even THEN 2 * v <= at(abs) + at(abs + 1)
                           ELSE 2 * v < at(abs) + at(abs + 1)

AbsInt(n) == IF n < 0 THEN - n ELSE n

-----------------------------------------------------------------------------
(***************************************************************************)
(* The long double arithmetic the compiler calls on AArch64,               *)
(* src/internal/float_gcc.cpp, for any width of the formats: Quad is the   *)
(* 128-bit format in arithmetic, Wide the same in conversions, Narrow a    *)
(* float or a double.  The flags that are raised are not modelled, and of  *)
(* the division only the operands that need no quotient.                   *)
(***************************************************************************)

CONSTANTS
  Quad, Wide, Narrow,
  ProductBits,     \* the width of wideMultiply's uint64_t product
  ProductShift,    \* and where it is cut: 32
  IntBits,         \* of int64_t
  SmallIntBits     \* of int32_t

Modes == {"nearest", "down", "up", "zero"}

(* v >> n with a sticky lowest bit. *)
ShiftDropping(v, n) == IF n > 20 THEN 0 ELSE v \div 2 ^ n     \* mutant: no sticky bit
ShiftSticky(v, n) ==
  IF n = 0 THEN v ELSE IF n > 20 THEN 1
  ELSE LET q == v \div 2 ^ n IN IF v % 2 ^ n # 0 /\ q % 2 = 0 THEN q + 1 ELSE q

(* The low three bits are round, guard and sticky. *)
RoundsUp(mode, negative, result, rgs) ==
  CASE mode = "nearest" -> rgs > 4 \/ (rgs = 4 /\ result % 2 = 1)
    [] mode = "down"    -> negative /\ rgs # 0
    [] mode = "up"      -> ~negative /\ rgs # 0
    [] mode = "zero"    -> FALSE

-----------------------------------------------------------------------------
(* Two numbers that are finite and not zero, a of the larger magnitude:    *)
(* the sum, its highest bit brought to its place, a denormal shifted down, *)
(* the round, guard and sticky bits taken off.                             *)
SumPlaced(f, exp, sum, subtraction) ==
  LET up == f.sig + 3 - HighestBit(sum)
  IN IF subtraction
       THEN IF sum < Implicit(f) * 8 THEN [exp |-> exp - up, sig |-> sum * 2 ^ up]
            ELSE [exp |-> exp, sig |-> sum]
       ELSE IF sum >= Implicit(f) * 16 THEN [exp |-> exp + 1, sig |-> ShiftSticky(sum, 1)]
            ELSE [exp |-> exp, sig |-> sum]
SumDenormal(norm) ==
  IF norm.exp <= 0 THEN [exp |-> 0, sig |-> ShiftSticky(norm.sig, 1 - norm.exp)] ELSE norm
SumRounded(f, sign, placed, mode) ==
  LET result == ((placed.sig \div 8) % Implicit(f)) + placed.exp * Implicit(f)
  IN WithSign(f, sign, IF RoundsUp(mode, sign, result, placed.sig % 8)
                         THEN result + 1 ELSE result)
SumResult(f, sign, norm, mode) ==
  IF norm.exp >= MaxExponent(f) THEN WithSign(f, sign, InfRep(f))
  ELSE SumRounded(f, sign, SumDenormal(norm), mode)
SumOf(f, exp, sign, sum, subtraction, mode) ==
  IF sum = 0 THEN 0 ELSE SumResult(f, sign, SumPlaced(f, exp, sum, subtraction), mode)
AddNormalized(f, na, nb, sign, subtraction, mode) ==
  LET x == na.sig * 8
      y == ShiftSticky(nb.sig * 8, na.exp - nb.exp)
  IN SumOf(f, na.exp, sign, IF subtraction THEN x - y ELSE x + y, subtraction, mode)
AddNumbers(f, a, b, mode) ==
  AddNormalized(f, Normalized(f, a), Normalized(f, b), Negative(f, a),
                Negative(f, a) # Negative(f, b), mode)

addXf3(f, a, b, mode) ==
  LET aAbs == AbsRep(f, a)
      bAbs == AbsRep(f, b)
  IN CASE IsNaN(f, a) -> SetQuiet(f, a)
       [] ~IsNaN(f, a) /\ IsNaN(f, b) -> SetQuiet(f, b)
       [] aAbs = InfRep(f) /\ ~IsNaN(f, b) ->
            IF bAbs = InfRep(f) /\ a # b THEN QNaN(f) ELSE a
       [] IsFinite(f, a) /\ bAbs = InfRep(f) -> b
       [] IsFinite(f, a) /\ IsFinite(f, b) /\ aAbs = 0 ->
            IF bAbs = 0 THEN WithSign(f, Negative(f, a) /\ Negative(f, b), 0) ELSE b
       [] IsFinite(f, a) /\ IsFinite(f, b) /\ aAbs # 0 /\ bAbs = 0 -> a
       [] OTHER -> IF bAbs > aAbs THEN AddNumbers(f, b, a, mode) ELSE AddNumbers(f, a, b, mode)

subtf3(f, a, b, mode) == addXf3(f, a, WithSign(f, ~Negative(f, b), AbsRep(f, b)), mode)

(* __leXf2__ and __geXf2__ compare the integers, the other way round when  *)
(* both are negative; they differ in what they say of a NaN.               *)
Compare(f, a, b, unordered) ==
  LET signed(x) == IF Negative(f, x) THEN x - 2 * SignBit(f) ELSE x
      order(x, y) == IF x < y THEN -1 ELSE IF x = y THEN 0 ELSE 1
  IN IF IsNaN(f, a) \/ IsNaN(f, b) THEN unordered
     ELSE IF AbsRep(f, a) = 0 /\ AbsRep(f, b) = 0 THEN 0
     ELSE IF Negative(f, a) /\ Negative(f, b) THEN order(signed(b), signed(a))
     ELSE order(signed(a), signed(b))
leXf2(f, a, b) == Compare(f, a, b, 1)
geXf2(f, a, b) == Compare(f, a, b, -1)

-----------------------------------------------------------------------------
(* What multiplication and division say when an operand is no number, an   *)
(* infinity or a zero; -1 otherwise.                                       *)
MulSpecial(f, a, b) ==
  LET sign == Negative(f, a) # Negative(f, b)
      aAbs == AbsRep(f, a)
      bAbs == AbsRep(f, b)
  IN CASE IsNaN(f, a) -> SetQuiet(f, a)
       [] ~IsNaN(f, a) /\ IsNaN(f, b) -> SetQuiet(f, b)
       [] ~IsNaN(f, a) /\ ~IsNaN(f, b) /\ InfRep(f) \in {aAbs, bAbs} ->
            IF 0 \in {aAbs, bAbs} THEN QNaN(f) ELSE WithSign(f, sign, InfRep(f))
       [] OTHER -> IF 0 \in {aAbs, bAbs} THEN WithSign(f, sign, 0) ELSE -1

DivSpecial(f, a, b) ==
  LET sign == Negative(f, a) # Negative(f, b)
      aAbs == AbsRep(f, a)
      bAbs == AbsRep(f, b)
  IN IF IsNaN(f, a) THEN SetQuiet(f, a) ELSE IF IsNaN(f, b) THEN SetQuiet(f, b)
     ELSE IF aAbs = bAbs /\ aAbs \in {0, InfRep(f)} THEN QNaN(f)
     ELSE IF aAbs = InfRep(f) \/ bAbs = 0 THEN WithSign(f, sign, InfRep(f))
     ELSE IF bAbs = InfRep(f) \/ aAbs = 0 THEN WithSign(f, sign, 0)
     ELSE -1

(* wideMultiply keeps ProductBits bits of the product, takes the high half *)
(* from ProductShift bits on, and all of it as the low half.               *)
wideMultiply(a, b) ==
  LET product == (a * b) % 2 ^ ProductBits
  IN [hi |-> product \div 2 ^ ProductShift, lo |-> product]

mulXf3(f, a, b) ==
  LET sign == Negative(f, a) # Negative(f, b)
      na == Normalized(f, a)
      nb == Normalized(f, b)
      product == wideMultiply(na.sig, nb.sig * 2 ^ f.exp)
      carried == Bit(product.hi, f.sig) = 1
      width == TypeWidth(f)
      \* wideLeftShift by one
      hi == IF carried THEN product.hi ELSE 2 * product.hi + Bit(product.lo, width - 1)
      lo == IF carried THEN product.lo ELSE (2 * product.lo) % 2 ^ width
      exponent == na.exp + nb.exp - Bias(f) + (IF carried THEN 1 ELSE 0)
      shift == 1 - exponent
      both == ShiftSticky(hi * 2 ^ width + lo, shift)
      high == IF exponent <= 0 THEN both \div 2 ^ width
              ELSE (hi % Implicit(f)) + exponent * Implicit(f)
      low == IF exponent <= 0 THEN both % 2 ^ width ELSE lo
      up == low > SignBit(f) \/ (low = SignBit(f) /\ high % 2 = 1)
  IN IF MulSpecial(f, a, b) # -1 THEN MulSpecial(f, a, b)
     ELSE IF exponent >= MaxExponent(f) THEN WithSign(f, sign, InfRep(f))
     ELSE IF exponent <= 0 /\ shift >= width THEN WithSign(f, sign, 0)
     ELSE WithSign(f, sign, IF up THEN high + 1 ELSE high)

-----------------------------------------------------------------------------
(* construct_dst_rep: the parts are or-ed together. *)
Constructed(g, negative, exp, frac) ==
  WithSign(g, negative, OrBits(exp * Implicit(g), frac) % SignBit(g))

(* clz_in_sig_frac: the leading zeros of a double, but the trailing zeros  *)
(* of a float, less those of the sign and the exponent; one more than that *)
(* is how far a denormal is shifted.                                       *)
DenormalScale(f, frac, kind) ==
  IF kind = "double" THEN f.sig - HighestBit(frac)
  ELSE LowestBit(frac) - (1 + f.exp) + 1

(* From a narrower format f to g. *)
extendXfYf2(f, g, x, kind) ==
  LET frac == Fraction(f, x)
      scale == DenormalScale(f, frac, kind)
      up == g.sig - f.sig
  IN IF Exponent(f, x) = 0 /\ frac # 0
       THEN Constructed(g, Negative(f, x), Bias(g) - Bias(f) - scale + 1,
                        FlipBit(frac * 2 ^ (up + scale), g.sig))
       ELSE Constructed(g, Negative(f, x),
                        IF Exponent(f, x) = MaxExponent(f) THEN MaxExponent(g)
                        ELSE IF frac = 0 /\ Exponent(f, x) = 0 THEN 0
                        ELSE Exponent(f, x) + Bias(g) - Bias(f), frac * 2 ^ up)

(* To nearest, ties to even, the bits of the tail dropped. *)
Rounded(bits, tail) ==
  LET kept == bits \div 2 ^ tail
      rest == 2 * (bits % 2 ^ tail)
  IN IF rest > 2 ^ tail \/ (rest = 2 ^ tail /\ kept % 2 = 1) THEN kept + 1 ELSE kept

(* From g to a narrower format f, with fewer exponents. *)
truncXfYf2(g, f, x) ==
  LET tail == g.sig - f.sig
      candidate == Exponent(g, x) - Bias(g) + Bias(f)
      normal == Exponent(g, x) # 0
      significand == Fraction(g, x) + (IF normal THEN Implicit(g) ELSE 0)
      shift == Bias(g) - Bias(f) - Exponent(g, x) + (IF normal THEN 1 ELSE 0)
      frac == IF candidate >= 1 THEN Rounded(Fraction(g, x), tail)
              ELSE Rounded(ShiftSticky(significand, shift), tail)
      carried == frac >= Implicit(f)
      exp == IF candidate >= 1 THEN candidate ELSE 0
  IN WithSign(f, Negative(g, x),
       CASE IsNaN(g, x) ->
              InfRep(f) + OrBits(QuietBit(f), (Fraction(g, x) \div 2 ^ tail) % QuietBit(f))
         [] ~IsNaN(g, x) /\ candidate >= MaxExponent(f) -> InfRep(f)
         [] ~IsNaN(g, x) /\ candidate < 1 /\ shift > g.sig -> 0
         [] OTHER -> IF carried THEN (exp + 1) * Implicit(f) + FlipBit(frac, f.sig)
                     ELSE exp * Implicit(f) + frac)

-----------------------------------------------------------------------------
(* An integer of the given width, as it is stored. *)
Wrapped(n, bits) == ((n + 2 ^ (bits - 1)) % 2 ^ bits) - 2 ^ (bits - 1)

(* __fixint.  What is at least 2^IntBits is replaced by the largest or the *)
(* smallest integer; what only just does not fit loses its top bit.        *)
fixint(f, x) ==
  LET exponent == Exponent(f, x) - Bias(f)
      significand == Fraction(f, x) + Implicit(f)
      sign == IF Negative(f, x) THEN -1 ELSE 1
      shifted == IF exponent < f.sig THEN significand \div 2 ^ (f.sig - exponent)
                 ELSE significand * 2 ^ (exponent - f.sig)
  IN IF exponent < 0 THEN 0
     ELSE IF exponent >= IntBits
       THEN IF sign = 1 THEN 2 ^ (IntBits - 1) - 1 ELSE - (2 ^ (IntBits - 1))
     ELSE Wrapped(sign * shifted, IntBits)

fixuint(f, x) ==
  LET exponent == Exponent(f, x) - Bias(f)
      significand == Fraction(f, x) + Implicit(f)
  IN IF Negative(f, x) \/ exponent < 0 THEN 0
     ELSE IF exponent >= IntBits THEN 2 ^ IntBits - 1
     ELSE (IF exponent < f.sig THEN significand \div 2 ^ (f.sig - exponent)
           ELSE significand * 2 ^ (exponent - f.sig)) % 2 ^ IntBits

(* __fixtfsi, __fixunstfsi: the low bits. *)
fixtfsi(f, x) == Wrapped(fixint(f, x), SmallIntBits)
fixunstfsi(f, x) == fixuint(f, x) % 2 ^ SmallIntBits

(* An integer has fewer bits than the significand, so none is lost. *)
floatditf(f, n) ==
  LET abs == AbsInt(n)
      exponent == HighestBit(abs)
  IN IF n = 0 THEN 0
     ELSE WithSign(f, n < 0, FlipBit(abs * 2 ^ (f.sig - exponent), f.sig)
                             + (exponent + Bias(f)) * Implicit(f))
floatsitf(f, n) == floatditf(f, n)
floatunsitf(f, n) == floatditf(f, n)

-----------------------------------------------------------------------------
ArithmeticInit ==
  \E a, b \in Floats(Quad), mode \in Modes :
    sample = [of |-> "arithmetic", a |-> a, b |-> b, mode |-> mode]
ConvertInit ==
  \/ \E x \in Floats(Wide) : sample = [of |-> "trunc", x |-> x]
  \/ \E x \in Floats(Narrow), k \in {"float", "double"} :
       sample = [of |-> "extend", x |-> x, kind |-> k]
  \/ \E n \in -(2 ^ (IntBits - 1))..2 ^ (IntBits - 1) - 1 : sample = [of |-> "int", n |-> n]

(* The sum and the difference of two finite numbers are the exact ones,    *)
(* correctly rounded in each of the four modes, through every alignment,   *)
(* cancellation, carry and denormal result; only when the result is too    *)
(* large do all modes give infinity.                                       *)
SumsRounded ==
  sample.of = "arithmetic" /\ IsFinite(Quad, sample.a) /\ IsFinite(Quad, sample.b) =>
    \A plus \in BOOLEAN :
      \A r \in {IF plus THEN addXf3(Quad, sample.a, sample.b, sample.mode)
                ELSE subtf3(Quad, sample.a, sample.b, sample.mode)},
         v \in {IF plus THEN Value(Quad, sample.a) + Value(Quad, sample.b)
                ELSE Value(Quad, sample.a) - Value(Quad, sample.b)} :
      LET abs == AbsRep(Quad, r)
          away == (sample.mode = "up" /\ v > 0) \/ (sample.mode = "down" /\ v < 0)
          at(x) == Magnitude(Quad, x)
      IN /\ v # 0 => Negative(Quad, r) = (v < 0)
         /\ CASE sample.mode = "nearest" -> IsNearest(Quad, abs, AbsInt(v), 0)
              [] sample.mode # "nearest" /\ abs = InfRep(Quad) ->
                   AbsInt(v) > at(InfRep(Quad) - 1)
              [] OTHER -> IF away THEN AbsInt(v) <= at(abs) /\ (abs > 0 => at(abs - 1) < AbsInt(v))
                          ELSE at(abs) <= AbsInt(v) /\ AbsInt(v) < at(abs + 1)

(* Both comparisons order the numbers as they are, a zero of either sign   *)
(* the same, and disagree exactly when an operand is no number.            *)
ComparesByValue ==
  sample.of = "arithmetic" =>
    LET a == sample.a
        b == sample.b
        nan == IsNaN(Quad, a) \/ IsNaN(Quad, b)
        order == IF Value(Quad, a) < Value(Quad, b) THEN -1
                 ELSE IF Value(Quad, a) = Value(Quad, b) THEN 0 ELSE 1
    IN /\ (leXf2(Quad, a, b) # geXf2(Quad, a, b)) = nan
       /\ ~nan => leXf2(Quad, a, b) = order

(* Zero, infinity and NaN as operands of * and /: the result is a NaN      *)
(* exactly when the operation has no value, and its sign is that of the    *)
(* operands; a quotient by zero is infinite.  A product of two powers of   *)
(* two is exact when it is a normal number; it is the only one that needs  *)
(* no bit which wideMultiply drops.                                        *)
SpecialOperands ==
  sample.of = "arithmetic" =>
    LET a == sample.a
        b == sample.b
        sign == Negative(Quad, a) # Negative(Quad, b)
        zero(x) == AbsRep(Quad, x) = 0
        inf(x) == AbsRep(Quad, x) = InfRep(Quad)
        nan == IsNaN(Quad, a) \/ IsNaN(Quad, b)
        d == DivSpecial(Quad, a, b)
        power(x) == Fraction(Quad, x) = 0 /\ Exponent(Quad, x) \in 1..MaxExponent(Quad) - 1
        exponent == Exponent(Quad, a) + Exponent(Quad, b) - Bias(Quad)
    IN \A m \in {mulXf3(Quad, a, b)} :
       /\ IsNaN(Quad, m) = (nan \/ (inf(a) /\ zero(b)) \/ (zero(a) /\ inf(b)))
       /\ ~IsNaN(Quad, m) => Negative(Quad, m) = sign
       /\ d # -1 => /\ IsNaN(Quad, d) = (nan \/ (inf(a) /\ inf(b)) \/ (zero(a) /\ zero(b)))
                    /\ ~IsNaN(Quad, d) => /\ Negative(Quad, d) = sign
                                          /\ inf(d) = (inf(a) \/ zero(b))
       /\ power(a) /\ power(b) /\ exponent >= 1 =>
            AbsRep(Quad, m) = IF exponent >= MaxExponent(Quad) THEN InfRep(Quad)
                              ELSE exponent * Implicit(Quad)
       /\ d = -1 => IsFinite(Quad, a) /\ IsFinite(Quad, b) /\ ~zero(a) /\ ~zero(b)

(* The units of the narrow format in units of the wide one. *)
UnitShift == (Bias(Wide) + Wide.sig) - (Bias(Narrow) + Narrow.sig)

(* A narrower number is the nearest one, ties to even, denormals and       *)
(* overflow included.                                                      *)
TruncNearest ==
  sample.of = "trunc" /\ IsFinite(Wide, sample.x) =>
    LET r == truncXfYf2(Wide, Narrow, sample.x)
    IN /\ Negative(Narrow, r) = Negative(Wide, sample.x)
       /\ IsNearest(Narrow, AbsRep(Narrow, r), AbsInt(Value(Wide, sample.x)), UnitShift)

(* A double is extended exactly, and comes back as it was; a float too,    *)
(* unless it is a denormal.                                                *)
ExtendExact ==
  sample.of = "extend" =>
    LET wide == extendXfYf2(Narrow, Wide, sample.x, sample.kind)
        denormal == Exponent(Narrow, sample.x) = 0 /\ Fraction(Narrow, sample.x) # 0
    IN ~(sample.kind = "float" /\ denormal) =>
         /\ IsFinite(Narrow, sample.x) =>
              /\ Value(Wide, wide) = Value(Narrow, sample.x) * 2 ^ UnitShift
              /\ truncXfYf2(Wide, Narrow, wide) = sample.x
         /\ IsNaN(Narrow, sample.x) = IsNaN(Wide, wide)

(* A number becomes an integer towards zero and is held at the limits from *)
(* 2^IntBits on; between the largest integer and that it wraps.            *)
FixTowardsZero ==
  sample.of = "trunc" /\ ~IsNaN(Wide, sample.x) =>
    LET x == sample.x
        v == AbsInt(Value(Wide, x)) \div 2 ^ (Bias(Wide) - 1 + Wide.sig)
        signed == IF Negative(Wide, x) THEN - v ELSE v
        limit == IF Negative(Wide, x) THEN - (2 ^ (IntBits - 1)) ELSE 2 ^ (IntBits - 1) - 1
    IN /\ v < 2 ^ (IntBits - 1) => fixint(Wide, x) = signed
       /\ v >= 2 ^ IntBits => fixint(Wide, x) = limit
       /\ fixuint(Wide, x) = IF Negative(Wide, x) THEN 0
                             ELSE IF v < 2 ^ IntBits THEN v ELSE 2 ^ IntBits - 1

(* An integer survives the way to long double and back; one that is too    *)
(* large for 32 bits is cut off, since only the 64-bit conversion knows    *)
(* its limits.                                                             *)
IntegersSurvive ==
  sample.of = "int" =>
    LET x == floatditf(Wide, sample.n)
    IN /\ fixint(Wide, x) = sample.n
       /\ Value(Wide, x) = sample.n * 2 ^ (Bias(Wide) - 1 + Wide.sig)
       /\ fixuint(Wide, x) = IF sample.n < 0 THEN 0 ELSE sample.n
       /\ fixtfsi(Wide, x) = Wrapped(sample.n, SmallIntBits)
       /\ sample.n \in 0..2 ^ SmallIntBits - 1 =>
            fixunstfsi(Wide, floatunsitf(Wide, sample.n)) = sample.n
       /\ sample.n = Wrapped(sample.n, SmallIntBits) =>
            fixtfsi(Wide, floatsitf(Wide, sample.n)) = sample.n

-----------------------------------------------------------------------------
(***************************************************************************)
(* The functions of src/ansi/musl-math that work on the bits of a number,  *)
(* for any format f: rounding to an integer, taking apart and scaling,     *)
(* neighbours and remainders.  The functions for float that differ only in *)
(* the format have no definition of their own; floorf and ceilf do.        *)
(* Additions of the hardware round in the mode that is set.  Flags are not *)
(* modelled.                                                               *)
(***************************************************************************)

CONSTANTS
  UnaryFormats, PairFormats, ScaleFormats,
  ScaleSteps,       \* the arguments n of scalbn
  QuoBits,          \* of the quotient that remquo returns: 31
  FmaFormat,        \* the numbers of fma
  FmaWord,          \* the bits of its words: 64, for 53 of a significand
  FmaNumbers        \* its first two arguments

RoundingModes == {"nearest", "down", "up", "zero"}

-----------------------------------------------------------------------------
(* The hardware.  bits / 2^tail as an integer, in a rounding mode. *)
RoundBits(bits, tail, negative, mode) ==
  LET kept == bits \div 2 ^ tail
      rest == 2 * (bits % 2 ^ tail)
      up == CASE mode = "nearest" -> rest > 2 ^ tail \/ (rest = 2 ^ tail /\ kept % 2 = 1)
              [] mode = "down"    -> negative /\ rest > 0
              [] mode = "up"      -> ~negative /\ rest > 0
              [] mode = "zero"    -> FALSE
  IN IF up THEN kept + 1 ELSE kept

(* The number nearest to v smallest denormals. *)
FromUnits(f, v, mode) ==
  LET abs == AbsInt(v)
      tail == IF abs < 2 * Implicit(f) THEN 0 ELSE HighestBit(abs) - f.sig
      rep == tail * Implicit(f) + RoundBits(abs, tail, v < 0, mode)
  IN WithSign(f, v < 0, IF rep > InfRep(f) THEN InfRep(f) ELSE rep)

Opposite(f, x) == WithSign(f, ~Negative(f, x), AbsRep(f, x))

hwAdd(f, x, y, mode) ==
  LET v == Value(f, x) + Value(f, y)
  IN IF v # 0 THEN FromUnits(f, v, mode)
     ELSE IF Negative(f, x) = Negative(f, y) THEN x
     ELSE WithSign(f, mode = "down", 0)
hwSub(f, x, y, mode) == hwAdd(f, x, Opposite(f, y), mode)

(* x times a power of two, to nearest; x is finite and not zero. *)
hwScale(f, x, n) ==
  LET norm == Normalized(f, x)
      exp == norm.exp + n
      drop == 1 - exp
  IN WithSign(f, Negative(f, x),
       IF exp >= MaxExponent(f) THEN InfRep(f)
       ELSE IF exp >= 1 THEN (exp - 1) * Implicit(f) + norm.sig
       ELSE IF drop > f.sig + 1 THEN 0
       ELSE RoundBits(norm.sig, drop, FALSE, "nearest"))

(* v * 2^k smallest denormals, v > 0, to nearest. *)
FromScaled(f, v, k) ==
  LET top == HighestBit(v) - f.sig
      tail == IF top < - k THEN - k ELSE top
      sig == IF tail < 0 THEN v * 2 ^ (- tail)
             ELSE IF tail > 30 THEN 0 ELSE RoundBits(v, tail, FALSE, "nearest")
      rep == (tail + k) * Implicit(f) + sig
  IN IF rep > InfRep(f) THEN InfRep(f) ELSE rep

hwMul(f, x, y) ==
  LET v == Magnitude(f, AbsRep(f, x)) * Magnitude(f, AbsRep(f, y))
  IN WithSign(f, Negative(f, x) # Negative(f, y),
              IF v = 0 THEN 0 ELSE FromScaled(f, v, - (Bias(f) - 1 + f.sig)))

PowerOfTwo(f, n) == (Bias(f) + n) * Implicit(f)
One(f) == PowerOfTwo(f, 0)

-----------------------------------------------------------------------------
(* To an integer. *)
toint(f) == PowerOfTwo(f, f.sig)

(* An integer next to x, by adding and taking away 1/EPS. *)
Neighbor(f, x, mode) ==
  IF Negative(f, x) THEN hwAdd(f, hwSub(f, x, toint(f), mode), toint(f), mode)
  ELSE hwSub(f, hwAdd(f, x, toint(f), mode), toint(f), mode)

floor(f, x, mode) ==
  LET y == hwSub(f, Neighbor(f, x, mode), x, mode)
  IN IF Exponent(f, x) >= Bias(f) + f.sig \/ AbsRep(f, x) = 0 THEN x
     ELSE IF Exponent(f, x) <= Bias(f) - 1
       THEN IF Negative(f, x) THEN Opposite(f, One(f)) ELSE 0
     ELSE IF Value(f, y) > 0 THEN hwSub(f, hwAdd(f, x, y, mode), One(f), mode)
     ELSE hwAdd(f, x, y, mode)

ceil(f, x, mode) ==
  LET y == hwSub(f, Neighbor(f, x, mode), x, mode)
  IN IF Exponent(f, x) >= Bias(f) + f.sig \/ AbsRep(f, x) = 0 THEN x
     ELSE IF Exponent(f, x) <= Bias(f) - 1
       THEN IF Negative(f, x) THEN SignBit(f) ELSE One(f)
     ELSE IF Value(f, y) < 0 THEN hwAdd(f, hwAdd(f, x, y, mode), One(f), mode)
     ELSE hwAdd(f, x, y, mode)

(* floorf and ceilf add to the fraction's bits instead: a carry goes into  *)
(* the exponent.                                                           *)
ClearLow(x, m) == x - (x % (m + 1))

MaskOf(f, x) == 2 ^ (f.sig - (Exponent(f, x) - Bias(f))) - 1

floorf(f, x) ==
  LET e == Exponent(f, x) - Bias(f)
      m == MaskOf(f, x)
  IN IF e >= f.sig THEN x
     ELSE IF e >= 0
       THEN IF x % (m + 1) = 0 THEN x
            ELSE ClearLow(IF Negative(f, x) THEN x + m ELSE x, m)
     ELSE IF ~Negative(f, x) THEN 0
     ELSE IF AbsRep(f, x) # 0 THEN Opposite(f, One(f)) ELSE x

ceilf(f, x) ==
  LET e == Exponent(f, x) - Bias(f)
      m == MaskOf(f, x)
  IN IF e >= f.sig THEN x
     ELSE IF e >= 0
       THEN IF x % (m + 1) = 0 THEN x
            ELSE ClearLow(IF Negative(f, x) THEN x ELSE x + m, m)
     ELSE IF Negative(f, x) THEN SignBit(f)
     ELSE IF AbsRep(f, x) # 0 THEN One(f) ELSE x

trunc(f, x) ==
  LET e == Exponent(f, x) - Bias(f)
      m == IF e < 0 THEN SignBit(f) - 1 ELSE MaskOf(f, x)
  IN IF e >= f.sig THEN x ELSE ClearLow(x, m)

(* Halves go away from zero, whatever the mode. *)
round(f, x, mode) ==
  LET a == AbsRep(f, x)
      half == PowerOfTwo(f, -1)
      y == hwSub(f, hwSub(f, hwAdd(f, a, toint(f), mode), toint(f), mode), a, mode)
      sum == hwAdd(f, y, a, mode)
      r == IF Value(f, y) > Value(f, half) THEN hwSub(f, sum, One(f), mode)
           ELSE IF Value(f, y) <= - Value(f, half) THEN hwAdd(f, sum, One(f), mode)
           ELSE sum
  IN IF Exponent(f, x) >= Bias(f) + f.sig THEN x
     ELSE IF Exponent(f, x) < Bias(f) - 1 THEN WithSign(f, Negative(f, x), 0)
     ELSE IF Negative(f, x) THEN Opposite(f, r) ELSE r

rint(f, x, mode) ==
  LET y == Neighbor(f, x, mode)
  IN IF Exponent(f, x) >= Bias(f) + f.sig THEN x
     ELSE IF Value(f, y) = 0 THEN WithSign(f, Negative(f, x), 0) ELSE y

(* The fraction that is returned and the integer that is stored. *)
modf(f, x) ==
  LET e == Exponent(f, x) - Bias(f)
      zero == WithSign(f, Negative(f, x), 0)
      whole == ClearLow(x, MaskOf(f, x))
  IN IF e >= f.sig THEN [frac |-> IF IsNaN(f, x) THEN x ELSE zero, int |-> x]
     ELSE IF e < 0 THEN [frac |-> x, int |-> zero]
     ELSE IF whole = x THEN [frac |-> zero, int |-> x]
     ELSE [frac |-> hwSub(f, x, whole, "nearest"), int |-> whole]

-----------------------------------------------------------------------------
(* Apart and together.  frexp scales a denormal up by 2^64 first; here by  *)
(* enough for its format.                                                  *)
FrexpScale(f) == f.sig + 1

WithHalf(f, x) == WithSign(f, Negative(f, x), PowerOfTwo(f, -1) + Fraction(f, x))
frexp(f, x) ==
  LET scaled == hwScale(f, x, FrexpScale(f))
  IN IF AbsRep(f, x) = 0 \/ Exponent(f, x) = MaxExponent(f) THEN [frac |-> x, exp |-> 0]
     ELSE IF Exponent(f, x) = 0
       THEN [frac |-> WithHalf(f, scaled),
             exp |-> Exponent(f, scaled) - (Bias(f) - 1) - FrexpScale(f)]
     ELSE [frac |-> WithHalf(f, x), exp |-> Exponent(f, x) - (Bias(f) - 1)]

(* Of a number that is finite and not zero. *)
ilogb(f, x) ==
  IF Exponent(f, x) = 0 THEN - Bias(f) - (f.sig - 1 - HighestBit(Fraction(f, x)))
  ELSE Exponent(f, x) - Bias(f)

(* By steps that are numbers of the format; downwards they leave room for  *)
(* the significand, so that only the last one rounds.                      *)
ScaleDown(f) == Bias(f) - 1 - (f.sig + 1)

scalbn(f, x, n) ==
  LET times(y, k) == IF AbsRep(f, y) = 0 \/ ~IsFinite(f, y) THEN y ELSE hwScale(f, y, k)
      max == Bias(f)
      min == 1 - Bias(f)
      down == ScaleDown(f)
  IN IF n > max
       THEN IF n - max > max
              THEN times(times(times(x, max), max), IF n - 2 * max > max THEN max ELSE n - 2 * max)
              ELSE times(times(x, max), n - max)
     ELSE IF n < min
       THEN IF n + down < min
              THEN times(times(times(x, - down), - down),
                         IF n + 2 * down < min THEN min ELSE n + 2 * down)
              ELSE times(times(x, - down), n + down)
     ELSE times(x, n)

-----------------------------------------------------------------------------
(* The number after x on the way to y: the integers are in order. *)
nextafter(f, x, y) ==
  LET ax == AbsRep(f, x)
      ay == AbsRep(f, y)
  IN IF IsNaN(f, x) \/ IsNaN(f, y) THEN QNaN(f)
     ELSE IF x = y THEN y
     ELSE IF ax = 0 THEN IF ay = 0 THEN y ELSE WithSign(f, Negative(f, y), 1)
     ELSE IF ax > ay \/ Negative(f, x) # Negative(f, y) THEN x - 1 ELSE x + 1

(* Long division of significands, n + 1 digits of the quotient. *)
Divide(ux, uy, n) ==
  LET digit(p) == IF p.u >= uy THEN [u |-> p.u - uy, q |-> p.q + 1] ELSE p
      r[k \in 0..n] == IF k = 0 THEN digit([u |-> ux, q |-> 0])
                       ELSE digit([u |-> 2 * r[k - 1].u, q |-> 2 * r[k - 1].q])
  IN r[n]

(* A significand below 2^(sig + 1) at exponent ex, put in place. *)
PutBack(f, u, ex) ==
  LET shift == f.sig - HighestBit(u)
      exp == ex - shift
  IN IF u = 0 THEN 0
     ELSE IF exp > 0 THEN (exp - 1) * Implicit(f) + u * 2 ^ shift
     ELSE (u * 2 ^ shift) \div 2 ^ (1 - exp)

NoRemainder(f, x, y) == AbsRep(f, y) = 0 \/ IsNaN(f, y) \/ ~IsFinite(f, x)

fmod(f, x, y) ==
  LET nx == Normalized(f, x)
      ny == Normalized(f, y)
  IN IF NoRemainder(f, x, y) THEN QNaN(f)
     ELSE IF AbsRep(f, x) < AbsRep(f, y) THEN x
     ELSE WithSign(f, Negative(f, x),
            IF AbsRep(f, x) = AbsRep(f, y) THEN 0
            ELSE PutBack(f, Divide(nx.sig, ny.sig, nx.exp - ny.exp).u, ny.exp))

(* The remainder of the nearest quotient, and the low bits of that. *)
remquo(f, x, y) ==
  LET nx == Normalized(f, x)
      ny == Normalized(f, y)
      divided == IF nx.exp < ny.exp THEN [u |-> nx.sig, q |-> 0]
                 ELSE Divide(nx.sig, ny.sig, nx.exp - ny.exp)
      at == IF nx.exp < ny.exp THEN nx.exp ELSE ny.exp
      ex == IF divided.u = 0 THEN -60 ELSE at - (f.sig - HighestBit(divided.u))
      r == PutBack(f, divided.u, at)
      vy == Magnitude(f, AbsRep(f, y))
      vr == Magnitude(f, r)
      more == \/ ex = ny.exp
              \/ ex + 1 = ny.exp /\ (2 * vr > vy \/ (2 * vr = vy /\ divided.q % 2 = 1))
      rest == IF more THEN hwSub(f, r, AbsRep(f, y), "nearest") ELSE r
      quo == (IF more THEN divided.q + 1 ELSE divided.q) % 2 ^ QuoBits
  IN IF NoRemainder(f, x, y) THEN [rem |-> QNaN(f), quo |-> 0]
     ELSE IF AbsRep(f, x) = 0 THEN [rem |-> x, quo |-> 0]
     ELSE IF nx.exp + 1 < ny.exp THEN [rem |-> x, quo |-> 0]
     ELSE [rem |-> IF Negative(f, x) THEN Opposite(f, rest) ELSE rest,
           quo |-> IF Negative(f, x) # Negative(f, y) THEN - quo ELSE quo]

-----------------------------------------------------------------------------
(* Multiply and add with one rounding.  normalize: the significand with    *)
(* one bit to spare below, and the exponent of its last bit; x is finite   *)
(* and not zero.                                                           *)
FmaNum(f, x) == [m |-> 2 * Normalized(f, x).sig,
                 e |-> Normalized(f, x).exp - (Bias(f) + f.sig + 1)]

(* Two words as one number, to the right with a sticky last bit. *)
FmaShift(v, d) ==
  IF d >= 2 * FmaWord THEN 1
  ELSE LET q == v \div 2 ^ d IN IF v % 2 ^ d # 0 /\ q % 2 = 0 THEN q + 1 ELSE q

(* The exact sum r + z as [sign, v, e], v * 2^e, of which only a bit that  *)
(* cannot matter but as a sticky one is lost.                              *)
FmaSum(f, x, y, z) ==
  LET nx == FmaNum(f, x)
      ny == FmaNum(f, y)
      nz == FmaNum(f, z)
      d == nz.e - (nx.e + ny.e)
      over == IF d >= FmaWord THEN d - FmaWord ELSE 0
      r == IF over = 0 THEN nx.m * ny.m
           ELSE IF over < FmaWord THEN FmaShift(nx.m * ny.m, over) ELSE 1
      zz == IF d >= FmaWord THEN nz.m * 2 ^ FmaWord
            ELSE IF d > 0 THEN nz.m * 2 ^ d
            ELSE IF - d < FmaWord THEN FmaShift(nz.m, - d) ELSE 1
      sign == Negative(f, x) # Negative(f, y)
      sum == IF sign = Negative(f, z) THEN r + zz ELSE r - zz
  IN [sign |-> IF sum < 0 THEN ~sign ELSE sign, v |-> AbsInt(sum),
      e |-> IF d >= FmaWord THEN nz.e - FmaWord ELSE nx.e + ny.e]

(* The top FmaWord - 1 bits of it, the last of them sticky; a shorter sum  *)
(* is shifted up to them.                                                  *)
FmaTop(s) ==
  LET up == FmaWord - 2 - HighestBit(s.v)
  IN [sign |-> s.sign, e |-> s.e - up,
      v |-> IF up >= 0 THEN s.v * 2 ^ up ELSE FmaShift(s.v, - up)]

FromInt(f, v) == FromScaled(f, v, Bias(f) - 1 + f.sig)

(* The conversion to a number rounds; so does the scaling of a subnormal   *)
(* result, and then the bits below are made sticky before.  scalbn is what *)
(* ScalingExact shows it to be.                                            *)
FmaConverted(f, t) ==
  LET r == FromInt(f, t.v)
      edge == (1 - Bias(f)) - (FmaWord - 2)
      spare == FmaWord - 2 - f.sig
      c == PowerOfTwo(f, FmaWord - 1)
      half == FmaShift(t.v, 1)
      once == hwSub(f, hwAdd(f, FromInt(f, half + 2 ^ (FmaWord - 2)),
                                FromInt(f, half + 2 ^ (FmaWord - 2)), "nearest"), c, "nearest")
      kept == FmaShift(t.v, spare) * 2 ^ spare
      abs == CASE t.e >= edge -> hwScale(f, r, t.e)
               [] t.e = edge - 1 /\ r = c -> Implicit(f)
               [] t.e = edge - 1 /\ r # c ->
                    hwScale(f, IF t.v % 2 ^ (spare + 1) # 0 THEN once ELSE r, t.e)
               [] OTHER -> hwScale(f, FromInt(f, kept), t.e)
  IN WithSign(f, t.sign, abs)

FmaOf(f, x, y, z, s) ==
  IF AbsRep(f, x) = 0 \/ AbsRep(f, y) = 0 THEN hwAdd(f, hwMul(f, x, y), z, "nearest")
  ELSE IF AbsRep(f, z) = 0 THEN hwMul(f, x, y)
  ELSE IF s.v = 0 THEN hwAdd(f, hwMul(f, x, y), z, "nearest")
  ELSE FmaConverted(f, FmaTop(s))
fma(f, x, y, z) == FmaOf(f, x, y, z, FmaSum(f, x, y, z))

-----------------------------------------------------------------------------
RoundingInit ==
  \E f \in UnaryFormats, mode \in RoundingModes : \E x \in Floats(f) :
    sample = [of |-> "rounding", f |-> f, x |-> x, mode |-> mode]
ScalingInit ==
  \E f \in ScaleFormats, n \in ScaleSteps : \E x \in Floats(f) :
    sample = [of |-> "scaling", f |-> f, x |-> x, n |-> n]
RemainderInit ==
  \E f \in PairFormats : \E x, y \in Floats(f) :
    sample = [of |-> "remainder", f |-> f, x |-> x, y |-> y]

FmaInit ==
  \E x, y \in FmaNumbers, z \in Floats(FmaFormat) :
    sample = [of |-> "fma", x |-> x, y |-> y, z |-> z]

Sgn(f, x) == IF Negative(f, x) THEN -1 ELSE 1

(* Every function gives the integer it is named for, in all four rounding  *)
(* modes although they compute with additions that round; a zero keeps the *)
(* sign of x, and the versions for float and for double agree.             *)
IntegersRight ==
  sample.of = "rounding" /\ IsFinite(sample.f, sample.x) =>
    LET f == sample.f
        x == sample.x
        mode == sample.mode
        v == Value(f, x)
        abs == AbsInt(v)
        one == Value(f, One(f))
        is(r, whole) == /\ Value(f, r) = whole * one
                        /\ whole = 0 => Negative(f, r) = Negative(f, x)
        nearest == LET k == abs \div one
                   IN IF 2 * (abs % one) > one \/ (2 * (abs % one) = one /\ k % 2 = 1)
                        THEN k + 1 ELSE k
    IN /\ is(floor(f, x, mode), v \div one) /\ floorf(f, x) = floor(f, x, mode)
       /\ is(ceil(f, x, mode), - ((- v) \div one)) /\ ceilf(f, x) = ceil(f, x, mode)
       /\ is(trunc(f, x), Sgn(f, x) * (abs \div one))
       /\ is(round(f, x, mode), Sgn(f, x) * ((2 * abs + one) \div (2 * one)))
       /\ is(rint(f, x, mode), CASE mode = "nearest" -> Sgn(f, x) * nearest
                                 [] mode = "down" -> v \div one
                                 [] mode = "up" -> - ((- v) \div one)
                                 [] mode = "zero" -> Sgn(f, x) * (abs \div one))
       /\ modf(f, x).int = trunc(f, x)
       /\ Value(f, modf(f, x).frac) = v - Value(f, trunc(f, x))
       /\ Negative(f, modf(f, x).frac) = Negative(f, x)

(* frexp and scalbn are inverse, ilogb agrees with frexp, and scalbn       *)
(* rounds once, however many steps it takes.                               *)
ScalingExact ==
  sample.of = "scaling" /\ IsFinite(sample.f, sample.x) /\ AbsRep(sample.f, sample.x) # 0 =>
    LET f == sample.f
        x == sample.x
        apart == frexp(f, x)
    IN /\ Exponent(f, apart.frac) = Bias(f) - 1
       /\ scalbn(f, apart.frac, apart.exp) = x
       /\ ilogb(f, x) = apart.exp - 1
       /\ scalbn(f, x, sample.n) = hwScale(f, x, sample.n)

(* nextafter leaves no number out and goes no further than y. *)
NextIsNext ==
  sample.of = "remainder" /\ ~IsNaN(sample.f, sample.x) /\ ~IsNaN(sample.f, sample.y) =>
    LET f == sample.f
        vx == Value(f, sample.x)
        vy == Value(f, sample.y)
        r == nextafter(f, sample.x, sample.y)
        between(v) == (vx < v /\ v < Value(f, r)) \/ (Value(f, r) < v /\ v < vx)
    IN /\ vx = vy => r = sample.y
       /\ vx < vy => vx < Value(f, r) /\ Value(f, r) <= vy
       /\ vx > vy => vx > Value(f, r) /\ Value(f, r) >= vy
       /\ \A z \in Floats(f) : ~IsNaN(f, z) => ~between(Value(f, z))

(* fmod is exact and has the sign of x; remquo's remainder is that of the  *)
(* nearest quotient, the even one of two, and its quo agrees with that in  *)
(* its low bits and its sign.                                              *)
RemaindersExact ==
  sample.of = "remainder" /\ ~NoRemainder(sample.f, sample.x, sample.y)
    /\ IsFinite(sample.f, sample.y) =>
    LET f == sample.f
        ax == Magnitude(f, AbsRep(f, sample.x))
        ay == Magnitude(f, AbsRep(f, sample.y))
        n == ax \div ay
        rest == ax % ay
        near == IF 2 * rest > ay \/ (2 * rest = ay /\ n % 2 = 1) THEN n + 1 ELSE n
        sign == IF Negative(f, sample.x) = Negative(f, sample.y) THEN 1 ELSE -1
    IN \A m \in {fmod(f, sample.x, sample.y)}, r \in {remquo(f, sample.x, sample.y)} :
       /\ Value(f, m) = Sgn(f, sample.x) * rest
       /\ Negative(f, m) = Negative(f, sample.x)
       /\ Value(f, r.rem) = Sgn(f, sample.x) * (ax - near * ay)
       /\ r.quo = sign * (near % 2 ^ QuoBits)

(* fma is the number nearest to x * y + z, denormals, cancellation and     *)
(* overflow included, and a zero that is exact has the sign of the sum.    *)
FmaRoundsOnce ==
  sample.of = "fma" /\ IsFinite(FmaFormat, sample.z) =>
    LET f == FmaFormat
        scale == Bias(f) - 1 + f.sig
        v == Value(f, sample.x) * Value(f, sample.y) + Value(f, sample.z) * 2 ^ scale
    IN \A r \in {fma(f, sample.x, sample.y, sample.z)} :
         /\ IsNearest(f, AbsRep(f, r), AbsInt(v), scale)
         /\ v # 0 => Negative(f, r) = (v < 0)

(* Arithmetic on the bits of floating-point numbers is exact or correctly  *)
(* rounded, where the code is (see the conjuncts for where it is not).     *)
FloatsRounded ==
  /\ SumsRounded /\ ComparesByValue /\ SpecialOperands /\ TruncNearest /\ ExtendExact
  /\ FixTowardsZero /\ IntegersSurvive /\ IntegersRight /\ ScalingExact /\ NextIsNext
  /\ RemaindersExact /\ FmaRoundsOnce
=============================================================================
