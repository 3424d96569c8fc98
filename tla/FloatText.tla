----------------------------- MODULE FloatText -----------------------------
(***************************************************************************)
(* Floating-point numbers written and read: the conversions f, e, g and a  *)
(* of vfprintf in src/ansi/stdio.cpp, and str_to_float of                  *)
(* src/ansi/str_to_float.hpp (strtod and its relatives).                   *)
(*                                                                         *)
(* vfprintf keeps a number as words of GroupDigits decimal digits in an    *)
(* array: a is the first word, z is behind the last and r is the word of   *)
(* the units.  The sign is written as it is and width is not looked at.    *)
(***************************************************************************)
EXTENDS Numbers, Floats

CONSTANTS
  TextFormats,        \* of the numbers written by f, e and g
  HexFormats,         \* of the numbers written by a, and read
  GroupDigits,        \* decimal digits of a word: 9
  HeadBits,           \* the first word has HeadBits + 1 bits: 28
  ShiftUp,            \* the most a number is scaled up at once: 29
  GuardDigits,        \* digits kept past the precision, LDBL_MANT_DIG / 3: 21
  DefaultPrecision,   \* 6
  MaxPrecision,       \* bound: the precision asked for
  NumberLetters,      \* the characters of the texts that are read
  MaxNumberText       \* bound: characters of such a text

WordBase == 10 ^ GroupDigits
MantissaDigits(f) == f.sig + 1           \* LDBL_MANT_DIG
MaxExp(f) == Bias(f) + 1                 \* LDBL_MAX_EXP

-----------------------------------------------------------------------------
(* The array. *)
BigSize(f) ==
  (MantissaDigits(f) + HeadBits) \div (HeadBits + 1) + 1
  + (MaxExp(f) + MantissaDigits(f) + HeadBits + (GroupDigits - 1)) \div GroupDigits

(* The words of n / 2^tail: the integer, then the fraction. *)
RECURSIVE WordsOf(_, _)
WordsOf(n, tail) ==
  LET rest == n % 2 ^ tail
  IN <<n \div 2 ^ tail>> \o (IF rest = 0 THEN <<>> ELSE WordsOf(rest * WordBase, tail))

UnitWord(f, exp) == IF exp < 0 THEN 0 ELSE BigSize(f) - MantissaDigits(f) - 1

(* The significand, as a first word of HeadBits + 1 bits and its fraction; *)
(* low and high are the ends of what was ever used.                        *)
FirstWords(f, x) ==
  LET norm == Normalized(f, x)
      zero == x = 0
      exp == IF zero THEN 0 ELSE norm.exp - Bias(f) - HeadBits
      tail == IF f.sig > HeadBits THEN f.sig - HeadBits ELSE 0
      n == IF zero THEN 0 ELSE norm.sig * 2 ^ (HeadBits - f.sig + tail)
      words == WordsOf(n, tail)
      r == UnitWord(f, exp)
  IN [w |-> [d \in -1..BigSize(f) |-> IF d >= r /\ d < r + Len(words) THEN words[d - r + 1] ELSE 0],
      a |-> r, z |-> r + Len(words), r |-> r, exp |-> exp, low |-> r, high |-> r + Len(words)]

(* Zero words at the end are left out. *)
TrimEnd(s) ==
  LET ends == {k \in (s.a + 1)..s.z : s.w[k - 1] # 0}
  IN [s EXCEPT !.z = IF s.z <= s.a THEN s.z ELSE Max(ends \cup {s.a})]

WordsUp(s) ==
  LET shift == IF s.exp < ShiftUp THEN s.exp ELSE ShiftUp
      carry[d \in s.a..s.z] ==
        IF d = s.z THEN 0 ELSE (s.w[d] * 2 ^ shift + carry[d + 1]) \div WordBase
      a == IF carry[s.a] # 0 THEN s.a - 1 ELSE s.a
      scaled == [d \in DOMAIN s.w |->
                  IF d \in s.a..(s.z - 1) THEN (s.w[d] * 2 ^ shift + carry[d + 1]) % WordBase
                  ELSE IF d = s.a - 1 /\ carry[s.a] # 0 THEN carry[s.a]
                  ELSE s.w[d]]
  IN IF s.exp <= 0 THEN s
     ELSE TrimEnd([s EXCEPT !.w = scaled, !.a = a, !.exp = @ - shift,
                            !.low = IF a < @ THEN a ELSE @])

(* The words are halved up to GroupDigits times in a round; words past     *)
(* those the precision needs are dropped.                                  *)
RECURSIVE WordsDown(_, _, _, _)
WordsDown(f, spec, precision, s) ==
  LET shift == IF - s.exp < GroupDigits THEN - s.exp ELSE GroupDigits
      need == 1 + (precision + GuardDigits + (GroupDigits - 1)) \div GroupDigits
      carryInto(d) == IF d = s.a THEN 0 ELSE (WordBase \div 2 ^ shift) * (s.w[d - 1] % 2 ^ shift)
      carry == IF s.a < s.z THEN carryInto(s.z) ELSE 0
      w == [d \in DOMAIN s.w |->
             IF d \in s.a..(s.z - 1) THEN s.w[d] \div 2 ^ shift + carryInto(d)
             ELSE IF d = s.z /\ carry # 0 THEN carry
             ELSE s.w[d]]
      a == IF w[s.a] = 0 THEN s.a + 1 ELSE s.a
      z == IF carry # 0 THEN s.z + 1 ELSE s.z
      b == IF spec = "f" THEN s.r ELSE a
  IN IF s.exp >= 0 THEN s
     ELSE WordsDown(f, spec, precision,
            [s EXCEPT !.w = w, !.a = a, !.z = IF z - b > need THEN b + need ELSE z,
                      !.exp = @ + shift, !.high = IF z > @ THEN z ELSE @])

DigitCount(n) == IF n = 0 THEN 1 ELSE CHOOSE k \in 1..10 : 10 ^ (k - 1) <= n /\ n \div 10 < 10 ^ (k - 1)

(* The decimal exponent of the first digit. *)
DecimalExponent(s) == GroupDigits * (s.r - s.a) + DigitCount(s.w[s.a]) - 1

-----------------------------------------------------------------------------
(* Rounding to the digits asked for. *)

(* A word that became too large carries into the one before it, which may  *)
(* be a new first word.                                                    *)
RECURSIVE CarryOver(_, _)
CarryOver(s, d) ==
  IF s.w[d] < WordBase THEN s
  ELSE LET a == IF d - 1 < s.a THEN s.a - 1 ELSE s.a
           emptied == [s.w EXCEPT ![d] = 0, ![a] = IF a < s.a THEN 0 ELSE @]
       IN CarryOver([s EXCEPT !.w = [emptied EXCEPT ![d - 1] = @ + 1], !.a = a,
                          !.low = IF a < @ THEN a ELSE @], d - 1)

(* Whether the digits x below unit round the number up; last: nothing      *)
(* follows them; odd: the digit kept is odd.                               *)
WordRoundsUp(x, unit, last, odd) ==
  \/ x > unit \div 2
  \/ x = unit \div 2 /\ (~last \/ odd)

(* digits: how many of them follow the radix, possibly fewer than none.    *)
RoundTo(s, digits) ==
  LET d == s.r + 1 + digits \div GroupDigits
      unit == 10 ^ (GroupDigits - (digits % GroupDigits))
      x == s.w[d] % unit
      odd == \/ (s.w[d] \div unit) % 2 = 1
             \/ unit = WordBase /\ d > s.a /\ s.w[d - 1] % 2 = 1
      cut == [s EXCEPT !.w[d] = @ - x]
      rounded == IF (x # 0 \/ d + 1 # s.z) /\ WordRoundsUp(x, unit, d + 1 = s.z, odd)
                   THEN LET up == CarryOver([cut EXCEPT !.w[d] = @ + unit], d)
                        IN [up EXCEPT !.exp = DecimalExponent(up)]
                 ELSE IF x # 0 \/ d + 1 # s.z THEN cut ELSE s
  IN IF digits >= GroupDigits * (s.z - s.r - 1) THEN s
     ELSE [rounded EXCEPT !.z = IF @ > d + 1 THEN d + 1 ELSE @, !.low = IF d < @ THEN d ELSE @]

-----------------------------------------------------------------------------
(* What is written. *)
Padded(n) == [k \in 1..GroupDigits |-> (n \div 10 ^ (GroupDigits - k)) % 10]
Plain(n) == SubSeq(Padded(n), GroupDigits - DigitCount(n) + 1, GroupDigits)

WordDigits(w, first, last) == FlattenSeq([k \in 1..(last - first + 1) |-> Padded(w[first + k - 1])])

(* The first n digits, zeros after them. *)
Cut(digits, n) == [k \in 1..n |-> IF k <= Len(digits) THEN digits[k] ELSE 0]

TrailingZeros(n) == CHOOSE k \in 0..9 : n % 10 ^ k = 0 /\ n % 10 ^ (k + 1) # 0

Fixed(s, precision) ==
  LET a == IF s.a > s.r THEN s.r ELSE s.a
  IN [whole |-> Plain(s.w[a]) \o WordDigits(s.w, a + 1, s.r),
      frac |-> Cut(IF s.z > s.r + 1 THEN WordDigits(s.w, s.r + 1, s.z - 1) ELSE <<>>, precision),
      exp |-> 0, form |-> "f"]

Scientific(s, precision) ==
  LET z == IF s.z <= s.a THEN s.a + 1 ELSE s.z
      digits == Plain(s.w[s.a]) \o WordDigits(s.w, s.a + 1, z - 1)
  IN [whole |-> <<Head(digits)>>, frac |-> Cut(Tail(digits), precision), exp |-> s.exp,
      form |-> "e"]

(* g: f or e by the exponent, without the zeros at the end. *)
General(s, precision, alt) ==
  LET p == IF precision = 0 THEN 1 ELSE precision
      fixed == p > s.exp /\ s.exp >= -4
      asked == IF fixed THEN p - (s.exp + 1) ELSE p - 1
      zeros == IF s.z > s.a /\ s.w[s.z - 1] # 0 THEN TrailingZeros(s.w[s.z - 1]) ELSE GroupDigits
      held == GroupDigits * (s.z - s.r - 1) - zeros + (IF fixed THEN 0 ELSE s.exp)
      shown == IF alt THEN asked ELSE Min({asked, Max({held, 0})})
  IN IF fixed THEN Fixed(s, shown) ELSE Scientific(s, shown)

(* The words when the digits are settled: with their decimal exponent, and *)
(* rounded.                                                                *)
WithExponent(s) == [s EXCEPT !.exp = IF s.a < s.z THEN DecimalExponent(s) ELSE 0]
RoundedFor(spec, precision, s) ==
  TrimEnd(RoundTo(s, precision - (IF spec = "f" THEN 0 ELSE s.exp)
                     - (IF spec = "g" /\ precision # 0 THEN 1 ELSE 0)))
Settled(f, x, spec, precision) ==
  RoundedFor(spec, precision,
             WithExponent(WordsDown(f, spec, precision, WordsUp(FirstWords(f, x)))))

(* x is finite and not negative. *)
WriteWords(s, spec, precision, alt) ==
  CASE spec = "f" -> Fixed(s, precision)
    [] spec = "e" -> Scientific(s, precision)
    [] spec = "g" -> General(s, precision, alt)
PrecisionOf(hasPrecision, given) == IF hasPrecision THEN given ELSE DefaultPrecision
WriteFloat(f, x, spec, precision, alt) ==
  WriteWords(Settled(f, x, spec, precision), spec, precision, alt)

(* The conversion a: hexadecimal digits of the significand, 1 and its      *)
(* fraction, rounded by adding and taking away a large number.             *)
RECURSIVE HexDigits(_, _)
HexDigits(n, tail) ==
  LET rest == n % 2 ^ tail
  IN <<n \div 2 ^ tail>> \o (IF rest = 0 THEN <<>> ELSE HexDigits(16 * rest, tail))

WriteHex(f, x, hasPrecision, precision) ==
  LET norm == Normalized(f, x)
      exp == IF x = 0 THEN 0 ELSE norm.exp - Bias(f)
      value == IF x = 0 THEN 0 ELSE One(f) + norm.sig - Implicit(f)
      large == PowerOfTwo(f, MantissaDigits(f) - 1 - 4 * precision)
      rounds == hasPrecision /\ precision < (MantissaDigits(f) - 1 + 3) \div 4
      rounded == IF rounds THEN hwSub(f, hwAdd(f, value, large, "nearest"), large, "nearest")
                 ELSE value
      units == Magnitude(f, rounded)
      digits == HexDigits(units, Bias(f) - 1 + f.sig)
  IN [whole |-> <<Head(digits)>>,
      frac |-> IF hasPrecision /\ precision > Len(digits) - 1 THEN Cut(Tail(digits), precision)
               ELSE Tail(digits),
      exp |-> exp, form |-> "a"]

-----------------------------------------------------------------------------
(* The reference: the number that the digits stand for is the nearest one  *)
(* with that many digits, the even one of two.                             *)
Numeral(digits, base) == FoldLeft(LAMBDA n, d : base * n + d, 0, digits)

(* num / den as an integer. *)
NearestInteger(num, den) ==
  LET q == num \div den
      rest == num % den
  IN IF rest > den - rest \/ (rest = den - rest /\ q % 2 = 1) THEN q + 1 ELSE q

UnitExp(f) == 1 - Bias(f) - f.sig
PowerRatio(base, k) == IF k >= 0 THEN <<base ^ k, 1>> ELSE <<1, base ^ (- k)>>

(* x * 10^k. *)
TimesTen(f, x, k) ==
  LET norm == Normalized(f, x)
      two == PowerRatio(2, norm.exp - Bias(f) - f.sig)
      ten == PowerRatio(10, k)
  IN IF x = 0 THEN <<0, 1>> ELSE <<norm.sig * two[1] * ten[1], two[2] * ten[2]>>

Rounded10(f, x, k) == LET q == TimesTen(f, x, k) IN NearestInteger(q[1], q[2])

FirstDigitExp(f, x) ==
  CHOOSE k \in -6..6 : LET q == TimesTen(f, x, - k) IN q[1] \div q[2] \in 1..9

FixedNumber(f, x, precision) ==
  [n |-> Rounded10(f, x, precision), places |-> precision, exp |-> 0, form |-> "f"]

CarriedNumber(n, k, precision, carried) ==
  [n |-> IF carried THEN n \div 10 ELSE n, places |-> precision,
   exp |-> IF carried THEN k + 1 ELSE k, form |-> "e"]
ScientificRounded(n, k, precision) == CarriedNumber(n, k, precision, n = 10 ^ (precision + 1))
ScientificFrom(f, x, k, precision) ==
  ScientificRounded(Rounded10(f, x, precision - k), k, precision)
ScientificNumber(f, x, precision) ==
  ScientificFrom(f, x, IF x = 0 THEN 0 ELSE FirstDigitExp(f, x), precision)

WithoutZeros(t) ==
  LET drop == Max({k \in 0..t.places : t.n % 10 ^ k = 0})
  IN [t EXCEPT !.n = t.n \div 10 ^ drop, !.places = t.places - drop]

GeneralForm(f, x, p, t) ==
  IF p > t.exp /\ t.exp >= -4 THEN FixedNumber(f, x, p - 1 - t.exp) ELSE t
GeneralNumber(f, x, precision, alt) ==
  LET p == IF precision = 0 THEN 1 ELSE precision
      shown == GeneralForm(f, x, p, ScientificNumber(f, x, p - 1))
  IN IF alt THEN shown ELSE WithoutZeros(shown)

NumberOf(f, x, spec, precision, alt) ==
  CASE spec = "f" -> FixedNumber(f, x, precision)
    [] spec = "e" -> ScientificNumber(f, x, precision)
    [] spec = "g" -> GeneralNumber(f, x, precision, alt)

-----------------------------------------------------------------------------
decimal == sample.decimal
hex == sample.hex

DecimalInit ==
  \E f \in TextFormats, spec \in {"f", "e", "g"}, has, alt \in BOOLEAN, p \in 0..MaxPrecision :
    \E x \in 0..InfRep(f) - 1 :
      /\ alt => spec = "g"
      /\ ~has => p = 0
      /\ sample = [of |-> "decimal", decimal |-> [f |-> f, x |-> x, spec |-> spec, has |-> has,
                                                 precision |-> p, alt |-> alt]]

(* Numbers that one step of scaling up reaches: below 2^58. *)
OneStepUp(f, x) == x < (HeadBits + ShiftUp + 1 + Bias(f)) * Implicit(f)

(* printf writes the decimal number of the digits asked for that is        *)
(* nearest to the value, the even one of two equally near, in the form f,  *)
(* e or g asks for; but only for numbers that one step of scaling up       *)
(* reaches, since vfprintf's loop for large exponents runs once.           *)
DecimalNearest ==
  sample.of = "decimal" =>
    LET c == decimal
        precision == PrecisionOf(c.has, c.precision)
    IN OneStepUp(c.f, c.x) =>
         \A out \in {WriteFloat(c.f, c.x, c.spec, precision, c.alt)},
            ref \in {NumberOf(c.f, c.x, c.spec, precision, c.alt)} :
         /\ out.form = ref.form /\ out.exp = ref.exp /\ Len(out.frac) = ref.places
         /\ Numeral(out.whole \o out.frac, 10) = ref.n
         /\ Len(out.whole) = DigitCount(Numeral(out.whole, 10))

(* The words stay in the array, also when rounding makes a new first word. *)
BigStaysInside ==
  sample.of = "decimal" =>
    LET c == decimal
    IN \A s \in {Settled(c.f, c.x, c.spec, PrecisionOf(c.has, c.precision))} :
         s.low >= 0 /\ s.high <= BigSize(c.f)

-----------------------------------------------------------------------------
(* Reading.  The hardware: x * n, x + n and n1 / n2 for small integers; an *)
(* infinite value stays what it is.                                        *)
Units(f) == 2 ^ (Bias(f) - 1 + f.sig)     \* smallest denormals in 1

FromRatio(f, num, den) ==
  LET q == num \div den
      tail == IF q < 2 * Implicit(f) THEN 0 ELSE HighestBit(q) - f.sig
      rep == tail * Implicit(f) + NearestInteger(num, den * 2 ^ tail)
  IN IF rep > InfRep(f) THEN InfRep(f) ELSE rep

TimesInt(f, x, n) == IF x = InfRep(f) THEN x ELSE FromUnits(f, n * Magnitude(f, x), "nearest")
PlusInt(f, x, n)  == IF x = InfRep(f) THEN x
                     ELSE FromUnits(f, Magnitude(f, x) + n * Units(f), "nearest")
OverInt(f, x, n)  == IF x = InfRep(f) THEN x ELSE FromRatio(f, Magnitude(f, x), n)
hwSum(f, x, y)    == IF InfRep(f) \in {x, y} THEN InfRep(f) ELSE hwAdd(f, x, y, "nearest")

(* digit / y, for an integer y *)
DigitOver(f, digit, y) ==
  IF y = InfRep(f) THEN 0 ELSE FromRatio(f, digit * Units(f), Magnitude(f, y) \div Units(f))

(* The digits of a base from i on, at most width of them. *)
DigitRun(s, i, base, width) ==
  LET past == {k \in i..(Len(s) + 1) : k >= i + width \/ ~valid_char(At(s, k), base)}
  IN [k \in 1..(Min(past) - i) |-> Digit[s[i + k - 1]]]

HasWord(s, i, word) == \A k \in 1..Len(word) : At(s, i + k - 1) = word[k]
Infinity == <<"i", "n", "f", "i", "n", "i", "t", "y">>
Inf == <<"i", "n", "f">>
NaN == <<"n", "a", "n">>

WholeDigits(f, base, digits) ==
  FoldLeft(LAMBDA x, d : PlusInt(f, TimesInt(f, x, base), d), 0, digits)

(* strtod divides each digit of the fraction by a power of the base. *)
FractionDigits(f, base, x, digits) ==
  FoldLeft(LAMBDA st, d : [x |-> hwSum(f, st.x, DigitOver(f, d, st.by)),
                           by |-> TimesInt(f, st.by, base)],
           [x |-> x, by |-> PlusInt(f, 0, base)], digits).x

(* The exponent at i and the index behind it; a letter without digits      *)
(* counts too.                                                             *)
ExponentAt(s, i, base, width) ==
  LET letter == width # 0 /\ At(s, i) = (IF base = 10 THEN "e" ELSE "p")
      sign == width # 1 /\ At(s, i + 1) \in {"-", "+"}
      start == IF sign THEN i + 2 ELSE i + 1
      digits == DigitRun(s, start, 10, width - (start - i))
  IN IF letter THEN [negative |-> sign /\ At(s, i + 1) = "-", times |-> Numeral(digits, 10),
                     end |-> start + Len(digits)]
     ELSE [negative |-> FALSE, times |-> 0, end |-> i]

(* Zero and infinity stay what they are. *)
RECURSIVE Scaled(_, _, _, _)
Scaled(f, x, base, exp) ==
  LET by == IF base = 10 THEN 10 ELSE 2
  IN IF exp.times = 0 \/ x \in {0, InfRep(f)} THEN x
     ELSE Scaled(f, IF exp.negative THEN OverInt(f, x, by) ELSE TimesInt(f, x, by), base,
                 [exp EXCEPT !.times = @ - 1])

(* The result, the index behind what was read and whether errno is set.    *)
(* The sign of an infinity is lost.                                        *)
FloatValue(f, base, whole, frac, exp) ==
  [x |-> Scaled(f, FractionDigits(f, base, WholeDigits(f, base, whole), frac), base, exp),
   end |-> exp.end]
FloatBehind(f, s, base, whole, frac, behind) ==
  FloatValue(f, base, whole, frac, ExponentAt(s, behind, base, Len(s) + 1))
FloatPoint(f, s, base, whole, point) ==
  IF At(s, point) = "."
    THEN LET frac == DigitRun(s, point + 1, base, Len(s) + 1)
         IN FloatBehind(f, s, base, whole, frac, point + 1 + Len(frac))
    ELSE FloatBehind(f, s, base, whole, <<>>, point)
FloatDigits(f, s, base, start, whole) ==
  FloatPoint(f, s, base, whole, start + Len(whole))
FloatNumber(f, s, base, start) ==
  FloatDigits(f, s, base, start, DigitRun(s, start, base, Len(s) + 1))
FloatSigned(f, negative, r) ==
  [x |-> WithSign(f, negative, r.x), end |-> r.end, erange |-> r.x = InfRep(f)]
FloatFrom(f, s, space, i) ==
  LET hexed == At(s, i) = "0" /\ At(s, i + 1) = "x"
      closed == SelectInSubSeq(s, i + 3, Len(s), LAMBDA c : c = ")")
  IN IF HasWord(s, i, NaN)
       THEN [x |-> QNaN(f), end |-> IF At(s, i + 3) = "(" THEN closed + 1 ELSE i + 3,
             erange |-> FALSE]
     ELSE IF HasWord(s, i, Inf)
       THEN [x |-> InfRep(f), end |-> IF HasWord(s, i, Infinity) THEN i + 8 ELSE i + 3,
             erange |-> FALSE]
     ELSE FloatSigned(f, At(s, space) = "-",
                      FloatNumber(f, s, IF hexed THEN 16 ELSE 10, IF hexed THEN i + 2 ELSE i))
FloatAt(f, s, space) == FloatFrom(f, s, space, space + SignAt(s, space))
str_to_float(f, s) == FloatAt(f, s, AfterSpace(s))

(* scanf adds a digit times a power that it divides by the base. *)
ScanFraction(f, base, x, digits) ==
  FoldLeft(LAMBDA st, d : LET by == OverInt(f, st.by, base)
                          IN [x |-> hwSum(f, st.x, TimesInt(f, by, d)), by |-> by],
           [x |-> x, by |-> One(f)], digits).x

(* The room that is left after the sign. *)
RoomAfterSign(width, sign) == width - sign

(* The conversion of a float by vfscanf, white space skipped.  The x of 0x *)
(* is taken without a look at the width.                                   *)
ScanValue(f, base, whole, frac, exp, used) ==
  [x |-> Scaled(f, ScanFraction(f, base, WholeDigits(f, base, whole), frac), base, exp),
   end |-> exp.end, stored |-> used > 0]
ScanExponent(f, s, base, whole, frac, behind, width, taken) ==
  ScanValue(f, base, whole, frac, ExponentAt(s, behind, base, width),
            taken + Len(whole) + Len(frac))
ScanPoint(f, s, base, whole, point, width, taken) ==
  IF width # 0 /\ At(s, point) = "."
    THEN LET frac == DigitRun(s, point + 1, base, width - 1)
         IN ScanExponent(f, s, base, whole, frac, point + 1 + Len(frac),
                         width - 1 - Len(frac), taken)
    ELSE ScanExponent(f, s, base, whole, <<>>, point, width, taken)
ScanWhole(f, s, base, start, whole, width, taken) ==
  ScanPoint(f, s, base, whole, start + Len(whole), width - Len(whole), taken)
ScanDigits(f, s, base, start, width, taken) ==
  ScanWhole(f, s, base, start, DigitRun(s, start, base, width), width, taken)
ScanPrefix(f, s, i, room, zero, letter) ==
  ScanDigits(f, s, IF letter = 1 THEN 16 ELSE 10, i + zero + letter, room - zero - letter,
             zero - letter)
ScanZero(f, s, i, room, zero) ==
  ScanPrefix(f, s, i, room, zero, IF zero = 1 /\ At(s, i + 1) = "x" THEN 1 ELSE 0)
ScanNumber(f, s, i, room) ==
  ScanZero(f, s, i, room, IF room # 0 /\ At(s, i) = "0" THEN 1 ELSE 0)
ScanSigned(f, negative, r) == [r EXCEPT !.x = WithSign(f, negative, @)]
ScanFrom(f, s, given, sign) ==
  LET i == 1 + sign
  IN IF HasWord(s, i, Inf)
       THEN [x |-> InfRep(f), end |-> IF HasWord(s, i, Infinity) THEN i + 8 ELSE i + 3,
             stored |-> TRUE]
     ELSE IF HasWord(s, i, NaN) THEN [x |-> QNaN(f), end |-> i + 3, stored |-> TRUE]
     ELSE ScanSigned(f, sign = 1 /\ At(s, 1) = "-",
                     ScanNumber(f, s, i, RoomAfterSign(given, sign)))
scan_float(f, s, given) ==
  ScanFrom(f, s, given, IF given # 0 /\ At(s, 1) \in {"-", "+"} THEN 1 ELSE 0)

-----------------------------------------------------------------------------
number == sample.number

HexInit ==
  \E f \in HexFormats, has \in BOOLEAN, p \in 0..MaxPrecision : \E x \in 0..InfRep(f) - 1 :
    /\ ~has => p = 0
    /\ sample = [of |-> "hex", hex |-> [f |-> f, x |-> x, has |-> has, precision |-> p]]

NumberInit ==
  \E f \in HexFormats, n \in 0..MaxNumberText, w \in 1..(MaxNumberText + 1) :
    \E s \in [1..n -> NumberLetters] :
      sample = [of |-> "number", number |-> [f |-> f, text |-> s, width |-> w]]

(* The characters of what the conversion a writes. *)
DigitTexts(digits) == [k \in 1..Len(digits) |-> CharOf(digits[k])]
HexChars(t) ==
  <<"0", "x">> \o DigitTexts(t.whole) \o (IF t.frac = <<>> THEN <<>> ELSE <<".">>)
  \o DigitTexts(t.frac) \o <<"p", IF t.exp < 0 THEN "-" ELSE "+">>
  \o DigitTexts(SubSeq(<<AbsInt(t.exp) \div 10, AbsInt(t.exp) % 10>>,
                       3 - DigitCount(AbsInt(t.exp)), 2))

(* printf's %a gives the significand rounded to the nearest with the       *)
(* digits asked for, and without a precision exactly: strtod and scanf     *)
(* both read the same number back, denormals too, and take the whole text. *)
HexReadsBack ==
  sample.of = "hex" =>
    LET c == hex
        sig == Normalized(c.f, c.x).sig
    IN \A out \in {WriteHex(c.f, c.x, c.has, c.precision)} :
       IF c.has
         THEN c.x # 0 => Numeral(out.whole \o out.frac, 16)
                           = NearestInteger(sig * 2 ^ (4 * Len(out.frac)), Implicit(c.f))
         ELSE \A signed \in {HexChars(out), <<"-">> \o HexChars(out)} :
                LET negative == signed[1] = "-"
                    rep == WithSign(c.f, negative, c.x)
                IN /\ str_to_float(c.f, signed)
                        = [x |-> rep, end |-> Len(signed) + 1, erange |-> FALSE]
                   /\ scan_float(c.f, signed, Len(signed) + 1)
                        = [x |-> rep, end |-> Len(signed) + 1, stored |-> TRUE]

(* The numbers of C that begin the text, by their length. *)
IsDecimal(t) ==
  LET body == IF t # <<>> /\ t[1] \in {"-", "+"} THEN Tail(t) ELSE t
      mark == SelectInSeq(body, LAMBDA c : c = "e")
      mantissa == IF mark = 0 THEN body ELSE SubSeq(body, 1, mark - 1)
      after == IF mark = 0 THEN <<>> ELSE SubSeq(body, mark + 1, Len(body))
      power == IF after # <<>> /\ after[1] \in {"-", "+"} THEN Tail(after) ELSE after
      isDigit(c) == valid_char(c, 10)
      points == {k \in DOMAIN mantissa : ~isDigit(mantissa[k])}
  IN /\ Cardinality(points) <= 1 /\ \A k \in points : mantissa[k] = "."
     /\ Len(mantissa) > Cardinality(points)
     /\ mark # 0 => power # <<>> /\ \A k \in DOMAIN power : isDigit(power[k])

NumberPrefixes(s) == {k \in 0..Len(s) : IsDecimal(SubSeq(s, 1, k))}

(* strtod and scanf stop at the same place: behind the longest number that *)
(* the text begins with.  They go on only over an e with no exponent       *)
(* behind it, which both take for one, and take a sign or a point that no  *)
(* digit comes with.  Hexadecimal texts are compared with each other only. *)
NumberTaken ==
  sample.of = "number" =>
    LET s == number.text
        f == number.f
        start == AfterSpace(s)
        t == SubSeq(s, start, Len(s))
        longest == Max(NumberPrefixes(t))
    IN \A read \in {str_to_float(f, s)}, scanned \in {scan_float(f, t, Len(t) + 1)} :
       /\ read.end = scanned.end + start - 1
       /\ (\A k \in DOMAIN s : s[k] # "x") =>
            /\ scanned.stored <=> NumberPrefixes(t) # {}
            /\ NumberPrefixes(t) # {} /\ read.end # start + longest => At(t, longest + 1) = "e"

(* scanf's conversion of a float takes no more characters than the width,  *)
(* but for the x of a 0x whose 0 is the last that the width has room for.  *)
ScanWithinWidth ==
  sample.of = "number" =>
    LET s == number.text
        t == SubSeq(s, AfterSpace(s), Len(s))
        split == \E k \in {number.width} : At(t, k) = "0" /\ At(t, k + 1) = "x"
    IN ~split => scan_float(number.f, t, number.width).end - 1 <= number.width

(* An integer of decimal digits that a significand can hold, with an       *)
(* exponent that leaves it representable, is read as what it is.           *)
IntegersExact ==
  sample.of = "number" =>
    LET s == number.text
        f == number.f
        mark == SelectInSeq(s, LAMBDA c : c = "e")
        digits == IF mark = 0 THEN s ELSE SubSeq(s, 1, mark - 1)
        after == IF mark = 0 THEN <<>> ELSE SubSeq(s, mark + 1, Len(s))
        values(t) == [k \in DOMAIN t |-> Digit[t[k]]]
        plain(t) == \A k \in DOMAIN t : valid_char(t[k], 10)
    IN digits # <<>> /\ plain(digits) /\ plain(after) /\ Len(after) <= 1 =>
         LET n == Numeral(values(digits), 10)
             k == Numeral(values(after), 10)
         IN n < 2 * Implicit(f) /\ k <= 6 =>
              \A x \in 0..InfRep(f) - 1 :
                Magnitude(f, x) % Units(f) = 0 /\ Magnitude(f, x) \div Units(f) = n * 10 ^ k =>
                  str_to_float(f, s).x = x

(* Floating-point numbers as text: the nearest decimal is written, what is *)
(* written in hexadecimal is read back, and readers stop where the number  *)
(* does.                                                                   *)
FloatsAsText ==
  /\ DecimalNearest /\ BigStaysInside /\ HexReadsBack /\ NumberTaken
  /\ ScanWithinWidth /\ IntegersExact
=============================================================================
