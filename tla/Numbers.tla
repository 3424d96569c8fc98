------------------------------ MODULE Numbers ------------------------------
(***************************************************************************)
(* Numbers read and written: str_to_int of src/ansi/str_to_int.hpp (strtol *)
(* and its relatives), atoi of src/ansi/stdlib.cpp and the integer         *)
(* conversions of vfprintf in src/ansi/stdio.cpp.  Integers have Width     *)
(* bits and wrap around.                                                   *)
(***************************************************************************)
EXTENDS Integers, FiniteSetsExt, SequencesExt, Samples

CONSTANTS
  Width,      \* bits of an integer
  Bases,      \* bases asked for
  Letters,    \* the characters of strings
  MaxText,    \* bound: characters of a string
  MaxField    \* bound: width and precision of a conversion

text == sample.text     \* a string to be read
field == sample.field   \* an integer to be written, and how

Modulus == 2^Width
SignedMax == Modulus \div 2 - 1
SignedMin == -(Modulus \div 2)
ToSigned(n) == ((n + Modulus \div 2) % Modulus) - Modulus \div 2

NoField == [value |-> 0, base |-> 10, width |-> 0, precision |-> 1, sign |-> FALSE,
            space |-> FALSE, zero |-> FALSE, left |-> FALSE, alt |-> FALSE]

TextInit == \E n \in 0..MaxText : \E s \in [1..n -> Letters] :
              sample = [of |-> "text", text |-> s]

FieldInit ==
  \E v \in SignedMin..(Modulus - 1), b \in {2, 8, 10, 16}, w, p \in 0..MaxField,
     sign, space, zero, left, alt \in BOOLEAN :
       /\ v < 0 \/ v > SignedMax => (v < 0 <=> b = 10)
       /\ sample = [of |-> "field",
                    field |-> [value |-> v, base |-> b, width |-> w, precision |-> p,
                               sign |-> sign, space |-> space, zero |-> zero,
                               left |-> left, alt |-> alt]]

Digit == [c \in {"0", "1", "2", "3", "4", "5", "6", "7", "8", "9", "a", "b", "c",
                 "d", "e", "f", "x"} |->
           CASE c = "0" -> 0  [] c = "1" -> 1  [] c = "2" -> 2  [] c = "3" -> 3
             [] c = "4" -> 4  [] c = "5" -> 5  [] c = "6" -> 6  [] c = "7" -> 7
             [] c = "8" -> 8  [] c = "9" -> 9  [] c = "a" -> 10 [] c = "b" -> 11
             [] c = "c" -> 12 [] c = "d" -> 13 [] c = "e" -> 14 [] c = "f" -> 15
             [] c = "x" -> 33]
CharOf(d) == CHOOSE c \in DOMAIN Digit : Digit[c] = d

(* The character at an index; the string ends in NUL. *)
At(s, i) == IF i <= Len(s) THEN s[i] ELSE "NUL"

valid_char(c, base) == c \in DOMAIN Digit /\ Digit[c] < base

-----------------------------------------------------------------------------
(* str_to_int *)

AfterSpace(s) == LET i == SelectInSeq(s, LAMBDA c : c # " ")
                 IN  IF i = 0 THEN Len(s) + 1 ELSE i

(* The base and the index of the first digit: after the prefix that the    *)
(* base allows or, for base 0, that decides it.                            *)
Prefix(s, i, base) ==
  LET zero == At(s, i) = "0"
      hex == zero /\ At(s, i + 1) = "x"
      bin == zero /\ At(s, i + 1) = "b"
  IN  CASE base = 0 /\ hex /\ valid_char(At(s, i + 2), 16) -> <<16, i + 2>>
        [] base = 0 /\ bin /\ valid_char(At(s, i + 2), 2) -> <<2, i + 2>>
        [] base = 0 /\ zero /\ ~(hex /\ valid_char(At(s, i + 2), 16))
                            /\ ~(bin /\ valid_char(At(s, i + 2), 2)) -> <<8, i + 1>>
        [] base = 0 /\ ~zero -> <<10, i>>
        [] base = 2 /\ bin /\ At(s, i + 2) # "NUL" -> <<2, i + 2>>
        [] base = 16 /\ hex /\ At(s, i + 2) # "NUL" -> <<16, i + 2>>
        [] base = 8 /\ zero -> <<8, i + 1>>
        [] OTHER -> <<base, i>>

(* Mutant: only the sum is compared with the largest value. *)
StepOnlySum(v, base, d, max) ==
  LET scaled == (v.value * base) % Modulus
      sum == (scaled + d) % Modulus
  IN  [value |-> sum, overflow |-> v.overflow \/ sum < scaled \/ sum > max]

(* One digit: the product and the sum wrap around. *)
AddDigit(v, base, d, max) ==
  LET scaled == (v.value * base) % Modulus
      sum == (scaled + d) % Modulus
  IN  [value |-> sum,
       overflow |-> \/ v.overflow
                    \/ scaled \div base # v.value \/ scaled > max
                    \/ sum < scaled \/ sum > max]

(* Where the caller goes on: after what was used, or at the start. *)
EndPointer(start, after_space, i) == IF i # after_space THEN i ELSE start

(* The digits from an index on. *)
RECURSIVE ReadDigits(_, _, _, _, _)
ReadDigits(s, i, base, max, v) ==
  IF valid_char(At(s, i), base)
    THEN ReadDigits(s, i + 1, base, max, AddDigit(v, base, Digit[s[i]], max))
    ELSE [v |-> v, end |-> i]

SignAt(s, i) == IF At(s, i) \in {"-", "+"} THEN 1 ELSE 0
Largest(signed, sign) ==
  IF ~signed THEN Modulus - 1 ELSE IF sign THEN -SignedMin ELSE SignedMax

(* What is returned for the digits read. *)
IntegerRead(after_space, signed, sign, res) ==
  LET limit == IF signed THEN (IF sign THEN SignedMin ELSE SignedMax)
                         ELSE (IF sign THEN 0 ELSE Modulus - 1)
      value == IF sign THEN -res.v.value ELSE res.v.value
  IN  [end |-> EndPointer(1, after_space, res.end),
       erange |-> res.v.overflow,
       value |-> IF res.v.overflow THEN limit
                 ELSE IF signed THEN ToSigned(value) ELSE value % Modulus]
AfterPrefix(s, signed, after_space, sign, prefix) ==
  IntegerRead(after_space, signed, sign,
              ReadDigits(s, prefix[2], prefix[1], Largest(signed, sign),
                         [value |-> 0, overflow |-> FALSE]))
FromSign(s, base, signed, after_space) ==
  AfterPrefix(s, signed, after_space, At(s, after_space) = "-",
              Prefix(s, after_space + SignAt(s, after_space), base))
str_to_int(s, base, signed) == FromSign(s, base, signed, AfterSpace(s))

(* atoi, atol, atoll: no base, no end, overflow is undefined. *)
atoi(s) ==
  LET first == AfterSpace(s)
      sign == At(s, first) = "-"
      RECURSIVE digits(_, _)
      digits(i, v) == IF valid_char(At(s, i), 10) THEN digits(i + 1, 10 * v + Digit[s[i]])
                      ELSE v
      value == digits(IF At(s, first) \in {"-", "+"} THEN first + 1 ELSE first, 0)
  IN  IF sign THEN -value ELSE value

-----------------------------------------------------------------------------
(* vfprintf: %d (base 10, signed), %b, %o, %x; letters are lower case *)

Repeat(c, n) == [i \in 1..n |-> c]

(* The digits, most significant first; none for a zero of precision 0. *)
DigitsOf(value, base, precision) ==
  LET RECURSIVE digits(_)
      digits(v) == (IF v >= base THEN digits(v \div base) ELSE <<>>)
                   \o <<CharOf(v % base)>>
  IN  IF value = 0 /\ precision = 0 THEN <<>> ELSE digits(value)

Greater(x, y) == IF x > y THEN x ELSE y

(* A space in place of a plus is not counted either. *)
ActualWidth(f, len) ==
  Greater(len, f.precision) + (IF f.value < 0 \/ f.sign THEN 1 ELSE 0)
  + (IF f.alt /\ len > 0 THEN (CASE f.base \in {2, 16} -> 2 [] f.base = 8 -> 1 [] OTHER -> 0)
                         ELSE 0)

(* Padding comes before the sign also when it is made of zeros. *)
write_int(f) ==
  LET abs == IF f.value < 0 THEN -f.value ELSE f.value
      digits == DigitsOf(abs, f.base, f.precision)
      room == f.width - ActualWidth(f, Len(digits))
      pad == Repeat(IF f.zero THEN "0" ELSE " ", IF room > 0 THEN room ELSE 0)
      sign == CASE f.value < 0 -> <<"-">> [] f.value >= 0 /\ f.sign -> <<"+">>
                [] f.value >= 0 /\ ~f.sign /\ f.space -> <<" ">> [] OTHER -> <<>>
      prefix == IF f.alt /\ Len(digits) > 0
                  THEN (CASE f.base = 2 -> <<"0", "b">> [] f.base = 8 -> <<"0">>
                          [] f.base = 16 -> <<"0", "x">>
                          [] OTHER -> <<>>)
                  ELSE <<>>
      number == sign \o prefix \o Repeat("0", Greater(f.precision - Len(digits), 0)) \o digits
  IN  IF f.left THEN number \o pad ELSE pad \o number

-----------------------------------------------------------------------------
(* Properties *)

(* What a number in a string is: spaces, a sign, a prefix that is followed *)
(* by a digit of the base, digits as long as there are any.                *)
DigitsMeant(s, base, k, minus) ==
  LET run == {n \in k..Len(s) : \A m \in k..n : valid_char(s[m], base)}
      last == IF run = {} THEN k - 1 ELSE Max(run)
      value == FoldLeft(LAMBDA v, c : base * v + Digit[c], 0, SubSeq(s, k, last))
  IN  [value |-> IF minus THEN -value ELSE value,
       end |-> IF run = {} THEN 1 ELSE last + 1]
NumberMeant(s, base0, i, j) ==
  LET marks(b, c) == base0 \in {0, b} /\ At(s, j) = "0" /\ At(s, j + 1) = c
                     /\ valid_char(At(s, j + 2), b)
      base == CASE marks(16, "x") -> 16 [] marks(2, "b") -> 2
                [] base0 = 0 /\ ~marks(16, "x") /\ ~marks(2, "b")
                     -> (IF At(s, j) = "0" THEN 8 ELSE 10)
                [] OTHER -> base0
  IN  DigitsMeant(s, base, IF marks(16, "x") \/ marks(2, "b") THEN j + 2 ELSE j,
                  At(s, i) = "-")
MeantFrom(s, base, i) == NumberMeant(s, base, i, i + SignAt(s, i))
Meant(s, base) == MeantFrom(s, base, AfterSpace(s))

(* strtol returns the number, or the nearest one it can and ERANGE: the    *)
(* test on the wrapped product and sum misses no overflow, and none is     *)
(* reported for the least number.                                          *)
SignedIs(m, r) ==
  /\ r.erange <=> m.value \notin SignedMin..SignedMax
  /\ r.value = IF m.value > SignedMax THEN SignedMax
               ELSE IF m.value < SignedMin THEN SignedMin ELSE m.value
SignedReads ==
  sample.of = "text" =>
    \A b \in Bases : SignedIs(Meant(text, b), str_to_int(text, b, TRUE))

(* strtoul returns the number modulo the width and refuses those whose     *)
(* digits exceed it: with the largest value, or with 0 after a minus.      *)
UnsignedIs(m, r) ==
  /\ r.erange <=> m.value \notin (1 - Modulus)..(Modulus - 1)
  /\ r.value = IF m.value >= Modulus THEN Modulus - 1
               ELSE IF m.value <= -Modulus THEN 0 ELSE m.value % Modulus
UnsignedReads ==
  sample.of = "text" =>
    \A b \in Bases : UnsignedIs(Meant(text, b), str_to_int(text, b, FALSE))

(* The end pointer is after the number, and at the start when there is     *)
(* none -- but for a lone sign, and for a prefix of the base asked for     *)
(* without digits after it, which are taken as if they were a number.      *)
EndIs(b, i, m, r) ==
  LET j == i + SignAt(text, i)
      lone_sign == m.end = 1 /\ j > i
      lone_prefix == b \in {2, 16} /\ m.end = j + 1 /\ At(text, j) = "0"
                     /\ At(text, j + 1) = IF b = 16 THEN "x" ELSE "b"
  IN  IF lone_sign THEN r.end = j
      ELSE IF lone_prefix THEN r.end \in {j + 1, j + 2}
      ELSE r.end = m.end
EndsAfterNumber ==
  sample.of = "text" =>
    \A b \in Bases : EndIs(b, AfterSpace(text), Meant(text, b), str_to_int(text, b, TRUE))

(* atoi reads what strtol reads, where the number fits. *)
AtoiAgrees ==
  sample.of = "text" =>
    LET m == Meant(text, 10)
    IN  m.value \in SignedMin..SignedMax
          => atoi(text) = str_to_int(text, 10, TRUE).value

(* What a conversion writes, strtol reads back, whatever the flags, width  *)
(* and precision -- but for a sign or prefix after padding with zeros,     *)
(* zeros after the digits, and the number 0 with precision 0, of which     *)
(* nothing is left.                                                        *)
WrittenReadsBack ==
  sample.of = "field" =>
    LET out == write_int(field)
        r == str_to_int(out, field.base, field.value < 0)
    IN  \/ /\ field.zero /\ field.width > 0
           /\ field.left \/ field.sign \/ field.space \/ field.alt \/ field.value < 0
        \/ field.value = 0 /\ field.precision = 0
        \/ r.value = field.value /\ ~r.erange

(* The field is as wide as asked for, and wider only if the number needs   *)
(* it -- or by one when a space stands in for a plus.                      *)
FieldWidth ==
  sample.of = "field" =>
    LET out == write_int(field)
        bare == write_int([field EXCEPT !.width = 0])
    IN  /\ Len(out) >= field.width
        /\ Len(out) = Greater(field.width, Len(bare))
           \/ /\ field.space /\ ~field.sign /\ field.value >= 0
              /\ Len(out) <= Greater(field.width, Len(bare)) + 1

(* Texts of integers are read as the integers they are, and what a         *)
(* conversion writes is read back.                                         *)
NumbersConvert ==
  /\ SignedReads /\ UnsignedReads /\ EndsAfterNumber /\ AtoiAgrees
  /\ WrittenReadsBack /\ FieldWidth
=============================================================================
