------------------------------ MODULE Calendar ------------------------------
(***************************************************************************)
(* Calendar time of src/ansi/time.cpp: gmtime_r, localtime_r, timegm,      *)
(* mktime and the time zone's transitions.  The calendar is the real one;  *)
(* a day is divided into few hours, minutes and seconds.  Division is that *)
(* of C, which truncates.  The field year is tm_year + 1900.               *)
(***************************************************************************)
EXTENDS Integers, FiniteSetsExt, SequencesExt, Samples

CONSTANTS
  SecMin, MinHour, HourDay,  \* seconds, minutes, hours (60, 60, 24)
  EndOfTime,                 \* the first second refused (32500915200)
  IntMax,                    \* the largest int
  Moments, Fields,           \* times and broken-down times looked at
  Zone,                      \* tzh_timecnt transitions: <<time, type>>
  Offsets                    \* tt_utoff of each type

moment == sample.moment   \* a time_t
broken == sample.broken   \* a struct tm of the caller

Day == SecMin * MinHour * HourDay
Epoch == [sec |-> 0, min |-> 0, hour |-> 0, mday |-> 1, mon |-> 0, year |-> 1970]

MomentInit == \E m \in Moments : sample = [of |-> "moment", moment |-> m]
FieldsInit == \E f \in Fields : sample = [of |-> "broken", broken |-> f]

Quot(x, y) == IF x >= 0 THEN x \div y ELSE -((-x) \div y)
Rem(x, y) == x - y * Quot(x, y)

is_leap(year) == year % 400 = 0 \/ (year % 4 = 0 /\ year % 100 # 0)

days_per_month_table(year) ==
  <<31, IF is_leap(year) THEN 29 ELSE 28, 31, 30, 31, 30, 31, 31, 30, 31, 30, 31>>

days_since_sunday(days) ==
  IF days >= -4 THEN Rem(days + 4, 7) ELSE Rem(days + 5, 7) + 6

-----------------------------------------------------------------------------

(* What the loops over the years from 1970 to a year add up to. *)
DaysBefore(year) ==
  LET leap == {y \in 1970..(year - 1) : is_leap(y)}
  IN  366 * Cardinality(leap) + 365 * (year - 1970 - Cardinality(leap))

(* The year that a day is in and the day of that year; a day before 1970   *)
(* is left as it is.                                                       *)
YearOf(days) ==
  LET year == Max({1970} \cup {y \in 1970..(1970 + (days \div 365)) : DaysBefore(y) <= days})
  IN  [year |-> year, yday |-> days - DaysBefore(year)]

MonthOf(yday, table) ==
  LET RECURSIVE from(_, _)
      from(mon, left) == IF left >= table[mon + 1]
                           THEN from(mon + 1, left - table[mon + 1])
                           ELSE [mon |-> mon, mday |-> left + 1]
  IN  from(0, yday)

(* The fields of a local time. *)
BrokenOn(local, days, y, m) ==
  [sec |-> Rem(local, SecMin), min |-> Rem(Quot(local, SecMin), MinHour),
   hour |-> Rem(Quot(Quot(local, SecMin), MinHour), HourDay),
   mday |-> m.mday, mon |-> m.mon, year |-> y.year,
   yday |-> y.yday, wday |-> days_since_sunday(days)]
BrokenIn(local, days, y) ==
  BrokenOn(local, days, y, MonthOf(y.yday, days_per_month_table(y.year)))
Broken(local) == BrokenIn(local, Quot(local, Day), YearOf(Quot(local, Day)))

Overflow == [year |-> -1]

gmtime_r(t) == IF t < -EndOfTime \/ t >= EndOfTime THEN Overflow ELSE Broken(t)

(* The transitions after a time, the first one never among them. *)
TransitionsAfter(t) == {i \in 2..Len(Zone) : Zone[i][1] > t}

(* The type in force at a time: the one before the first transition that   *)
(* is later; type 0 when no transition is later.                           *)
get_tz_data(t) ==
  LET later == TransitionsAfter(t)
  IN  Offsets[IF later = {} THEN 1 ELSE Zone[Min(later) - 1][2]]

localtime_r(t) ==
  IF t < 0 \/ t >= EndOfTime THEN Overflow
  ELSE Broken(t + (IF Zone = <<>> THEN 0 ELSE get_tz_data(t)))

-----------------------------------------------------------------------------
(* mktime and timegm *)

Carry(low, high, length) == IF low >= length THEN high + low \div length ELSE high
Kept(low, length) == IF low >= length THEN low % length ELSE low

(* Days beyond the end of a month go into the next. *)
DaysCarried(day, mon, year) ==
  LET RECURSIVE over(_, _, _)
      over(d, m, y) ==
        LET length == days_per_month_table(y)[m + 1]
        IN  IF d < length THEN [day |-> d, mon |-> m, year |-> y]
            ELSE IF m = 11 THEN over(d - length, 0, y + 1)
            ELSE over(d - length, m + 1, y)
  IN  over(day, mon, year)

DaysSinceEpoch(n) ==
  (n.mday - 1) + MapThenSumSet(LAMBDA m : days_per_month_table(n.year)[m + 1], 0..(n.mon - 1))
  + DaysBefore(n.year)

(* The normalised fields, or Overflow when a field passes IntMax by what   *)
(* is carried into it.                                                     *)
WithDays(n, days) ==
  n @@ [yday |-> days - DaysBefore(n.year), wday |-> days_since_sunday(days)]
WithDate(tm, min, hour, date) ==
  [sec |-> Kept(tm.sec, SecMin), min |-> Kept(min, MinHour), hour |-> Kept(hour, HourDay),
   mday |-> date.day + 1, mon |-> date.mon, year |-> date.year]
FieldsOfDay(n) == WithDays(n, DaysSinceEpoch(n))
Normalised(tm) ==
  LET min == Carry(tm.sec, tm.min, SecMin)
      hour == Carry(min, tm.hour, MinHour)
      day == Carry(hour, tm.mday - 1, HourDay)
      year == Carry(tm.mon, tm.year, 12)
  IN  IF Max({min, hour, day, year}) > IntMax THEN Overflow
      ELSE FieldsOfDay(WithDate(tm, min, hour, DaysCarried(day, Kept(tm.mon, 12), year)))

(* The time that normalised fields are. *)
Seconds(n) ==
  IF n = Overflow THEN -1
  ELSE DaysSinceEpoch(n) * Day + n.hour * MinHour * SecMin + n.min * SecMin + n.sec
timegm(tm) == Seconds(Normalised(tm))

(* The offset is looked up with the local time. *)
LessOffset(local) == IF Zone = <<>> THEN local ELSE local - get_tz_data(local)
SecondsInZone(n) == IF n = Overflow THEN -1 ELSE LessOffset(Seconds(n))
mktime(tm) == SecondsInZone(Normalised(tm))

-----------------------------------------------------------------------------
(* Properties *)

(* The number of a day, by the rule for leap years. *)
DayNumber(year, mon, mday) ==
  LET leaps(y) == (y \div 4) - (y \div 100) + (y \div 400)
      before == <<0, 31, 59, 90, 120, 151, 181, 212, 243, 273, 304, 334>>
      leap == year % 400 = 0 \/ (year % 4 = 0 /\ year % 100 # 0)
  IN  365 * (year - 1970) + leaps(year - 1) - leaps(1969)
      + before[mon + 1] + (IF leap /\ mon > 1 THEN 1 ELSE 0) + mday - 1

(* For a time from 1970 on, gmtime gives a date that exists, it is the day *)
(* the time is in, and the day of the week and of the year are its own.    *)
DateOf(tm, n) ==
  /\ tm.mon \in 0..11
  /\ tm.mday \in 1..(DayNumber(tm.year + ((tm.mon + 1) \div 12), (tm.mon + 1) % 12, 1)
                     - DayNumber(tm.year, tm.mon, 1))
  /\ DayNumber(tm.year, tm.mon, tm.mday) = n
  /\ tm.wday = (n + 4) % 7
  /\ tm.yday = n - DayNumber(tm.year, 0, 1)
  /\ (tm.hour * MinHour + tm.min) * SecMin + tm.sec = moment % Day
GmtimeRight ==
  sample.of = "moment" /\ moment \in 0..(EndOfTime - 1) =>
    DateOf(gmtime_r(moment), moment \div Day)

(* timegm undoes gmtime, also for a time before 1970, whose fields are     *)
(* negative numbers.                                                       *)
TimegmUndoes ==
  sample.of = "moment" =>
    \A tm \in {gmtime_r(moment)} : tm # Overflow => timegm(tm) = moment

(* mktime undoes localtime, except near a transition of the time zone: it  *)
(* looks the offset up with the local time, which is on the other side of  *)
(* a transition that is nearer than the offset.                            *)
MktimeUndoes ==
  sample.of = "moment" =>
    LET reach == Max({IF o < 0 THEN -o ELSE o : o \in ToSet(Offsets) \cup {0}})
        near(i) == moment \in (Zone[i][1] - reach)..(Zone[i][1] + reach)
    IN  (~\E i \in 2..Len(Zone) : near(i)) =>
          \A tm \in {localtime_r(moment)} : tm # Overflow => mktime(tm) = moment

(* Between the first and the last transition the offset is that of the     *)
(* last one that is not later.  (Before the first it is that of the first, *)
(* and after the last that of type 0.)                                     *)
OffsetInForce ==
  sample.of = "moment" =>
    LET past == {i \in 1..Len(Zone) : Zone[i][1] <= moment}
    IN  past # {} /\ past # 1..Len(Zone) =>
          get_tz_data(moment) = Offsets[Zone[Max(past)][2]]

(* However far its fields are beyond their ranges, a broken-down time is   *)
(* the time its fields add up to, and it is normalised to fields within    *)
(* their ranges, the days of the week and of the year their own -- or      *)
(* refused when a field would exceed an int.                               *)
AddsUp(n, seconds) ==
    LET first == DayNumber(broken.year + broken.mon \div 12, broken.mon % 12, 1)
        secs == (broken.hour * MinHour + broken.min) * SecMin + broken.sec
    IN  IF n = Overflow
          THEN /\ seconds = -1
               /\ secs \div SecMin > IntMax \/ secs \div (SecMin * MinHour) > IntMax
                  \/ broken.mday - 1 + secs \div Day > IntMax
                  \/ broken.year + broken.mon \div 12 > IntMax
                  \/ broken.min + broken.sec \div SecMin > IntMax
          ELSE /\ seconds = (first + broken.mday - 1) * Day + secs
               /\ n.sec \in 0..(SecMin - 1) /\ n.min \in 0..(MinHour - 1)
               /\ n.hour \in 0..(HourDay - 1) /\ n.mon \in 0..11
               /\ n.mday \in 1..days_per_month_table(n.year)[n.mon + 1]
               /\ n.wday = (DayNumber(n.year, n.mon, n.mday) + 4) % 7
               /\ n.yday = DayNumber(n.year, n.mon, n.mday) - DayNumber(n.year, 0, 1)
FieldsAddUp ==
  sample.of = "broken" => AddsUp(Normalised(broken), timegm(broken))

-----------------------------------------------------------------------------
(***************************************************************************)
(* strftime of src/ansi/time.cpp and wcsftime of src/ansi/wchar.cpp, which *)
(* are the same but for the type of a character.  What is written is a     *)
(* sequence of pieces: what each stands for, its number and its length.    *)
(***************************************************************************)

CONSTANTS
  TimeFormats,   \* formats, as sequences of characters
  Times,         \* broken-down times: sec, min, hour, mday, mon, year, wday, yday,
                 \* and what mktime makes of it: -1, or else 0
  TextSizes,     \* sizes of the buffer
  ZoneLength     \* characters of the time zone's name, 0 without a time zone

timefmt == sample.fmt
time == sample.time
size == sample.size

TimeTextInit == \E f \in TimeFormats, t \in Times, n \in TextSizes :
                  sample = [of |-> "strftime", fmt |-> f, time |-> t, size |-> n]

-----------------------------------------------------------------------------
FormatAt(fmt, i) == IF i <= Len(fmt) THEN fmt[i] ELSE "NUL"

Piece(what, n, len) == [what |-> what, n |-> n, len |-> len]
Chars(c, len) == Piece(c, 0, len)

(* The digits of a number, at least pad of them. *)
WrittenInt(what, n, pad) ==
  LET digits == CHOOSE d \in 1..10 : 10^d > n /\ (d = 1 \/ 10^(d - 1) <= n)
  IN  Piece(what, n, Max({digits, pad}))

MonthLengths == <<7, 8, 5, 5, 3, 4, 4, 6, 9, 7, 8, 8>>
DayLengths == <<6, 6, 7, 9, 8, 6, 8>>

Hour12(t) == IF t.hour % 12 = 0 THEN 12 ELSE t.hour % 12

(* The conversions of one field; of those with nothing behind them yet     *)
(* (G, g) nothing is written.                                              *)
Field(c, t) ==
  CASE c \in {"n", "t"} -> <<Chars(c, 1)>>
    [] c = "Y" -> <<WrittenInt("year", t.year, 0)>>
    [] c = "y" -> <<Piece("year", t.year % 100, 2)>>
    [] c = "C" -> <<Piece("century", (t.year \div 100) % 100, 2)>>
    [] c \in {"G", "g"} -> <<>>
    [] c \in {"b", "h"} -> <<Piece("mon", t.mon, 3)>>
    [] c = "B" -> <<Piece("mon", t.mon, MonthLengths[t.mon + 1])>>
    [] c = "m" -> <<WrittenInt("mon", t.mon + 1, 2)>>
    [] c = "j" -> <<WrittenInt("yday", t.yday + 1, 3)>>
    [] c = "d" -> <<WrittenInt("mday", t.mday, 2)>>
    [] c = "e" -> <<Piece("mday", t.mday, IF t.mday < 10 THEN 1 ELSE 2)>>
    [] c = "a" -> <<Piece("wday", t.wday, 3)>>
    [] c = "A" -> <<Piece("wday", t.wday, DayLengths[t.wday + 1])>>
    [] c = "w" -> <<WrittenInt("wday", t.wday, 0)>>
    [] c = "u" -> <<WrittenInt("wday", t.wday + 1, 0)>>
    [] c = "H" -> <<WrittenInt("hour", t.hour, 2)>>
    [] c = "I" -> <<WrittenInt("hour", Hour12(t), 0)>>
    [] c = "M" -> <<WrittenInt("min", t.min, 2)>>
    [] c = "S" -> <<WrittenInt("sec", t.sec, 2)>>
    [] c = "p" -> <<Piece("half", IF t.hour < 12 THEN 0 ELSE 1, 2)>>
    [] c = "z" -> IF ZoneLength = 0 \/ t.made = -1 THEN <<>>
                  ELSE <<Piece("zone", 0, 1), Piece("zone", 0, 2), Piece("zone", 0, 2)>>
    [] c = "Z" -> IF ZoneLength = 0 \/ t.made = -1 THEN <<>> ELSE <<Piece("zone", 0, ZoneLength)>>

Simple == {"n", "t", "Y", "y", "C", "G", "g", "b", "h", "B", "m", "j", "d", "e", "a", "A",
           "w", "u", "H", "I", "M", "S", "p", "z", "Z"}

(* The conversions of several fields. *)
Fields_(c, t) ==
  LET sep(x) == Chars(x, 1)
      clock == <<WrittenInt("hour", t.hour, 2), sep(":"), WrittenInt("min", t.min, 2)>>
      secs == <<sep(":"), WrittenInt("sec", t.sec, 2)>>
      year == WrittenInt("year", t.year, 0)
      mon == WrittenInt("mon", t.mon + 1, 0)
      mday == WrittenInt("mday", t.mday, 2)
  IN  CASE c = "c" -> Field("a", t) \o <<sep(" ")>> \o Field("b", t)
                      \o <<sep(" "), WrittenInt("mday", t.mday, 0), sep(" ")>>
                      \o clock \o secs \o <<sep(" "), year>>
        [] c = "x" -> <<mday, sep("."), mon, sep("."), year>>
        [] c = "D" -> <<mon, sep("/"), mday, sep("/"), year>>
        [] c = "F" -> <<year, sep("-"), mon, sep("-"), mday>>
        [] c = "r" -> Field("I", t) \o <<sep(":"), WrittenInt("min", t.min, 2)>>
        [] c = "R" -> clock
        [] c = "T" -> clock \o secs

Several == {"c", "x", "D", "F", "r", "R", "T"}

(* %E and %O: the letter after it. *)
Modified(m, c, t) ==
  IF m = "E"
    THEN CASE c = "Y" -> Field("Y", t)
           [] c = "y" -> <<WrittenInt("year", t.year % 1000, 2)>>
           [] OTHER -> <<>>
    ELSE <<>>
ModifiedLetters(m) ==
  IF m = "E" THEN {"Y", "y", "C", "c", "X"}
  ELSE {"y", "b", "B", "m", "d", "e", "w", "u", "H", "I", "M", "S"}

(* Where the format goes on after a conversion's letter: the cases of %p,  *)
(* %z and %Z leave it there, to be written once more as it is.             *)
AfterLetter(c, i) == IF c \in {"p", "z", "Z"} THEN i ELSE i + 1

(* One conversion, its letter at i: what it writes and where it leads.     *)
(* Any other letter is written with its percent sign.                      *)
Conversion(fmt, i, t) ==
  LET c == FormatAt(fmt, i)
      d == FormatAt(fmt, i + 1)
  IN  CASE c \in Simple -> [kind |-> "goes on", pieces |-> Field(c, t), next |-> AfterLetter(c, i)]
        [] c \in Several -> [kind |-> "goes on", pieces |-> Fields_(c, t), next |-> i + 1]
        [] c \in {"E", "O"} ->
             [kind |-> IF d \in ModifiedLetters(c) THEN "goes on" ELSE "refused",
              pieces |-> Modified(c, d, t), next |-> i + 2]
        [] OTHER -> [kind |-> "goes on", pieces |-> <<Chars("%", 1), Chars(c, 1)>>, next |-> i + 1]

(* The characters before the next conversion and the doubled percent signs *)
(* there: they are written from the beginning of the stretch.  What        *)
(* follows a doubled percent sign is taken for the percent sign of a       *)
(* conversion, whatever it is.                                             *)
PlainText(fmt, i) ==
  LET j == Min({k \in i..(Len(fmt) + 1) : FormatAt(fmt, k) \in {"%", "NUL"}})
      two(k) == FormatAt(fmt, k) = "%" /\ FormatAt(fmt, k + 1) = "%"
      n == Max({m \in 0..Len(fmt) : \A k \in 0..(m - 1) : two(j + 2 * k)})
  IN  [from |-> i, len |-> (j - i) + n, next |-> j + 2 * n]

(* write refuses a piece that goes beyond the buffer. *)
Fits(written, len, count) == written + len <= count

LengthOf(pieces) == FoldLeft(LAMBDA n, p : n + p.len, 0, pieces)

(* Piece by piece until one does not fit. *)
Written(out, pieces, count) ==
  FoldLeft(LAMBDA acc, p :
             IF acc.ok /\ (p.len = 0 \/ Fits(LengthOf(acc.out), p.len, count))
               THEN [ok |-> TRUE, out |-> Append(acc.out, p)]
               ELSE [ok |-> FALSE, out |-> acc.out],
           [ok |-> TRUE, out |-> out], pieces)

(* The result: what is returned, what was written, the place of the        *)
(* terminator from 0 (-1: none), why it ended, and where in the format.    *)
TimeText(ret, out, nul, why, at) ==
  [ret |-> ret, out |-> out, nul |-> nul, why |-> why, at |-> at]
TimeTextEnds(out, len, count, at) ==
  IF count = 0 \/ len < count
    THEN TimeText(len, out, IF count = 0 THEN -1 ELSE len, "end", at)
    ELSE TimeText(0, out, -1, "full", at)

(* The plain text of a stretch is one write: all of it fits or nothing. *)
PlainWritten(fmt, lit, out, count) ==
  Written(out, IF lit.len > 0 /\ ~Fits(LengthOf(out), lit.len, count)
                 THEN <<Chars("too much", count + 1)>>
                 ELSE [k \in 1..lit.len |-> Chars(FormatAt(fmt, lit.from + k - 1), 1)], count)

(* A stretch of plain text and a conversion at a time. *)
RECURSIVE TimeTextFrom(_, _, _, _, _)
AfterConversion(fmt, t, count, at, conv, w) ==
  IF ~w.ok THEN TimeText(0, w.out, -1, "full", at)
  ELSE IF conv.kind = "refused" THEN TimeText(0, w.out, -1, "refused", at)
  ELSE TimeTextFrom(fmt, t, count, conv.next, w.out)
WriteConversion(fmt, t, count, at, out, conv) ==
  AfterConversion(fmt, t, count, at, conv, Written(out, conv.pieces, count))
AfterPlain(fmt, t, count, at, w) ==
  IF ~w.ok THEN TimeText(0, w.out, -1, "full", at)
  ELSE IF FormatAt(fmt, at) = "NUL" THEN TimeTextEnds(w.out, LengthOf(w.out), count, at)
  ELSE WriteConversion(fmt, t, count, at, w.out, Conversion(fmt, at + 1, t))
WritePlain(fmt, t, count, out, lit) ==
  AfterPlain(fmt, t, count, lit.next, PlainWritten(fmt, lit, out, count))
TimeTextFrom(fmt, t, count, i, out) ==
  IF i > Len(fmt) + 1 THEN TimeText(0, out, -1, "past", i)
  ELSE WritePlain(fmt, t, count, out, PlainText(fmt, i))

strftime(fmt, t, count) == TimeTextFrom(fmt, t, count, 1, <<>>)

-----------------------------------------------------------------------------
(* Properties *)

Big == 1000

(* No more than the buffer holds is written, the terminator included, and  *)
(* what is returned is the length of what is there and terminated.         *)
TextInBuffer ==
  sample.of = "strftime" =>
    \A r \in {strftime(timefmt, time, size)} :
      /\ LengthOf(r.out) <= size
      /\ r.nul < size
      /\ r.ret > 0 => r.nul = r.ret /\ LengthOf(r.out) = r.ret

(* 0 is returned only for a text that is empty or does not fit with its    *)
(* terminator, and for %E and %O before a letter they do not take; a       *)
(* buffer that is large enough holds what a larger one would.              *)
ZeroWhenFull ==
  sample.of = "strftime" =>
    \A r \in {strftime(timefmt, time, size)}, all \in {strftime(timefmt, time, Big)} :
          CASE all.why = "end" /\ all.ret < size -> r = all
          [] all.why = "end" /\ all.ret >= size -> r.ret = 0
          [] OTHER -> r.ret = 0

(* The format of conversions and literal text, read one token at a time. *)
Tokenised(fmt) ==
  LET RECURSIVE from(_)
      from(i) ==
        LET c == FormatAt(fmt, i)
            d == FormatAt(fmt, i + 1)
        IN  IF c = "NUL" THEN <<>>
            ELSE IF c # "%" THEN <<Chars(c, 1)>> \o from(i + 1)
            ELSE IF d = "%" THEN <<Chars("%", 1)>> \o from(i + 2)
            ELSE IF d \in {"p", "z", "Z"} THEN Field(d, time) \o <<Chars(d, 1)>> \o from(i + 2)
            ELSE IF d \in Simple THEN Field(d, time) \o from(i + 2)
            ELSE IF d \in Several THEN Fields_(d, time) \o from(i + 2)
            ELSE IF d \in {"E", "O"} THEN Modified(d, FormatAt(fmt, i + 2), time) \o from(i + 3)
            ELSE <<Chars("%", 1), Chars(d, 1)>> \o from(i + 2)
  IN  from(1)

(* A doubled percent sign before an ordinary character, found from the     *)
(* left as the format is read.                                             *)
TextAfterDoubled(fmt) ==
  LET RECURSIVE from(_)
      from(i) ==
        LET lit == PlainText(fmt, i)
            c == FormatAt(fmt, lit.next)
        IN  IF i > Len(fmt) \/ c = "NUL" THEN FALSE
            ELSE c # "%" \/ from(Conversion(fmt, lit.next + 1, time).next)
  IN  from(1)

(* What is written is the text the format describes, token by token, with  *)
(* the letters of %p, %z and %Z once more -- unless text follows a doubled *)
(* percent sign, whose first character is lost.  This is about the order   *)
(* of the conversions: what each of them writes is taken from Field.       *)
TextInOrder ==
  sample.of = "strftime" =>
    \A r \in {strftime(timefmt, time, Big)} :
          r.why = "end" /\ ~TextAfterDoubled(timefmt) => r.out = Tokenised(timefmt)

(* The format is read past its end only where a percent sign stands alone  *)
(* at the end, or one character follows a doubled one there.               *)
FormatInside ==
  sample.of = "strftime" =>
    (strftime(timefmt, time, Big).why = "past"
       => FormatAt(timefmt, Len(timefmt)) = "%" \/ TextAfterDoubled(timefmt))

(* Times and dates are converted both ways without loss, the offset in     *)
(* force included, and written to a buffer they fit.                       *)
TimesConvert ==
  /\ GmtimeRight /\ TimegmUndoes /\ MktimeUndoes /\ OffsetInForce /\ FieldsAddUp
  /\ TextInBuffer /\ TextInOrder /\ FormatInside /\ ZeroWhenFull
=============================================================================
