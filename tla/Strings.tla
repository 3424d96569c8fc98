------------------------------ MODULE Strings -------------------------------
(***************************************************************************)
(* The tables of src/internal/ctype.cpp that the functions of              *)
(* src/ansi/ctype.cpp index with a character.  They begin at -128, so that *)
(* a plain char and the same character as an unsigned char both are        *)
(* indices; -1 is EOF as well as the plain char 255.                       *)
(***************************************************************************)
EXTENDS Integers, FiniteSetsExt, SequencesExt, Samples

CONSTANT Codes   \* the indices looked at

code == sample.code

CtypeInit == \E c \in Codes : sample = [of |-> "character", code |-> c]

(* CTYPE_B_ARRAY, entry by entry. *)
Cntrl == (0..31) \cup {127}
Space == 9..13 \cup {32}
Blank == {9, 32}
Punct == 33..47 \cup 58..64 \cup 91..96 \cup 123..126
Decimal == 48..57
Upper == 65..90
Lower == 97..122
Xdigit == Decimal \cup 65..70 \cup 97..102

(* The flags of an entry. *)
Class(c) ==
  {f \in {"cntrl", "space", "blank", "punct", "digit", "upper", "lower", "xdigit",
          "alpha", "alnum", "graph", "print"} :
     c \in CASE f = "cntrl" -> Cntrl
             [] f = "space" -> Space
             [] f = "blank" -> Blank
             [] f = "punct" -> Punct
             [] f = "digit" -> Decimal
             [] f = "upper" -> Upper
             [] f = "lower" -> Lower
             [] f = "xdigit" -> Xdigit
             [] f = "alpha" -> Upper \cup Lower
             [] f = "alnum" -> Upper \cup Lower \cup Decimal
             [] f = "graph" -> 33..126
             [] f = "print" -> 32..126}

isdigit(c) == c \in Decimal

(* The entries of both case tables that are no letters: the characters     *)
(* below EOF are there a second time.                                      *)
High(c) == IF c < -1 THEN c + 256 ELSE c

toupper(c) == IF c \in Lower THEN c - 32 ELSE High(c)

tolower(c) == IF c \in Upper THEN c + 32 ELSE High(c)

(* A plain char above 127 is negative; whether it is passed to a ctype     *)
(* function as it is or as an unsigned char makes no difference, but for   *)
(* 255, which is EOF.  The two case tables undo each other on the letters, *)
(* change nothing else, and agree with the classes.                        *)
SameForBothSigns ==
  sample.of = "character" =>
    /\ code \in -128..-2 => /\ Class(code) = Class(code + 256)
                            /\ toupper(code) = toupper(code + 256)
                            /\ tolower(code) = tolower(code + 256)
    /\ code >= 0 => /\ "upper" \in Class(code) <=> tolower(code) # code
                    /\ "lower" \in Class(code) <=> toupper(code) # code
    /\ toupper(tolower(code)) = toupper(code)
    /\ tolower(toupper(code)) = tolower(code)
    /\ code = -1 => tolower(code) = -1 /\ toupper(code) = -1 /\ Class(code) = {}

-----------------------------------------------------------------------------
(***************************************************************************)
(* Copying, comparing and splitting of src/ansi/string.cpp,                *)
(* src/ansi/wchar.cpp, src/posix/strings.cpp and src/glibc/string.cpp.     *)
(* Memory is a sequence of bytes that starts at 1; a string is one without *)
(* its terminator 0.  A char is signed.                                    *)
(***************************************************************************)

CONSTANTS
  MemorySize,    \* bytes of the memory that is moved in
  StringChars,   \* characters of the strings compared
  MaxString,     \* bound: their length
  VersionChars,  \* characters of the strings with numbers in them
  MaxVersion,    \* bound: their length
  RoomSize       \* bytes of a destination

s1 == sample.s1
s2 == sample.s2
count == sample.count

Texts(chars, max) == UNION {[1..n -> chars] : n \in 0..max}

MoveInit == \E to, from \in 1..MemorySize, n \in 0..MemorySize :
              /\ to + n <= MemorySize + 1 /\ from + n <= MemorySize + 1
              /\ sample = [of |-> "move", to |-> to, from |-> from, count |-> n]
CompareInit == \E a, b \in Texts(StringChars, MaxString), n \in 0..(MaxString + 1) :
                 sample = [of |-> "strings", s1 |-> a, s2 |-> b, count |-> n]
VersionInit == \E a, b, c \in Texts(VersionChars, MaxVersion) :
                 sample = [of |-> "versions", s1 |-> a, s2 |-> b, s3 |-> c]

ByteAt(s, i) == IF i <= Len(s) THEN s[i] ELSE 0

-----------------------------------------------------------------------------
(* memmove *)

(* Bytes one after the other, in the order of the indices. *)
CopiedInOrder(mem, to, from, order) ==
  FoldLeft(LAMBDA m, i : [m EXCEPT ![to + i] = m[from + i]], mem, order)

memcpy(mem, to, from, n) == CopiedInOrder(mem, to, from, [i \in 1..n |-> i - 1])

Forwards(to, from, n) == to < from \/ from + n <= to

memmove(mem, to, from, n) ==
  IF Forwards(to, from, n) THEN memcpy(mem, to, from, n)
  ELSE IF to > from THEN CopiedInOrder(mem, to, from, [i \in 1..n |-> n - i])
  ELSE mem

-----------------------------------------------------------------------------
(* Bounded copies into a destination of RoomSize bytes, all 9. *)

Untouched == [i \in 1..RoomSize |-> 9]
Stored(mem, at, s) == [i \in 1..Len(mem) |-> IF i \in at..(at + Len(s) - 1) THEN s[i - at + 1] ELSE mem[i]]
Prefix_(s, n) == SubSeq(s, 1, IF n < Len(s) THEN n ELSE Len(s))

(* strncpy fills what is left of the count with zeros, wcsncpy puts one if *)
(* there is room.                                                          *)
Padding(n, len) == [i \in 1..(n - len) |-> 0]

strncpy(mem, s, n) == Stored(mem, 1, Prefix_(s, n) \o Padding(n, Len(Prefix_(s, n))))

wcsncpy(mem, s, n) ==
  Stored(mem, 1, Prefix_(s, n) \o Prefix_(Padding(n, Len(Prefix_(s, n))), 1))

(* strncat after a string dest: at most n characters, and the terminator. *)
strncat(mem, dest, s, n) ==
  Stored(Stored(mem, 1, Append(dest, 0)), Len(dest) + 1, Append(Prefix_(s, n), 0))

(* strxfrm copies the whole string or nothing. *)
strxfrm(mem, s, n) == IF n > Len(s) THEN Stored(mem, 1, Append(s, 0)) ELSE mem

(* wcsxfrm copies what fits. *)
wcsxfrm(mem, s, n) ==
  IF n = 0 THEN mem
  ELSE IF Len(s) + 1 < n THEN Stored(mem, 1, Append(s, 0))
  ELSE Stored(mem, 1, Append(Prefix_(s, n - 1), 0))

(* memccpy copies up to and with the first c; what it returns is after it. *)
memccpy(mem, s, c, n) ==
  LET hits == {i \in 1..n : ByteAt(s, i) = c}
      len == IF hits = {} THEN n ELSE Min(hits)
  IN  [mem |-> Stored(mem, 1, [i \in 1..len |-> ByteAt(s, i)]),
       ret |-> IF hits = {} THEN 0 ELSE len + 1]

-----------------------------------------------------------------------------
(* Comparisons *)

Signed(c) == IF c > 127 THEN c - 256 ELSE c
Key(c, fold) == IF fold THEN tolower(Signed(c)) ELSE Signed(c)

(* The comparison of at most n characters stops where they differ or the   *)
(* string ends.                                                            *)
Differs(a, b, n, fold) ==
  LET diff(i) == Key(ByteAt(a, i), fold) - Key(ByteAt(b, i), fold)
      stops == {i \in 1..n : diff(i) # 0 \/ ByteAt(a, i) = 0}
  IN  IF stops = {} THEN 0 ELSE diff(Min(stops))

Unlimited(a, b) == Max({Len(a), Len(b)}) + 1
strcmp(a, b) == Differs(a, b, Unlimited(a, b), FALSE)
strcasecmp(a, b) == Differs(a, b, Unlimited(a, b), TRUE)

strncmp(a, b, n) == Differs(a, b, n, FALSE)
strncasecmp(a, b, n) == Differs(a, b, n, TRUE)

(* The first place, from 0, where sub is found, -1 if nowhere: an empty    *)
(* string is found at once, but not in an empty one.                       *)
strcasestr(a, sub) ==
  LET hits == {i \in 0..(Len(a) - 1) :
                 strncasecmp(SubSeq(a, i + 1, Len(a)), sub, Len(sub)) = 0}
  IN  IF hits = {} THEN -1 ELSE Min(hits)

(* memcmp compares bytes, and goes on after a 0. *)
memcmp(a, b, n) ==
  LET stops == {i \in 1..n : ByteAt(a, i) # ByteAt(b, i)}
  IN  IF stops = {} THEN 0 ELSE ByteAt(a, Min(stops)) - ByteAt(b, Min(stops))

strspn(s, set) == Min({i \in 1..(Len(s) + 1) : ByteAt(s, i) \notin set}) - 1

strcspn(s, set) == Min({i \in 1..(Len(s) + 1) : ByteAt(s, i) \in set \cup {0}}) - 1

-----------------------------------------------------------------------------
(* strverscmp: numbers inside strings compare as numbers, those with       *)
(* leading zeros character by character.                                   *)

SignOf(n) == IF n > 0 THEN 1 ELSE IF n < 0 THEN -1 ELSE 0

(* Where the common beginning ends, where its last number begins, and      *)
(* whether that is all zeros.                                              *)
CommonPart(a, b) ==
  LET i == Min({k \in 1..(Unlimited(a, b) + 1) : ByteAt(a, k) # ByteAt(b, k) \/ ByteAt(a, k) = 0})
      others == {k \in 1..(i - 1) : ~isdigit(a[k])}
      start == IF others = {} THEN 1 ELSE Max(others) + 1
  IN  [at |-> i, start |-> start, zeros |-> \A k \in start..(i - 1) : a[k] = 48]

(* 1 or -1 if the digits go on longer in a or in b. *)
Longer(a, b, i) ==
  LET ends(s) == Min({k \in i..(i + Len(s) + 1) : ~isdigit(ByteAt(s, k))})
  IN  IF ends(a) > ends(b) THEN 1 ELSE IF ends(a) < ends(b) THEN -1 ELSE 0

strverscmp(a, b) ==
  LET c == CommonPart(a, b)
      x == ByteAt(a, c.at)
      y == ByteAt(b, c.at)
  IN  IF x = y THEN 0
      ELSE IF ByteAt(a, c.start) # 48 /\ ByteAt(b, c.start) # 48 /\ Longer(a, b, c.at) # 0
        THEN Longer(a, b, c.at)
      ELSE IF ByteAt(a, c.start) = 48 /\ c.zeros /\ c.start < c.at /\ (isdigit(x) \/ isdigit(y))
        THEN SignOf((x - 48) - (y - 48))
      ELSE SignOf(x - y)

-----------------------------------------------------------------------------
(* strsep: the fields between delimiters, empty ones included. *)
strsep(s, from, delim) ==
  LET stop == from + strcspn(SubSeq(s, from, Len(s)), delim)
  IN  [token |-> SubSeq(s, from, stop - 1), rest |-> IF stop > Len(s) THEN 0 ELSE stop + 1]

AllFields(s, delim) ==
  LET RECURSIVE from(_)
      from(i) == IF i = 0 THEN <<>>
                 ELSE <<strsep(s, i, delim).token>> \o from(strsep(s, i, delim).rest)
  IN  from(1)

-----------------------------------------------------------------------------
(* Properties *)

(* memmove leaves in the destination what was in the source before, and    *)
(* the rest of memory alone, however the two overlap.                      *)
MovesWhole ==
  sample.of = "move" =>
    LET before == [i \in 1..MemorySize |-> i]
        after == memmove(before, sample.to, sample.from, count)
    IN  \A i \in 1..MemorySize :
          after[i] = IF i \in sample.to..(sample.to + count - 1)
                       THEN sample.from + (i - sample.to) ELSE i

(* A bounded copy touches no byte beyond the count (strncat: beyond the    *)
(* count and a terminator), and what it leaves is a string only where it   *)
(* promises one: strncat always, wcsxfrm whenever there is room for a      *)
(* character, strncpy and wcsncpy when the source is shorter.              *)
CopiesBounded ==
  sample.of = "strings" =>
    LET within(mem, n) == \A i \in (n + 1)..RoomSize : mem[i] = 9
        text(mem) == LET z == {i \in 1..RoomSize : mem[i] = 0}
                     IN  IF z = {} THEN <<9>> ELSE SubSeq(mem, 1, Min(z) - 1)
        cat == strncat(Untouched, s2, s1, count)
    IN  /\ within(strncpy(Untouched, s1, count), count)
        /\ within(wcsncpy(Untouched, s1, count), count)
        /\ within(strxfrm(Untouched, s1, count), count)
        /\ within(wcsxfrm(Untouched, s1, count), count)
        /\ within(memccpy(Untouched, s1, 0, count).mem, count)
        /\ within(cat, Len(s2) + count + 1) /\ text(cat) = s2 \o Prefix_(s1, count)
        /\ count > Len(s1) => /\ text(strncpy(Untouched, s1, count)) = s1
                              /\ text(wcsncpy(Untouched, s1, count)) = s1
                              /\ text(strxfrm(Untouched, s1, count)) = s1
                              /\ memccpy(Untouched, s1, 0, count).ret = Len(s1) + 2
        /\ count > 0 => text(wcsxfrm(Untouched, s1, count)) = Prefix_(s1, count - 1)

(* strcmp and strncmp order strings one way only, equal exactly when they  *)
(* are, like memcmp while no character has its highest bit set; strncmp    *)
(* with a count beyond both strings is strcmp, and case is all strcasecmp  *)
(* ignores.                                                                *)
ComparesAgree ==
  sample.of = "strings" =>
    LET n == Max({Len(s1), Len(s2)}) + 1
        folded(s) == [i \in 1..Len(s) |-> tolower(s[i])]
        ascii(s) == \A i \in 1..Len(s) : s[i] < 128
    IN  /\ strcmp(s1, s2) = 0 <=> s1 = s2
        /\ SignOf(strcmp(s1, s2)) = -SignOf(strcmp(s2, s1))
        /\ strncmp(s1, s2, n) = strcmp(s1, s2)
        /\ strncmp(s1, s2, count) = 0 <=> Prefix_(s1, count) = Prefix_(s2, count)
        /\ ascii(s1) /\ ascii(s2) =>
             SignOf(strcmp(s1, s2)) = SignOf(memcmp(s1, s2, n))
        /\ strcasecmp(s1, s2) = 0 <=> folded(s1) = folded(s2)
        /\ SignOf(strcasecmp(s1, s2)) = -SignOf(strcasecmp(s2, s1))
        /\ strcasestr(s1, s2) >= 0 =>
             strncasecmp(SubSeq(s1, strcasestr(s1, s2) + 1, Len(s1)), s2, Len(s2)) = 0

(* strspn and strcspn cut a string into stretches that are all in the set  *)
(* and all outside it: alternating them covers the string.                 *)
SpansCover ==
  sample.of = "strings" =>
    LET set == ToSet(s2)
        n == strspn(s1, set)
        m == strcspn(s1, set)
    IN  /\ \A i \in 1..n : s1[i] \in set
        /\ \A i \in 1..m : s1[i] \notin set
        /\ s1 # <<>> => (n = 0) # (m = 0)
        /\ FlattenSeq(AllFields(s1, set)) = SelectSeq(s1, LAMBDA c : c \notin set)
        /\ Len(AllFields(s1, set)) = Len(SelectSeq(s1, LAMBDA c : c \in set)) + 1

(* strverscmp is an order: sorting with it ends in one way, whatever       *)
(* zeros and letters surround the numbers.                                 *)
VersionsOrdered ==
  sample.of = "versions" =>
    /\ strverscmp(s1, s2) = -strverscmp(s2, s1)
    /\ strverscmp(s1, s2) = 0 <=> s1 = s2
    /\ strverscmp(s1, s2) < 0 /\ strverscmp(s2, sample.s3) < 0
         => strverscmp(s1, sample.s3) < 0

(* Numbers without leading zeros compare by their value. *)
NumbersByValue ==
  sample.of = "versions" =>
    LET number(s) == s # <<>> /\ s[1] # 48 /\ \A i \in 1..Len(s) : isdigit(s[i])
        value(s) == FoldLeft(LAMBDA v, c : 10 * v + c - 48, 0, s)
    IN  number(s1) /\ number(s2) => strverscmp(s1, s2) = SignOf(value(s1) - value(s2))

-----------------------------------------------------------------------------
(***************************************************************************)
(* Wide characters as bytes: wcrtomb, wcsrtombs of src/ansi/wchar.cpp,     *)
(* wcstombs of src/ansi/stdlib.cpp, mbrtoc32 of src/ansi/uchar.cpp and     *)
(* mbsnrtowcs of src/internal/string.cpp.  A string ends in 0.             *)
(***************************************************************************)

CONSTANTS
  CodePoints,   \* wide characters of strings, not 0
  ByteValues,   \* bytes of strings
  MaxWide,      \* bound: characters of a wide string
  MaxBytes,     \* bound: bytes of a string
  MaxRoom       \* bound: the room given for a result

wide == sample.wide    \* a wide string, without the last 0
bytes == sample.bytes  \* a string, without the last 0
mbroom == sample.room  \* the room for the result

WideInit == \E n \in 0..MaxWide : \E w \in [1..n -> CodePoints], r \in 0..MaxRoom :
              sample = [of |-> "wide", wide |-> w, room |-> r]
BytesInit == \E n \in 0..MaxBytes : \E s \in [1..n -> ByteValues], r \in 0..MaxBytes :
               sample = [of |-> "bytes", bytes |-> s, room |-> r]

Terminated(s) == Append(s, 0)
Incomplete == -2
Invalid == -1

-----------------------------------------------------------------------------

(* A continuation byte: six bits of a character. *)
Low6(v, k) == 128 + ((v \div 64^k) % 64)

(* The bytes of a wide character; none if there are none. *)
wcrtomb(wc) ==
  CASE wc <= 127 -> <<wc>>
    [] wc > 127 /\ wc <= 2047 -> <<192 + wc \div 64, Low6(wc, 0)>>
    [] wc > 2047 /\ wc <= 65535 -> <<224 + wc \div 4096, Low6(wc, 1), Low6(wc, 0)>>
    [] wc > 65535 /\ wc <= 1114111 ->
         <<240 + wc \div 262144, Low6(wc, 2), Low6(wc, 1), Low6(wc, 0)>>
    [] OTHER -> <<>>

(* The next character does not fit any more. *)
NoRoom(ret, left) == ret > left

(* wcsrtombs and wcstombs: characters are written while they fit, the      *)
(* terminator included; src is where to go on, 0 at the end.               *)
wcsrtombs(str, len) ==
  LET s == Terminated(str)
      RECURSIVE from(_, _)
      from(i, out) ==
        LET b == wcrtomb(s[i])
        IN  IF b = <<>> THEN [out |-> out, ret |-> Invalid, src |-> i]
            ELSE IF NoRoom(Len(b), len - Len(out)) THEN [out |-> out, ret |-> Len(out), src |-> i]
            ELSE IF s[i] = 0 THEN [out |-> out \o b, ret |-> Len(out), src |-> 0]
            ELSE from(i + 1, out \o b)
  IN  from(1, <<>>)

(* How many bytes a first byte announces; 0 for none that begins one. *)
Announced(first) == CASE first < 128 -> 1
                      [] first \in 192..223 -> 2
                      [] first \in 224..239 -> 3
                      [] first \in 240..247 -> 4
                      [] OTHER -> 0
Continues(b) == b \in 128..191

(* The bytes that follow the first, up to n. *)
Following(s, n, size) == 2..(IF n < size THEN n ELSE size)

(* The wide character that the first bytes of a string make, n of them at  *)
(* most, and the number used: 0 for the terminator, Incomplete or Invalid. *)
mbrtoc32(s, n) ==
  LET size == Announced(s[1])
      follow == Following(s, n, size)
      low == <<127, 31, 15, 7>>
      value == FoldLeft(LAMBDA v, b : 64 * v + (b % 64), s[1] % (low[size] + 1),
                        SubSeq(s, 2, size))
  IN  IF n = 0 THEN [used |-> Incomplete, wc |-> 0]
      ELSE IF size = 0 \/ \E i \in follow : ~Continues(s[i]) THEN [used |-> Invalid, wc |-> 0]
      ELSE IF n < size THEN [used |-> Incomplete, wc |-> 0]
      ELSE [used |-> IF s[1] = 0 THEN 0 ELSE size, wc |-> value]

(* Where src is left when there is no room for a character. *)
StopsAt(i, used) == i

(* mbsnrtowcs: at most num_chars bytes, at most len characters. *)
mbsnrtowcs(s, num_chars, len) ==
  LET RECURSIVE from(_, _)
      from(i, out) ==
        LET c == mbrtoc32(SubSeq(s, i, Len(s)), num_chars - (i - 1))
        IN  IF i > num_chars THEN [out |-> out, ret |-> Len(out), src |-> i]
            ELSE IF c.used = Invalid THEN [out |-> out, ret |-> Invalid, src |-> i]
            ELSE IF c.used = Incomplete THEN [out |-> out, ret |-> Len(out), src |-> i]
            ELSE IF Len(out) + 1 > len
                   THEN [out |-> out, ret |-> Len(out), src |-> StopsAt(i, c.used)]
            ELSE IF c.wc = 0 THEN [out |-> Append(out, 0), ret |-> Len(out), src |-> 0]
            ELSE from(i + c.used, Append(out, c.wc))
  IN  from(1, <<>>)

-----------------------------------------------------------------------------
(* Properties *)

Known(w) == \A i \in 1..Len(w) : wcrtomb(w[i]) # <<>>

(* A wide string that is written as bytes is read back the same. *)
ReadsBackWide ==
  sample.of = "wide" /\ Known(wide) =>
      LET out == wcsrtombs(wide, 4 * MaxWide + 1).out
          back == mbsnrtowcs(out, Len(out), MaxWide + 1)
      IN  back.out = Terminated(wide) /\ back.ret = Len(wide)

(* However little room there is, wcsrtombs stays in it and writes whole    *)
(* characters; it ends the string exactly if there is room for all of it,  *)
(* and a call that goes on where it stopped writes the rest.               *)
WholeCharacters ==
  sample.of = "wide" /\ Known(wide) =>
      LET all == wcsrtombs(wide, 4 * MaxWide + 1)
          part == wcsrtombs(wide, mbroom)
          rest == wcsrtombs(SubSeq(wide, part.src, Len(wide)), 4 * MaxWide + 1)
      IN  /\ Len(part.out) <= mbroom
          /\ part.src = 0 <=> Len(all.out) <= mbroom
          /\ IF part.src = 0 THEN part.out = all.out ELSE part.out \o rest.out = all.out

(* mbrtoc32 answers Incomplete only for bytes that may become a character: *)
(* any other answer is the same with more bytes, so none is looked at that *)
(* the caller did not give.                                                *)
MoreBytesSame ==
  sample.of = "bytes" /\ bytes # <<>> =>
      \A n \in 1..Len(bytes) :
        LET given == mbrtoc32(SubSeq(bytes, 1, n) \o [i \in 1..4 |-> 0], n)
            more == mbrtoc32(bytes \o [i \in 1..4 |-> 0], Len(bytes))
        IN  given.used # Incomplete => given = more

(* mbsnrtowcs in two calls, the second going on where the first was out of *)
(* room, gives what one call gives.                                        *)
ResumesSame ==
  sample.of = "bytes" =>
    LET s == bytes \o [i \in 1..4 |-> 0]
        n == Len(bytes) + 1
        all == mbsnrtowcs(s, n, n)
        part == mbsnrtowcs(s, n, mbroom)
        rest == mbsnrtowcs(SubSeq(s, part.src, Len(s)), n - (part.src - 1), n)
    IN  IF part.src = 0 \/ part.ret = Invalid THEN part = all
        ELSE part.out \o rest.out = all.out /\ (rest.ret = Invalid <=> all.ret = Invalid)

(* Bytes and characters are copied, compared, classified and converted     *)
(* whole and inside the memory that was given.                             *)
StringsWhole ==
  /\ ReadsBackWide /\ WholeCharacters /\ MoreBytesSame /\ ResumesSame
  /\ MovesWhole /\ CopiesBounded /\ ComparesAgree /\ SpansCover
  /\ VersionsOrdered /\ NumbersByValue /\ SameForBothSigns
=============================================================================
