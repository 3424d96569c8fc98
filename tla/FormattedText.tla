--------------------------- MODULE FormattedText ----------------------------
(***************************************************************************)
(* vfprintf of src/ansi/stdio.cpp on a stream that threads share, and      *)
(* vsnprintf.  A call takes the stream's mutex before its first character; *)
(* every way out unlocks it by itself, the lambda write for its callers,   *)
(* and the return is a step of its own.  Each write may fail or be short.  *)
(* Characters are abstract; how an integer looks is in Numbers.            *)
(***************************************************************************)
EXTENDS Integers, FiniteSetsExt, SequencesExt, Samples

CONSTANTS
  PrintThreads,
  PrintFormats,   \* the formats of calls
  Arguments,      \* the arguments of a call, the same for all
  IntLimit,       \* INT_MAX
  BufferSizes,    \* sizes of buffers for vsnprintf
  MaxPrints       \* bound: calls

VARIABLES
  job,         \* job[t]: the call of a thread
  print_lock,  \* who holds the stream's mutex
  output,      \* what the stream accepted: the number of the call, per character
  prints       \* calls begun

printVars == <<job, print_lock, output, prints>>

NoJob == [pc |-> "idle", fmt |-> <<>>, at |-> 1, arg |-> 1, pieces |-> <<>>,
          written |-> 0, by |-> "lambda", ret |-> 0, call |-> 0, cause |-> "none"]

PrintInit == /\ job = [t \in PrintThreads |-> NoJob]
             /\ print_lock = {}
             /\ output = <<>>
             /\ prints = 0

BufferInit == \E n \in BufferSizes, f \in PrintFormats :
                sample = [of |-> "buffer", size |-> n, format |-> f]

Char(s, i) == IF i <= Len(s) THEN s[i] ELSE "NUL"
Argument(i) == IF i <= Len(Arguments) THEN Arguments[i] ELSE 0

(* The end of the characters of a set from an index on. *)
RunEnd(s, i, S) == Min({j \in i..(Len(s) + 1) : Char(s, j) \notin S})
Others(s) == ToSet(s) \ {"%"}

-----------------------------------------------------------------------------
(* A directive *)

FlagChars == {"-", "+", " ", "#", "0"}
DigitChars == {"0", "1", "2"}
DigitOf(c) == CASE c = "0" -> 0 [] c = "1" -> 1 [] c = "2" -> 2

(* Flags: a space counts unless a plus came before, a zero unless a minus. *)
Flags(s, i, end) ==
  LET at(c) == {j \in i..(end - 1) : s[j] = c}
      unless(c, d) == \E j \in at(c) : \A k \in at(d) : j < k
  IN  {c \in {"-", "+", "#"} : at(c) # {}}
      \cup {c \in {" "} : unless(" ", "+")} \cup {c \in {"0"} : unless("0", "-")}

(* A number, a star for an argument, or nothing: its value, where the      *)
(* format goes on and the next argument.                                   *)
Amount(s, i, arg) ==
  CASE Char(s, i) \in DigitChars ->
         [has |-> TRUE, value |-> FoldLeft(LAMBDA v, c : 10 * v + DigitOf(c), 0,
                                           SubSeq(s, i, RunEnd(s, i, DigitChars) - 1)),
          next |-> RunEnd(s, i, DigitChars), arg |-> arg]
    [] Char(s, i) = "*" -> [has |-> TRUE, value |-> Argument(arg), next |-> i + 1,
                            arg |-> arg + 1]
    [] OTHER -> [has |-> FALSE, value |-> 0, next |-> i, arg |-> arg]

(* h, hh, l, ll; any other length is one letter. *)
LengthEnd(s, i) ==
  IF Char(s, i) \in {"h", "l"} THEN (IF Char(s, i + 1) = s[i] THEN i + 2 ELSE i + 1) ELSE i

(* The precision: none without a dot, and none if it is negative. *)
Precision(s, width) ==
  IF Char(s, width.next) = "." THEN Amount(s, width.next + 1, width.arg)
  ELSE [width EXCEPT !.value = -1]

(* What vfprintf panics over: an argument by position, a quote as a flag.  *)
Positional(s, i) == Char(s, i) \in DigitChars /\ Char(s, i + 1) = "$"
Unsupported(s, i, end, width) ==
  \/ Positional(s, i) \/ Char(s, end) = "'"
  \/ Char(s, end) = "*" /\ Positional(s, end + 1)
  \/ /\ Char(s, width.next) = "." /\ Char(s, width.next + 1) = "*"
     /\ Positional(s, width.next + 2)

(* The directive after a percent sign, part by part.  A character takes no *)
(* flags, and like a string no length but l (__ensure).                    *)
AfterPrecision(s, flags, width, precision, next, unsupported) ==
  LET negative == width.has /\ width.value < 0
      length == SubSeq(s, precision.next, next - 1)
      exact == Char(s, width.next) = "." /\ precision.value >= 0
  IN  [conv |-> Char(s, next), next |-> next + 1,
       unsupported |-> unsupported,
       refused |-> \/ Char(s, next) \in {"c", "s"} /\ length \notin {<<>>, <<"l">>}
                   \/ Char(s, next) = "c" /\ (negative \/ flags \ (IF exact THEN {"0"} ELSE {}) # {}),
       wide |-> length = <<"l">>,
       left |-> "-" \in flags \/ negative,
       width |-> IF negative THEN -width.value ELSE width.value,
       has_precision |-> precision.value >= 0,
       precision |-> IF precision.value >= 0 THEN precision.value ELSE 0,
       arg |-> precision.arg]
AfterWidth(s, flags, width, precision, unsupported) ==
  AfterPrecision(s, flags, width, precision, LengthEnd(s, precision.next), unsupported)
AfterFlags(s, i, end, width) ==
  AfterWidth(s, Flags(s, i, end), width, Precision(s, width), Unsupported(s, i, end, width))
FromFlags(s, i, end, arg) == AfterFlags(s, i, end, Amount(s, end, arg))
Directive(s, i, arg) == FromFlags(s, i, RunEnd(s, i, FlagChars), arg)

Larger(x, y) == IF x > y THEN x ELSE y

(* The lengths of the writes a directive makes: an integer is padded       *)
(* character by character; a string is cut to the precision, never padded, *)
(* and a wide one written one by one; an unknown letter is as it is.       *)
Pieces(d) ==
  CASE d.conv = "d" ->
         LET value == Argument(d.arg)
             digits == IF value = 0 /\ d.has_precision /\ d.precision = 0 THEN 0 ELSE 1
             sign == IF value < 0 THEN 1 ELSE 0
             zeros == Larger(d.precision - digits, 0)
             room == Larger(d.width - sign - Larger(digits, d.precision), 0)
             ones(n) == [j \in 1..n |-> 1]
             number == ones(sign + zeros) \o <<digits>>
         IN  IF d.left THEN number \o ones(room) ELSE ones(room) \o number
    [] d.conv = "s" ->
         LET length == Larger(Argument(d.arg), 0)
             shown == IF d.has_precision /\ d.precision < length THEN d.precision ELSE length
         IN  IF d.wide THEN [j \in 1..shown |-> 1] ELSE IF shown = 0 THEN <<>> ELSE <<shown>>
    [] d.conv = "n" -> <<>>
    [] OTHER -> <<1>>

TakesArgument(conv) == conv \in {"d", "s", "c", "n"}

(* The end of the pairs of percent signs from an index on. *)
PercentsEnd(s, text) ==
  Min({j \in text..(Len(s) + 1) : /\ (j - text) % 2 = 0
                                  /\ \A k \in text..(j - 1) : s[k] = "%"
                                  /\ ~(Char(s, j) = "%" /\ Char(s, j + 1) = "%")})

(* The next stretch of a format: characters to be written, with every %%   *)
(* as one of them; the end; a directive; one that is cut off; or one that  *)
(* stops the program.  Characters, strings and unknown letters are written *)
(* where they are met, all else through the lambda write.                  *)
StretchBefore(s, i, arg, text, after, d) ==
  LET length == (text - i) + (after - text) \div 2
      at(kind) == [kind |-> kind, next |-> i, arg |-> arg, by |-> "lambda", pieces |-> <<>>]
  IN  CASE length > 0 -> [at("text") EXCEPT !.next = after, !.pieces = <<length>>]
        [] length = 0 /\ Char(s, i) = "NUL" -> at("end")
        [] length = 0 /\ Char(s, i) # "NUL" ->
             IF d.unsupported THEN at("panic")
             ELSE IF d.conv = "NUL" THEN at("cut")
             ELSE IF d.refused THEN at("panic")
             ELSE [kind |-> "directive", next |-> d.next, pieces |-> Pieces(d),
                   by |-> CASE d.conv \in {"c", "s"} -> d.conv
                            [] d.conv \in {"d", "n"} -> "lambda"
                            [] OTHER -> "default",
                   arg |-> IF TakesArgument(d.conv) THEN d.arg + 1 ELSE d.arg]
StretchFrom(s, i, arg, text) ==
  StretchBefore(s, i, arg, text, PercentsEnd(s, text), Directive(s, i + 1, arg))
Stretch(s, i, arg) == StretchFrom(s, i, arg, RunEnd(s, i, Others(s)))

-----------------------------------------------------------------------------
(* vfprintf *)

vfprintf(t, fmt) ==
  /\ job[t].pc = "idle"
  /\ prints < MaxPrints
  /\ prints' = prints + 1
  /\ job' = [job EXCEPT ![t] = [NoJob EXCEPT !.pc = "lock", !.fmt = fmt, !.call = prints + 1]]
  /\ UNCHANGED <<print_lock, output>>

print_lock_(t) ==
  /\ job[t].pc = "lock"
  /\ print_lock = {}
  /\ print_lock' = {t}
  /\ job' = [job EXCEPT ![t].pc = "scan"]
  /\ UNCHANGED <<output, prints>>

(* manual_unlock, whoever holds the mutex, on a way out. *)
Unlocked(t, ret, cause) ==
  /\ print_lock' = {}
  /\ job' = [job EXCEPT ![t].pc = "return", ![t].pieces = <<>>,
                         ![t].ret = ret, ![t].cause = cause]

scan_format(t) ==
  /\ job[t].pc = "scan"
  /\ job[t].pieces = <<>>
  /\ \E s \in {Stretch(job[t].fmt, job[t].at, job[t].arg)} :
         CASE s.kind = "end" -> Unlocked(t, job[t].written, "end")
           [] s.kind = "cut" -> Unlocked(t, -1, "cut")
           [] s.kind = "panic" -> /\ job' = [job EXCEPT ![t].pc = "panic"]
                                  /\ UNCHANGED print_lock
           [] OTHER -> /\ job' = [job EXCEPT ![t].at = s.next, ![t].arg = s.arg,
                                             ![t].by = s.by, ![t].pieces = s.pieces]
                       /\ UNCHANGED print_lock
  /\ UNCHANGED <<output, prints>>

(* What the stream took is counted. *)
Counted(t, n) == job[t].written + n

(* file->write at one of the places: it takes some of the characters or    *)
(* all, or it fails.                                                       *)
Writing(t, place) == job[t].pieces # <<>> /\ job[t].by = place
Taken(t, n) ==
  /\ n \in 0..job[t].pieces[1]
  /\ output' = output \o [j \in 1..n |-> job[t].call]
  /\ IF Counted(t, n) > IntLimit
       THEN Unlocked(t, -1, "overflow")
       ELSE /\ job' = [job EXCEPT ![t].written = Counted(t, n),
                                  ![t].pieces = Tail(job[t].pieces)]
            /\ UNCHANGED print_lock
  /\ UNCHANGED prints
NotTaken(t) == Unlocked(t, -1, "failed") /\ UNCHANGED <<output, prints>>

write(t, n) == Writing(t, "lambda") /\ Taken(t, n)
write_fails(t) == Writing(t, "lambda") /\ NotTaken(t)
write_char(t, n) == Writing(t, "c") /\ (Taken(t, n) \/ NotTaken(t))
write_string(t, n) == Writing(t, "s") /\ (Taken(t, n) \/ NotTaken(t))
write_unknown(t, n) == Writing(t, "default") /\ (Taken(t, n) \/ NotTaken(t))

(* The lambda's callers give its failure on; none of them unlocks again.   *)
print_returns(t) ==
  /\ job[t].pc = "return"
  /\ job' = [job EXCEPT ![t].pc = "idle"]
  /\ UNCHANGED <<print_lock, output, prints>>

PrintStep(t) == \/ \E fmt \in PrintFormats : vfprintf(t, fmt)
            \/ print_lock_(t) \/ scan_format(t) \/ write_fails(t) \/ print_returns(t)
            \/ \E n \in 0..IntLimit : \/ write(t, n) \/ write_char(t, n)
                                     \/ write_string(t, n) \/ write_unknown(t, n)

(* A panic ends the process. *)
PrintNext == /\ \A t \in PrintThreads : job[t].pc # "panic"
             /\ \E t \in PrintThreads : PrintStep(t)

-----------------------------------------------------------------------------
(* vsnprintf: a stream over a buffer; it keeps what fits and says it took  *)
(* everything.                                                             *)

(* The lengths of all the writes of a format, with how it ended. *)
Whole(fmt) ==
  LET RECURSIVE go(_, _, _)
      go(i, arg, done) ==
        LET s == Stretch(fmt, i, arg)
        IN  IF s.kind \in {"end", "cut", "panic"} THEN [kind |-> s.kind, pieces |-> done]
            ELSE go(s.next, s.arg, done \o s.pieces)
  IN  go(1, 1, <<>>)

(* Where the terminator is put, from 1; 0 is nowhere. *)
Terminator(size, filled) ==
  IF filled # size THEN filled + 1 ELSE IF size # 0 THEN filled ELSE 0

BufferAfter(size, whole) ==
  LET total == FoldLeft(LAMBDA x, y : x + y, 0, whole.pieces)
      filled == FoldLeft(LAMBDA f, n : IF f + n > size THEN size ELSE f + n, 0, whole.pieces)
  IN  [ret |-> IF whole.kind = "cut" \/ total > IntLimit THEN -1 ELSE total,
       ended |-> whole.kind, filled |-> filled, nul |-> Terminator(size, filled)]
vsnprintf(size, fmt) == BufferAfter(size, Whole(fmt))

-----------------------------------------------------------------------------
(* Properties *)

(* The characters of two calls never mix, whatever fails in between. *)
CallsApart ==
  \A i \in 1..Len(output), j \in 1..Len(output) :
    i < j /\ output[i] = output[j] => \A k \in i..j : output[k] = output[i]

(* The stream is locked by a call exactly while it scans and writes: no    *)
(* way out keeps it, and none unlocks a second time, when another thread   *)
(* may have it.  A program that stops in a call stops with it.             *)
LockedWhileWriting ==
  \A t \in PrintThreads : t \in print_lock <=> job[t].pc \in {"scan", "panic"}

(* What a call returns is the number of characters the stream took from    *)
(* it; -1 has a cause, one of them that there would be more than an int    *)
(* counts.                                                                 *)
CountIsAccepted ==
  \A t \in PrintThreads :
    (job[t].pc = "idle" /\ job[t].call > 0) =>
      LET taken == Len(SelectSeq(output, LAMBDA c : c = job[t].call))
      IN  IF job[t].cause = "end" THEN job[t].ret = taken
          ELSE job[t].ret = -1 /\ (job[t].cause = "overflow" <=> taken > IntLimit)

(* No directive leads past the end of the format, however it is cut off. *)
ScanStaysInside == \A t \in PrintThreads : job[t].at \in 1..(Len(job[t].fmt) + 1)

(* vsnprintf stays in its buffer and terminates what it put there; it      *)
(* returns the length of the whole, and a buffer larger than that holds    *)
(* all of it.                                                              *)
WithinBuffer(size, r) ==
  /\ size > 0 => r.nul \in 1..size /\ r.nul <= r.filled + 1
  /\ r.filled <= size
  /\ r.ret >= 0 /\ r.ret < size => r.filled = r.ret /\ r.nul = r.ret + 1
BufferTerminated ==
  sample.of = "buffer" =>
    \E r \in {vsnprintf(sample.size, sample.format)} :
      r.ended # "panic" => WithinBuffer(sample.size, r)

-----------------------------------------------------------------------------
(***************************************************************************)
(* vfscanf of src/ansi/stdio.cpp: what a format takes from a string, and   *)
(* scans of one stream by several threads.  A scan does not lock the       *)
(* stream: it looks ahead by reading a character and pushing it back.      *)
(***************************************************************************)

CONSTANTS
  ScanFormats,    \* formats: sequences of directives
  ScanLetters,    \* the characters of inputs
  MaxInput,       \* bound: characters of an input
  Scanners,       \* threads that scan one stream
  MaxScan         \* bound: characters of the stream, and of a scan

VARIABLES
  stream,         \* the characters left in the shared stream
  scanner,        \* scanner[t]: the scan of a thread
  scans_overlap      \* some scans have overlapped

scanVars == <<stream, scanner, scans_overlap>>

input == sample.input     \* a string
format == sample.format   \* a format

Numerals == [c \in {"0", "1", "9", "b"} |->
              CASE c = "0" -> 0 [] c = "1" -> 1 [] c = "9" -> 9 [] c = "b" -> 11]
Widest == MaxInput + 1   \* INT_MAX

NoScan == [pc |-> "idle", looked |-> 0, stored |-> <<>>]

ScanFormatInit == \E n \in 0..MaxInput : \E s \in [1..n -> ScanLetters], f \in ScanFormats :
                    sample = [of |-> "scan", input |-> s, format |-> f]

ScanStreamInit == /\ stream = [i \in 1..MaxScan |-> i]
                  /\ scanner = [t \in Scanners |-> NoScan]
                  /\ scans_overlap = FALSE

-----------------------------------------------------------------------------
(* A directive: what it is, whether it assigns, and its width or 0.        *)
(* A scan: the characters left (in), the number taken (used), the          *)
(* directives that stored something (stored), the last number (value), and *)
(* whether it has returned (done) and what (ret).                          *)

LookAhead(in) == IF in = <<>> THEN "NUL" ELSE in[1]

FreshScan(in) == [in |-> in, used |-> 0, stored |-> <<>>, value |-> 0,
              done |-> FALSE, ret |-> 0]

Consume(st, n) == [st EXCEPT !.in = SubSeq(st.in, n + 1, Len(st.in)), !.used = @ + n]

(* How many characters of a set come first, a width at most. *)
RunOf(in, S, width) ==
  Max({n \in 0..Len(in) : n <= width /\ \A i \in 1..n : in[i] \in S})

SkipSpace(st) == Consume(st, RunOf(st.in, {" "}, Len(st.in)))

Return(st, ret) == [st EXCEPT !.done = TRUE, !.ret = ret]

(* The count so far, or EOF if it is zero. *)
CountOrEof(st) == IF st.stored = <<>> THEN -1 ELSE Len(st.stored)

WidthOf(d) == IF d.width = 0 THEN Widest ELSE d.width

Literal(st, d) ==
  IF LookAhead(st.in) = d.what THEN Consume(st, 1)
  ELSE Return(st, IF st.in = <<>> THEN CountOrEof(st) ELSE Len(st.stored))

Percent(st) ==
  IF LookAhead(st.in) = "%" THEN Consume(st, 1) ELSE Return(st, CountOrEof(st))

Characters(st, d, i) ==
  LET width == IF d.width = 0 THEN 1 ELSE d.width
  IN  IF Len(st.in) < width THEN Return(Consume(st, Len(st.in)), CountOrEof(st))
      ELSE [Consume(st, width) EXCEPT !.stored = IF d.assign THEN Append(@, i) ELSE @]

(* %s and %[: with no character that matches, the format goes on unless    *)
(* the input has ended and nothing was stored.                             *)
Run(st, d, i, S) ==
  LET n == RunOf(st.in, S, WidthOf(d))
      after == Consume(st, n)
  IN  IF n > 0 THEN [after EXCEPT !.stored = IF d.assign THEN Append(@, i) ELSE @]
      ELSE IF st.stored = <<>> /\ st.in = <<>> THEN Return(after, -1)
      ELSE after

DigitsIn(base) == {c \in DOMAIN Numerals :
                     Numerals[c] < base \/ (base = 2 /\ Numerals[c] < 10)}

(* What comes before the digits: a sign, a leading zero and, for some      *)
(* conversions, the letter that makes a prefix of it, which is taken       *)
(* whatever the width.                                                     *)
Lead(in, conv, width) ==
  LET sign == IF width > 0 /\ LookAhead(in) \in {"-", "+"} THEN 1 ELSE 0
      rest == SubSeq(in, sign + 1, Len(in))
      zero == conv # "d" /\ width - sign > 0 /\ LookAhead(rest) = "0"
      next == IF zero THEN LookAhead(Tail(rest)) ELSE "NUL"
      letter == (conv \in {"i", "x"} /\ next = "x") \/ (conv = "i" /\ next = "b")
  IN  [sign |-> sign, zero |-> IF zero /\ ~letter THEN 1 ELSE 0,
       letter |-> IF letter THEN 2 ELSE 0,
       base |-> CASE conv = "d" -> 10 [] conv = "o" -> 8 [] conv = "x" -> 16
                  [] conv = "i" /\ letter -> (IF next = "x" THEN 16 ELSE 2)
                  [] conv = "i" /\ zero /\ ~letter -> 8
                  [] OTHER -> 10]

(* The width left for digits. *)
Room(lead, width) == width - lead.sign - lead.zero - lead.letter

(* A conversion without digits ends the scan: EOF at the end of the input, *)
(* whatever was stored before.                                             *)
NoDigits(st, after, lead) ==
  Return(after, IF lead.sign + lead.letter = 0 /\ st.in = <<>> THEN -1
                ELSE Len(st.stored))

NumberAfter(st, d, i, lead) ==
  LET skipped == lead.sign + lead.zero + lead.letter
      rest == SubSeq(st.in, skipped + 1, Len(st.in))
      n == RunOf(rest, DigitsIn(lead.base), Max({Room(lead, WidthOf(d)), 0}))
      digits == SubSeq(rest, 1, n)
      value == FoldLeft(LAMBDA v, c : lead.base * v + Numerals[c], 0, digits)
      after == Consume(st, skipped + n)
  IN  IF lead.zero + n = 0 THEN NoDigits(st, after, lead)
      ELSE [after EXCEPT !.stored = IF d.assign THEN Append(@, i) ELSE @,
                         !.value = IF LookAhead(st.in) = "-" THEN -value ELSE value]
Number(st, d, i) == NumberAfter(st, d, i, Lead(st.in, d.what, WidthOf(d)))

(* Which conversions skip spaces first. *)
SkipsSpace(what) == what \notin {"set", "c", "n"}

Directed(st0, d, i) ==
  LET st == IF d.kind = "conv" /\ SkipsSpace(d.what) THEN SkipSpace(st0) ELSE st0
  IN  CASE d.kind = "space" -> SkipSpace(st)
        [] d.kind = "lit" -> Literal(st, d)
        [] d.kind = "percent" -> Percent(st)
        [] d.kind = "cut" -> Return(st, -1)
        [] d.kind = "conv" /\ d.what = "c" -> Characters(st, d, i)
        [] d.kind = "conv" /\ d.what = "s" -> Run(st, d, i, ScanLetters \ {" "})
        [] d.kind = "conv" /\ d.what = "set" -> Run(st, d, i, {"1", " "})
        [] d.kind = "conv" /\ d.what \in {"d", "i", "o", "x"} -> Number(st, d, i)
        [] OTHER -> st

vfscanf(in, fmt) ==
  FoldLeftDomain(LAMBDA st, i : IF st.done THEN st ELSE Directed(st, fmt[i], i),
                 FreshScan(in), fmt)

Returned_(st) == IF st.done THEN st.ret ELSE Len(st.stored)

-----------------------------------------------------------------------------
(* Scans of one stream: the look ahead and the character taken are reads   *)
(* of their own.                                                           *)

scan_begins(t) ==
  /\ scanner[t].pc = "idle"
  /\ scanner' = [scanner EXCEPT ![t] = [NoScan EXCEPT !.pc = "look"]]
  /\ scans_overlap' = (scans_overlap \/ \E u \in Scanners \ {t} : scanner[u].pc # "idle")
  /\ UNCHANGED stream

look_ahead(t) ==
  /\ scanner[t].pc = "look"
  /\ stream # <<>>
  /\ scanner' = [scanner EXCEPT ![t].pc = "unget", ![t].looked = Head(stream)]
  /\ stream' = Tail(stream)
  /\ UNCHANGED scans_overlap

unget(t) ==
  /\ scanner[t].pc = "unget"
  /\ scanner' = [scanner EXCEPT ![t].pc = "consume"]
  /\ stream' = <<scanner[t].looked>> \o stream
  /\ UNCHANGED scans_overlap

(* The character stored is the one looked at, whatever the read gives. *)
consume(t) ==
  /\ scanner[t].pc = "consume"
  /\ Len(scanner[t].stored) < MaxScan
  /\ scanner' = [scanner EXCEPT ![t].pc = "look", ![t].stored = Append(@, scanner[t].looked)]
  /\ stream' = IF stream = <<>> THEN stream ELSE Tail(stream)
  /\ UNCHANGED scans_overlap

(* The character looked at does not match, or there is none. *)
scan_ends(t) ==
  /\ scanner[t].pc = "consume" \/ (scanner[t].pc = "look" /\ stream = <<>>)
  /\ scanner' = [scanner EXCEPT ![t].pc = "idle"]
  /\ UNCHANGED <<stream, scans_overlap>>

ScanNext == \E t \in Scanners :
  scan_begins(t) \/ look_ahead(t) \/ unget(t) \/ consume(t) \/ scan_ends(t)

-----------------------------------------------------------------------------
(* Properties *)

Scanned == vfscanf(input, format)

(* The conversions of a format that store something, in order. *)
Targets(fmt) ==
  SelectSeq([i \in 1..Len(fmt) |-> i],
            LAMBDA i : fmt[i].kind = "conv" /\ fmt[i].assign /\ fmt[i].what # "n")

(* A count of n means that the first n targets were stored, as a caller    *)
(* takes it -- unless a %s or %[ matched nothing and was passed over.      *)
TargetsInOrder ==
  sample.of = "scan" =>
    LET st == Scanned
        n == Returned_(st)
        passed == \E i \in 1..Len(format) : format[i].kind = "conv" /\ format[i].what \in {"s", "set"}
                                            /\ i \notin ToSet(st.stored)
    IN  n >= 0 /\ ~passed => st.stored = SubSeq(Targets(format), 1, n)

(* EOF is returned only at the end of the input, or for a %% that is not   *)
(* there, or a format that is cut off.  (It may be returned although       *)
(* something was stored, by a number looked for at the end.)               *)
EofAtEnd ==
  sample.of = "scan" =>
    LET st == Scanned
    IN  (Returned_(st) = -1 /\ ~\E i \in 1..Len(format) : format[i].kind \in {"percent", "cut"})
          => st.in = <<>>

(* A lone number conversion stores the number that the longest stretch of  *)
(* digits makes, with its sign and prefix, no wider than its width -- but  *)
(* for a prefix, whose letter is taken even if the width ends before it -- *)
(* and it leaves the character that it stops at.                           *)
NumberRead ==
  sample.of = "scan" /\ (Len(format) = 1 /\ format[1].kind = "conv" /\ format[1].what \in {"d", "o", "x"}) =>
      LET st == Scanned
          d == format[1]
          base == CASE d.what = "d" -> 10 [] d.what = "o" -> 8 [] d.what = "x" -> 16
          from == SkipSpace(FreshScan(input))
          text == SubSeq(from.in, 1, Min({WidthOf(d), Len(from.in)}))
          first == IF LookAhead(text) \in {"-", "+"} THEN 2 ELSE 1
          prefix == d.what = "x" /\ Len(from.in) > first
                    /\ from.in[first] = "0" /\ from.in[first + 1] = "x" /\ first <= Len(text)
          start == IF prefix THEN first + 2 ELSE first
          number == IF start > Len(text) THEN <<>>
                    ELSE SubSeq(text, start, start - 1 + RunOf(SubSeq(text, start, Len(text)),
                                                               DigitsIn(base), Len(text)))
          value == FoldLeft(LAMBDA v, c : base * v + Numerals[c], 0, number)
      IN  /\ number # <<>> <=> st.stored # <<>> \/ (~d.assign /\ Returned_(st) = 0 /\ ~st.done)
          /\ number # <<>> => st.value = IF first = 2 /\ text[1] = "-" THEN -value ELSE value
          /\ st.used - from.used = start - 1 + Len(number)

(* A character read by %c is the next one, be it a space: what %c stores   *)
(* and what is left are the whole input.                                   *)
CharactersWhole ==
  sample.of = "scan" /\ (\A i \in 1..Len(format) : format[i].kind = "conv" /\ format[i].what = "c") =>
      LET st == Scanned
          width(i) == IF format[i].width = 0 THEN 1 ELSE format[i].width
      IN  st.used = Min({Len(input), MapThenSumSet(width, 1..Len(format))})

(* As long as no two scans overlap, what a scan stored and what is left in *)
(* the stream are in the order of the stream, and nothing is lost.         *)
ScansInOrder ==
  ~scans_overlap =>
    \A t \in Scanners :
      scanner[t].pc \in {"look", "consume"} =>
        \A i \in 1..(Len(stream) - 1) : stream[i] + 1 = stream[i + 1]
        /\ (stream # <<>> => stream[Len(stream)] = MaxScan)
        /\ (scanner[t].pc = "consume" => stream # <<>> /\ stream[1] = scanner[t].looked)

(* printf and scanf: calls of several threads stay apart and give the      *)
(* stream back, counts are of what was written or stored, and neither the  *)
(* format nor the buffer nor the input is left.                            *)
TextFormatted ==
  /\ CallsApart /\ LockedWhileWriting /\ CountIsAccepted /\ ScanStaysInside
  /\ BufferTerminated /\ TargetsInOrder /\ EofAtEnd /\ NumberRead
  /\ CharactersWhole /\ ScansInOrder
=============================================================================
