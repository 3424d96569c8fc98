---------------------------- MODULE CommandLine -----------------------------
(***************************************************************************)
(* What a program does with its arguments: options, the names of files, and *)
(* patterns and tokens.                                                    *)
(***************************************************************************)
EXTENDS Integers, FiniteSetsExt, SequencesExt, Samples

-----------------------------------------------------------------------------
(***************************************************************************)
(* The loop of a program over its options: getopt_long of                  *)
(* src/glibc/getopt.cpp, which moves operands to the front of argv while   *)
(* it goes, and getopt of src/posix/getopt.cpp.  An argument is a sequence *)
(* of characters; option letters, those with an argument and long options  *)
(* are constants.                                                          *)
(***************************************************************************)

CONSTANTS
  Args,          \* arguments of commands
  MaxArgs,       \* bound: arguments of a command
  FlagOptions, ArgOptions, OptArgOptions,
                 \* letters without, with and with an optional argument
  LongOptions,   \* long options: [name |-> , has_arg |-> "no", "required", "optional"]
  NoArg        \* no argument

VARIABLES
  command,    \* argv as it was given, without argv[0]
  argv,       \* argv as it is: argv[i] is argv[i] of the code
  optind, next_char, copy_ptr,
  options,    \* what the loop got: <<option, argument>>
  api,        \* the function called: "long", "longstop" (operands end the
              \* options) or "short"
  loop        \* "run", "end" or "error"

optVars == <<command, argv, optind, next_char, copy_ptr, options, api, loop>>

OptStart(given, which) ==
  /\ command = given /\ argv = given
  /\ optind = 1 /\ next_char = 1 /\ copy_ptr = 1
  /\ options = <<>>
  /\ api = which /\ loop = "run"

OptInit == \E n \in 0..MaxArgs : \E given \in [1..n -> Args] :
             \E which \in {"long", "longstop", "short"} : OptStart(given, which)

argc == Len(command) + 1
CharAt(s, i) == IF i <= Len(s) THEN s[i] ELSE "NUL"

(* "-" and "--" are not options. *)
is_option(arg) == CharAt(arg, 1) = "-" /\ Len(arg) > 1 /\ arg # <<"-", "-">>

From(s, i) == SubSeq(s, i, Len(s))

-----------------------------------------------------------------------------
(* getopt_long *)

Calls == loop = "run" /\ api \in {"long", "longstop"}

(* Operands from .. to - 1 are copied to the front. *)
Copied(args, from, to) ==
  [i \in 1..Len(args) |-> IF i \in copy_ptr..(copy_ptr + (to - from) - 1)
                            THEN args[from + (i - copy_ptr)] ELSE args[i]]

(* The end of the operands at optind. *)
OperandsEnd ==
  Min({i \in optind..argc : i = argc \/ is_option(argv[i])})

(* A stretch of operands; if nothing follows it, optind goes back to the   *)
(* first of all the operands, and argv ends after the last.                *)
skip_operands ==
  /\ Calls /\ api = "long" /\ optind < argc
  /\ ~is_option(argv[optind])
  /\ LET end == OperandsEnd
         moved == Copied(argv, optind, end)
         copy == copy_ptr + (end - optind)
     IN  /\ copy_ptr' = copy
         /\ IF end = argc
              THEN /\ optind' = 1 /\ loop' = "end"
                   /\ argv' = SubSeq(moved, 1, copy - 1)
              ELSE /\ optind' = end /\ argv' = moved /\ UNCHANGED loop
  /\ UNCHANGED <<command, api, next_char, options>>

(* The loop ends with optind at the end of argv, or at an operand. *)
options_end ==
  /\ Calls
  /\ optind < argc => api = "longstop" /\ ~is_option(argv[optind])
  /\ loop' = "end"
  /\ UNCHANGED <<command, api, argv, optind, next_char, copy_ptr, options>>

Got(option, arg) == options' = Append(options, <<option, arg>>)

(* A result "?" or ":": optind stays where it is, and another call would   *)
(* give the same.                                                          *)
Refused == /\ loop' = "error"
           /\ UNCHANGED <<command, api, argv, optind, copy_ptr, options>>

long_option ==
  LET arg == argv[optind]
      eq == SelectInSeq(arg, LAMBDA c : c = "=")
      name == SubSeq(arg, 3, IF eq = 0 THEN Len(arg) ELSE eq - 1)
      given == IF eq = 0 THEN NoArg ELSE From(arg, eq + 1)
      known == {o \in LongOptions : o.name = name}
      has_arg == (CHOOSE o \in known : TRUE).has_arg
      next == has_arg = "required" /\ eq = 0
  IN  /\ Calls /\ optind < argc
      /\ is_option(arg) /\ arg[2] = "-"
      /\ IF known = {} \/ (next /\ optind + 1 >= argc)
           THEN Refused
           ELSE /\ Got(name, IF has_arg = "no" THEN NoArg
                             ELSE IF next THEN argv[optind + 1] ELSE given)
                /\ optind' = IF next THEN optind + 2 ELSE optind + 1
                /\ UNCHANGED <<command, api, argv, copy_ptr, loop>>
      /\ UNCHANGED next_char

(* The place in a group of letters starts over with the next argument. *)
AfterGroup(arg) == 1

short_option ==
  LET arg == From(argv[optind], 2)
      c == CharAt(arg, next_char)
      more == CharAt(arg, next_char + 1) # "NUL"
      next == optind + 1 < argc /\ ~is_option(argv[optind + 1])
  IN  /\ Calls /\ optind < argc
      /\ is_option(argv[optind]) /\ argv[optind][2] # "-"
      /\ CASE c \in FlagOptions ->
                /\ Got(<<c>>, NoArg)
                /\ next_char' = IF more THEN next_char + 1 ELSE AfterGroup(arg)
                /\ optind' = IF more THEN optind ELSE optind + 1
                /\ UNCHANGED <<command, api, argv, copy_ptr, loop>>
           [] (c \in ArgOptions /\ (more \/ next)) \/ c \in OptArgOptions ->
                /\ Got(<<c>>, IF more THEN From(arg, next_char + 1)
                              ELSE IF c \in ArgOptions THEN argv[optind + 1] ELSE NoArg)
                /\ next_char' = 1
                /\ optind' = IF more \/ c \in OptArgOptions THEN optind + 1 ELSE optind + 2
                /\ UNCHANGED <<command, api, argv, copy_ptr, loop>>
           [] c \in ArgOptions /\ ~more /\ ~next -> Refused /\ next_char' = 1
           [] OTHER -> Refused /\ UNCHANGED next_char

-----------------------------------------------------------------------------
(* getopt: next_char > 1 while CURRENT_PTR is inside argv[optind - 1] *)

TakesArg(c) == c \in ArgOptions \cup OptArgOptions

(* Where CURRENT_PTR is after an option: inside its group or nowhere. *)
Current(here, c, more) == IF more /\ ~TakesArg(c) THEN here + 1 ELSE 1

getopt ==
  LET fresh == next_char = 1
      at == IF fresh THEN optind ELSE optind - 1
      stops == fresh /\ (optind >= argc \/ CharAt(argv[optind], 1) # "-"
                         \/ CharAt(argv[optind], 2) = "NUL" \/ argv[optind] = <<"-", "-">>)
      here == IF fresh THEN 2 ELSE next_char
      c == CharAt(argv[at], here)
      more == CharAt(argv[at], here + 1) # "NUL"
      after == at + 1
  IN  /\ loop = "run" /\ api = "short"
      /\ IF stops
           THEN /\ loop' = "end"
                /\ optind' = IF optind < argc /\ argv[optind] = <<"-", "-">> THEN optind + 1
                             ELSE optind
                /\ UNCHANGED <<next_char, options>>
           ELSE /\ UNCHANGED loop
                /\ IF c \in FlagOptions \/ (TakesArg(c) /\ (more \/ after < argc))
                     THEN /\ Got(<<c>>, IF c \in FlagOptions THEN NoArg
                                        ELSE IF more THEN From(argv[at], here + 1)
                                        ELSE argv[after])
                          /\ optind' = IF TakesArg(c) /\ ~more THEN after + 1 ELSE after
                     ELSE Got(<<"?">>, NoArg) /\ optind' = after
                /\ next_char' = Current(here, c, more)
      /\ UNCHANGED <<command, api, argv, copy_ptr>>

OptNext == skip_operands \/ options_end \/ long_option \/ short_option \/ getopt

-----------------------------------------------------------------------------
(* Properties *)

(* What a command says, read from the left without moving anything: the    *)
(* options, the operands, and whether it is in error.  "--" is an operand. *)
Meaning ==
  LET RECURSIVE arg(_, _), letters(_, _, _)
      with(acc, option, a) == [acc EXCEPT !.options = Append(@, <<option, a>>)]
      letters(i, k, acc) ==
        LET s == command[i]
            c == s[k]
            rest == From(s, k + 1)
            next == i < Len(command) /\ ~is_option(command[i + 1])
        IN  CASE c \in FlagOptions ->
                   IF rest # <<>> THEN letters(i, k + 1, with(acc, <<c>>, NoArg))
                   ELSE arg(i + 1, with(acc, <<c>>, NoArg))
              [] TakesArg(c) /\ rest # <<>> -> arg(i + 1, with(acc, <<c>>, rest))
              [] c \in OptArgOptions /\ rest = <<>> -> arg(i + 1, with(acc, <<c>>, NoArg))
              [] c \in ArgOptions /\ rest = <<>> /\ next ->
                   arg(i + 2, with(acc, <<c>>, command[i + 1]))
              [] OTHER -> [acc EXCEPT !.error = TRUE]
      arg(i, acc) ==
        IF i > Len(command) THEN acc
        ELSE IF ~is_option(command[i])
               THEN arg(i + 1, [acc EXCEPT !.operands = Append(@, command[i])])
        ELSE IF command[i][2] # "-" THEN letters(i, 2, acc)
        ELSE LET eq == SelectInSeq(command[i], LAMBDA c : c = "=")
                 name == SubSeq(command[i], 3, IF eq = 0 THEN Len(command[i]) ELSE eq - 1)
                 o == {x \in LongOptions : x.name = name}
                 has_arg == (CHOOSE x \in o : TRUE).has_arg
             IN  CASE o = {} -> [acc EXCEPT !.error = TRUE]
                   [] o # {} /\ has_arg = "required" /\ eq = 0 ->
                        IF i = Len(command) THEN [acc EXCEPT !.error = TRUE]
                        ELSE arg(i + 2, with(acc, name, command[i + 1]))
                   [] OTHER -> arg(i + 1, with(acc, name, IF has_arg = "no" \/ eq = 0
                                                          THEN NoArg
                                                          ELSE From(command[i], eq + 1)))
  IN  arg(1, [options |-> <<>>, operands |-> <<>>, error |-> FALSE])

(* Moving operands to the front of argv loses no option and gives none     *)
(* twice: a loop over getopt_long gets the options of the command, each    *)
(* with its argument, in order.                                            *)
OptionsAsGiven ==
  api = "long" =>
    IF loop = "run" THEN IsPrefix(options, Meaning.options)
    ELSE options = Meaning.options /\ (loop = "error" <=> Meaning.error)

(* When the loop over getopt_long has ended, what argv holds from optind   *)
(* on are the operands in order -- unless the last arguments are options:  *)
(* then optind is at the end, and operands before them are not seen.       *)
OperandsInFront ==
  (api = "long" /\ loop = "end") =>
    \/ optind = 1 /\ argv = Meaning.operands
    \/ optind = argc /\ SubSeq(argv, 1, copy_ptr - 1) = Meaning.operands

(* getopt goes through the arguments up to the first operand, each letter  *)
(* once: it has got as many options as it has passed letters that are not  *)
(* the argument of another, and it never stops inside an argument.         *)
EachLetterOnce ==
  api = "short" =>
    LET inside == next_char > 1
        last == IF inside THEN optind - 1 ELSE optind
    IN  /\ inside => last \in 1..Len(command) /\ next_char <= Len(command[last])
        /\ inside => /\ CharAt(command[last], 1) = "-"
                     /\ \A k \in 2..(next_char - 1) : ~TakesArg(command[last][k])
                     /\ \A k \in 2..(next_char - 1) :
                          options[Len(options) - (next_char - 1 - k)][1]
                            = IF command[last][k] \in FlagOptions THEN <<command[last][k]>>
                              ELSE <<"?">>

-----------------------------------------------------------------------------
(***************************************************************************)
(* basename and dirname of src/posix/libgen.cpp and realpath of            *)
(* src/posix/stdlib.cpp, where no symbolic link is met.  A path is a       *)
(* sequence of characters; dots are their own.                             *)
(***************************************************************************)

CONSTANTS
  PathChars,   \* characters of a path, "/" and "." among them
  MaxPath,     \* bound: its length
  WorkingDir,  \* what getcwd says
  Missing,     \* names that do not exist
  PathMax      \* the size of the caller's buffer, PATH_MAX

path == sample.path

PathInit == \E p \in UNION {[1..n -> PathChars] : n \in 1..MaxPath} :
              sample = [of |-> "path", path |-> p]

Slash == "/"
strrchr(p) == SelectLastInSeq(p, LAMBDA c : c = Slash)

-----------------------------------------------------------------------------
(* The first character behind p[1..i] that is no slash, from its end. *)
BeforeSlashes(p, i) ==
  LET s == {k \in 1..i : p[k] # Slash} IN IF s = {} THEN 0 ELSE Max(s)

(* The slashes at the end go, unless there is nothing else. *)
Trimmed(p) ==
  IF Last(p) # Slash THEN p
  ELSE IF BeforeSlashes(p, Len(p)) = 0 THEN <<Slash>>
  ELSE SubSeq(p, 1, BeforeSlashes(p, Len(p)))

basename(p) ==
  LET t == Trimmed(p)
  IN  IF t = <<Slash>> THEN t ELSE SubSeq(t, strrchr(t) + 1, Len(t))

(* The path is cut at its last slash, which is kept only if it is all.     *)
dirname(p) ==
  IF strrchr(p) = 0 THEN <<".">>
  ELSE IF strrchr(p) = 1 /\ Len(p) = 1 THEN p
  ELSE SubSeq(p, 1, strrchr(p) - 1)

-----------------------------------------------------------------------------
(* realpath *)

(* The components between slashes, empty ones included. *)
Components(p) ==
  LET ends == {i \in 1..Len(p) : p[i] = Slash} \cup {Len(p) + 1}
      starts == {1} \cup {i + 1 : i \in ends \ {Len(p) + 1}}
      inOrder == SelectSeq([i \in 1..(Len(p) + 1) |-> i], LAMBDA i : i \in starts)
  IN  [k \in 1..Len(inOrder) |->
         SubSeq(p, inOrder[k], Min({e \in ends : e >= inOrder[k]}) - 1)]

WithoutLast(r) == IF Last(r) = Slash THEN Front(r) ELSE r

Start(p) ==
  IF p[1] = Slash THEN <<Slash>> ELSE WithoutLast(<<Slash>> \o WorkingDir)

(* Two dots cut off the last slash and all behind it. *)
Parent(r) == IF strrchr(r) = 0 THEN r ELSE SubSeq(r, 1, strrchr(r) - 1)

Failed == <<"ENOENT">>

parse_component(r, c) ==
  IF r = Failed \/ c = <<>> \/ c = <<".">> THEN r
  ELSE IF c = <<".", ".">> THEN Parent(r)
  ELSE IF c \in Missing THEN Failed
  ELSE (IF r # <<>> /\ Last(r) = Slash THEN r ELSE Append(r, Slash)) \o c

Resolved(p) == FoldLeft(parse_component, Start(p), Components(p))

TooLong == <<"ENAMETOOLONG">>

realpath(p) == IF Len(Resolved(p)) > PathMax - 1 THEN TooLong ELSE Resolved(p)

-----------------------------------------------------------------------------
(* basename is the last name in the path, however many slashes there are;  *)
(* a path of slashes only is the root.                                     *)
BasenameIsLast ==
  sample.of = "path" =>
    LET names == SelectSeq(Components(path), LAMBDA c : c # <<>>)
    IN  basename(path) = IF names = <<>> THEN <<Slash>> ELSE Last(names)

(* The names that are left when each ".." takes away the one before it;    *)
(* above the root there is the root.                                       *)
Walked(start, p) ==
  LET step(acc, c) == IF c \in {<<>>, <<".">>} THEN acc
                      ELSE IF c # <<".", ".">> THEN Append(acc, c)
                      ELSE IF acc = <<>> THEN acc ELSE Front(acc)
  IN  FoldLeft(step, start, Components(p))

(* Where a path does not end in a slash, dirname and basename split it: a  *)
(* walk to the one and from there to the other ends where the path does.   *)
(* (dirname of a name in the root is empty, so it takes the slash between  *)
(* the two; a slash at the end is all that dirname takes.)                 *)
SplitJoins ==
  sample.of = "path" /\ Last(path) # Slash =>
    Walked(<<>>, dirname(path) \o <<Slash>> \o basename(path))
      = Walked(<<>>, path)

(* realpath names the same directory as walking the path does, without     *)
(* dots and double slashes inside; it fails exactly if a name on the way   *)
(* is missing.  (The root reached by ".." comes out as an empty string,    *)
(* and below a working directory the slash at the front is doubled.)       *)
RealpathWalks ==
  sample.of = "path" =>
    LET r == realpath(path)
        start == IF path[1] = Slash THEN <<>>
                 ELSE SelectSeq(Components(WorkingDir), LAMBDA c : c # <<>>)
    IN  IF \E c \in ToSet(Components(path)) : c \in Missing THEN r = Failed
        ELSE IF r = TooLong THEN Len(Resolved(path)) >= PathMax
        ELSE /\ SelectSeq(Components(r), LAMBDA c : c # <<>>) = Walked(start, path)
             /\ r # <<>> => r[1] = Slash
             /\ \A i \in 2..(Len(r) - 1) : ~(r[i] = Slash /\ r[i + 1] = Slash)

(* What realpath copies to the caller's buffer fits it, terminator too, and *)
(* only a path that would not is refused for its length.                   *)
RealpathFits ==
  sample.of = "path" =>
    /\ realpath(path) # TooLong => Len(realpath(path)) + 1 <= PathMax
    /\ Len(Resolved(path)) < PathMax => realpath(path) # TooLong

-----------------------------------------------------------------------------
(***************************************************************************)
(* fnmatch of src/posix/fnmatch.cpp, without FNM_CASEFOLD, and strtok_r of *)
(* src/internal/string.cpp.  A named class in a group is the one character *)
(* "class", which stands for the last of the letters.                      *)
(***************************************************************************)

CONSTANTS
  PatternParts,   \* the parts patterns are put together from
  MaxParts,       \* bound: parts of a pattern
  SubjectLetters, \* the characters of strings, in order
  MaxSubject      \* bound: characters of a string

pattern == sample.pattern
subject == sample.subject

PatternInit ==
  \E n \in 0..MaxParts, k \in 0..MaxSubject :
    \E f \in [1..n -> PatternParts], s \in [1..k -> ToSet(SubjectLetters)] :
      sample = [of |-> "pattern", pattern |-> FlattenSeq(f), subject |-> s]

Get(s, i) == IF i <= Len(s) THEN s[i] ELSE "NUL"
Order(c) == IF c \in ToSet(SubjectLetters)
              THEN CHOOSE i \in 1..Len(SubjectLetters) : SubjectLetters[i] = c ELSE 0
InRange(c, from, to) == Order(from) > 0 /\ Order(c) \in Order(from)..Order(to)

-----------------------------------------------------------------------------
(* A group: where its ] is, and whether it takes a character.  A ] that    *)
(* comes first is a member.                                                *)

GroupStart(p, i) == IF Get(p, i) \in {"!", "^"} THEN i + 1 ELSE i

Group(p, i, c, pathname) ==
  LET start == GroupStart(p, i)
      exclude == start > i
      RECURSIVE from(_, _)
      from(k, hit) ==
        IF Get(p, k) = "NUL" \/ (p[k] = "]" /\ k > start) THEN [end |-> k, hit |-> hit]
        ELSE IF p[k] = "class" THEN from(k + 1, hit \/ c = Last(SubjectLetters))
        ELSE IF Get(p, k + 1) = "-" /\ Get(p, k + 2) # "NUL"
               THEN from(k + 3, hit \/ InRange(c, p[k], p[k + 2]))
        ELSE from(k + 1, hit \/ (p[k] = c /\ ~(pathname /\ c = "/")))
      all == from(start, FALSE)
  IN  [closed |-> Get(p, all.end) = "]", end |-> all.end,
       takes |-> all.hit # exclude, refuses |-> all.hit /\ exclude]

(* A slash that only a slash matches. *)
SlashKept(pathname, c) == pathname /\ c = "/"

(* The string has ended: a match if a star is next or looks on. *)
StringEnd(c, in_star) == in_star \/ c = "*"

(* The pattern has ended. *)
PatternEnd(d, leading) == d = "NUL" \/ (leading /\ d = "/")

(* fnmatch: at most one star is followed at a time.  After a mismatch the  *)
(* pattern goes on from after that star with the next character, unless a  *)
(* character was matched since.                                            *)
fnmatch(p, s, pathname, leading) ==
  LET RECURSIVE go(_, _, _, _)
      go(i, j, in_star, star) ==
        LET c == Get(p, i)
            next == IF c = "NUL" THEN i ELSE i + 1
            d == Get(s, j)
            group == Group(p, next, d, pathname)
        IN  IF c = "NUL" /\ ~in_star
              THEN PatternEnd(d, leading)
            ELSE IF d = "NUL" THEN StringEnd(c, in_star)
            ELSE IF c = "?"
              THEN IF ~SlashKept(pathname, d) THEN go(next, j + 1, FALSE, star)
                   ELSE IF in_star THEN go(star, j + 1, TRUE, star)
                   ELSE leading /\ Get(p, next) = "NUL"
            ELSE IF c = "*" THEN go(next, j, TRUE, next)
            ELSE IF c = "["
              THEN IF group.refuses THEN in_star /\ go(star, j + 1, TRUE, star)
                   ELSE IF ~group.closed THEN FALSE
                   ELSE IF group.takes THEN go(group.end + 1, j + 1, FALSE, star)
                   ELSE in_star /\ go(star, j + 1, TRUE, star)
            ELSE IF c = d THEN go(next, j + 1, FALSE, star)
            ELSE IF in_star /\ ~SlashKept(pathname, d) THEN go(star, j + 1, TRUE, star)
            ELSE leading /\ Get(p, next) = "NUL" /\ d = "/"
  IN  go(1, 1, FALSE, 1)

-----------------------------------------------------------------------------
(* Where the next call goes on: after the delimiter, which is now NUL. *)
Saved(end, len) == IF end = 0 THEN len + 1 ELSE end + 1

(* strtok_r: the token, the string changed and where the next call goes on *)
(* in it; the string ends at the first NUL from there.                     *)
strtok_r(s, from, delim) ==
  LET len == Min({i \in from..(Len(s) + 1) : Get(s, i) = "NUL"}) - 1
      starts == {i \in from..len : s[i] \notin delim}
      start == Min(starts)
      ends == {i \in start..len : s[i] \in delim}
      end == IF ends = {} THEN 0 ELSE Min(ends)
  IN  IF starts = {} THEN [token |-> <<>>, str |-> s, save |-> from]
      ELSE [token |-> SubSeq(s, start, IF end = 0 THEN len ELSE end - 1),
            str |-> IF end = 0 THEN s ELSE [s EXCEPT ![end] = "NUL"],
            save |-> Saved(end, len)]

(* The tokens of a string, call after call. *)
Tokens(str, delim) ==
  LET RECURSIVE from(_, _)
      from(s, i) == LET r == strtok_r(s, i, delim)
                    IN  IF r.token = <<>> THEN <<>> ELSE <<r.token>> \o from(r.str, r.save)
  IN  from(str, 1)

-----------------------------------------------------------------------------
(* Properties *)

(* What a pattern means, with groups as they are. *)
Matches(p, s, pathname) ==
  LET RECURSIVE m(_, _)
      m(i, j) ==
        LET c == Get(p, i)
            d == Get(s, j)
            g == Group(p, i + 1, d, pathname)
        IN  CASE c = "NUL" -> d = "NUL"
              [] c = "*" -> m(i + 1, j) \/ (d # "NUL" /\ ~(pathname /\ d = "/") /\ m(i, j + 1))
              [] c = "?" -> d # "NUL" /\ ~(pathname /\ d = "/") /\ m(i + 1, j + 1)
              [] c = "[" -> d # "NUL" /\ g.closed /\ g.takes /\ m(g.end + 1, j + 1)
              [] OTHER -> c = d /\ m(i + 1, j + 1)
  IN  m(1, 1)

Stars == {i \in 1..Len(pattern) : pattern[i] = "*"}
Groups == {i \in 1..Len(pattern) : pattern[i] = "["}

(* Without a star, or with one at the end, fnmatch is exact.  With         *)
(* FNM_PATHNAME a star at the end does not pass a slash.                   *)
ExactWithoutStar ==
  sample.of = "pattern" =>
    \A pathname \in BOOLEAN :
      Stars \subseteq {Len(pattern)} =>
        (fnmatch(pattern, subject, pathname, FALSE) <=> Matches(pattern, subject, pathname))

(* With stars a match that is found is one -- of the pattern, or of the    *)
(* pattern up to a star: a string that ends while a star looks for what    *)
(* follows it is taken.  (A match may be missed: no choice is taken back   *)
(* once a character after the star has matched.)                           *)
FoundIsMatch ==
  sample.of = "pattern" =>
    \A pathname \in BOOLEAN :
      fnmatch(pattern, subject, pathname, FALSE) =>
        \/ Matches(pattern, subject, pathname)
        \/ \E k \in Stars : Matches(SubSeq(pattern, 1, k), subject, FALSE)

(* FNM_LEADING_DIR takes a string whose first directories match. *)
LeadingTaken ==
  sample.of = "pattern" /\ Stars = {} =>
      \A j \in 1..Len(subject) :
        subject[j] = "/" /\ Matches(pattern, SubSeq(subject, 1, j - 1), FALSE)
          => fnmatch(pattern, subject, FALSE, TRUE)

(* The tokens are the longest stretches without delimiters, in order, each *)
(* once.                                                                   *)
TokensAreRuns ==
  sample.of = "pattern" =>
    LET delim == {"/"}
        begins == {i \in 1..Len(subject) : subject[i] \notin delim
                                           /\ (i = 1 \/ subject[i - 1] \in delim)}
        run(i) == SubSeq(subject, i, Max({k \in i..Len(subject) :
                                           \A x \in i..k : subject[x] \notin delim}))
    IN  Tokens(subject, delim) = [n \in 1..Cardinality(begins) |->
          run(CHOOSE i \in begins : Cardinality({b \in begins : b <= i}) = n)]

(* Options and operands come out as given, paths are taken apart and       *)
(* resolved, patterns and tokens found, but for the losses the code has.   *)
ArgumentsRead ==
  /\ ExactWithoutStar /\ FoundIsMatch /\ LeadingTaken /\ TokensAreRuns
  /\ OptionsAsGiven /\ OperandsInFront /\ EachLetterOnce
  /\ BasenameIsLast /\ SplitJoins /\ RealpathWalks /\ RealpathFits
=============================================================================
